-------------------------------- MODULE Fifo --------------------------------
(***************************************************************************)
(* What one direction of the mailbox promises: a bounded queue that         *)
(* duplicates and reorders nothing, between one sender and one receiver     *)
(* that holds the message it has last taken.  Messages are lost in one way  *)
(* only: a reset empties the queue and makes the receiver forget.           *)
(***************************************************************************)
EXTENDS Naturals, Sequences

CONSTANTS
  Capacity,   \* how many messages may be under way
  Message,    \* the messages there are
  NoMessage   \* what the receiver holds when it holds none

VARIABLES
  queue,      \* the messages sent and not yet taken
  held,       \* the message the receiver has taken and not yet let go
  resets      \* how often the receiver has been reset

fifoVars == <<queue, held, resets>>

FifoInit ==
  /\ queue = <<>>
  /\ held = NoMessage
  /\ resets = 0

Put ==
  /\ Len(queue) < Capacity
  /\ \E m \in Message : queue' = Append(queue, m)
  /\ UNCHANGED <<held, resets>>

Take ==
  /\ queue # <<>>
  /\ held = NoMessage
  /\ held' = Head(queue)
  /\ queue' = Tail(queue)
  /\ UNCHANGED resets

LetGo ==
  /\ held # NoMessage
  /\ held' = NoMessage
  /\ UNCHANGED <<queue, resets>>

Reset ==
  /\ queue' = <<>>
  /\ held' = NoMessage
  /\ resets' = resets + 1

FifoNext == Put \/ Take \/ LetGo \/ Reset

FifoSpec == FifoInit /\ [][FifoNext]_fifoVars
=============================================================================
