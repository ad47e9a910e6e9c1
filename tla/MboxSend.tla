------------------------------ MODULE MboxSend ------------------------------
(***************************************************************************)
(* The ColdFire -> ARM direction of coldfire/src/hal/mbox.c: tasks call     *)
(* mbox_send, which yields while the ring is full, or mbox_printf, which    *)
(* spins; the ARM drains the ring when its interrupt fires.  Tasks are      *)
(* cooperative, so a poll runs to its end before another task's; the ARM    *)
(* runs between any two memory accesses of a poll.                          *)
(***************************************************************************)
EXTENDS MboxRing

CONSTANTS
  Sender,    \* the tasks that call mbox_send
  Printer,   \* the tasks that call mbox_printf
  Msg,       \* what they send
  NoMsg,     \* no message
  SeqRange,  \* how many values s_tx_seq has (256 in the source)
  MaxCalls   \* bound: how many calls the tasks make in all

ASSUME TaskAssumption == Sender \cap Printer = {}
ASSUME SendBoundAssumption == SeqRange \in Nat \ {0} /\ MaxCalls \in Nat

VARIABLES
  head, tail, slots,  \* MBOX_CF2ARM, in shared SRAM
  tx_seq,             \* s_tx_seq
  task,               \* where each task stands in its call
  msg,                \* mbox_send_t.msg and .seq, the locals of mbox_printf
  irq,                \* ARM IRQ#45 is pending
  arm,                \* where the consumer stands
  got,                \* the message the consumer has taken
  calls               \* how many calls have been made

ringVars == <<head, tail, slots>>
sendVars == <<head, tail, slots, tx_seq, task, msg, irq, arm, got, calls>>

Task == Sender \cup Printer

\* "idle": not in a call.  "waiting": suspended at the await of mbox_send.  The
\* others are the accesses of a poll, in order.
Polling == {"test_full", "fill", "publish", "doorbell"}
Stage == {"idle", "waiting"} \cup Polling

\* The ARM's interrupt handler drains the ring, then sleeps.
Consumer == {"asleep", "draining", "taken"}

\* A message as it lies in its slot.
Stamped == [body : Msg, seq : 0..(SeqRange - 1)]

ASSUME MsgAssumption == NoMsg \notin Stamped

NextSeq(s) == (s + 1) % SeqRange

\* The ARM leaves this ring empty; where its counters start, nothing says.
Init ==
  /\ head \in Counter
  /\ tail = head
  /\ slots = [i \in SlotIndex |-> NoMsg]
  /\ tx_seq = 0
  /\ task = [t \in Task |-> "idle"]
  /\ msg = [t \in Task |-> NoMsg]
  /\ irq = FALSE
  /\ arm = "asleep"
  /\ got = NoMsg
  /\ calls = 0

\* No task is in the middle of a poll.
BetweenPolls == \A t \in Task : task[t] \notin Polling

-----------------------------------------------------------------------------
\* The first poll of a call takes the message's sequence number.
Call(t) ==
  /\ BetweenPolls
  /\ task[t] = "idle"
  /\ calls < MaxCalls
  /\ calls' = calls + 1
  /\ \E m \in Msg : msg' = [msg EXCEPT ![t] = [body |-> m, seq |-> tx_seq]]
  /\ tx_seq' = NextSeq(tx_seq)
  /\ task' = [task EXCEPT ![t] = "test_full"]
  /\ UNCHANGED <<ringVars, irq, arm, got>>

\* The executor polls a task that waits for room.
Poll(t) ==
  /\ BetweenPolls
  /\ task[t] = "waiting"
  /\ task' = [task EXCEPT ![t] = "test_full"]
  /\ UNCHANGED <<ringVars, tx_seq, msg, irq, arm, got, calls>>

Go(t, here, there) ==
  /\ task[t] = here
  /\ task' = [task EXCEPT ![t] = there]
  /\ UNCHANGED <<tail, tx_seq, msg, arm, got, calls>>

\* Faulty variant: a poll that found the ring full goes on when resumed.
TestFullOnce(t) ==
  /\ \/ ~RingFull(head, tail) /\ Go(t, "test_full", "fill")
     \/ RingFull(head, tail) /\ t \in Sender /\ Go(t, "test_full", "fill")
  /\ UNCHANGED <<head, slots, irq>>

\* await(!ring_full(..)); mbox_printf tests again instead.
TestFull(t) ==
  /\ \/ ~RingFull(head, tail) /\ Go(t, "test_full", "fill")
     \/ RingFull(head, tail) /\ t \in Sender /\ Go(t, "test_full", "waiting")
  /\ UNCHANGED <<head, slots, irq>>

\* Faulty variant: the slot is chosen by tail.
FillOldest(t) ==
  /\ Go(t, "fill", "publish")
  /\ slots' = [slots EXCEPT ![Index(tail)] = msg[t]]
  /\ UNCHANGED <<head, irq>>

Fill(t) ==
  /\ Go(t, "fill", "publish")
  /\ slots' = [slots EXCEPT ![Index(head)] = msg[t]]
  /\ UNCHANGED <<head, irq>>

Publish(t) ==
  /\ Go(t, "publish", "doorbell")
  /\ head' = Advance(head)
  /\ UNCHANGED <<slots, irq>>

\* Faulty variant: mbox_printf leaves the ARM asleep.
DoorbellBySenders(t) ==
  /\ Go(t, "doorbell", "idle")
  /\ irq' = (irq \/ t \in Sender)
  /\ UNCHANGED <<head, slots>>

Doorbell(t) ==
  /\ Go(t, "doorbell", "idle")
  /\ irq' = TRUE
  /\ UNCHANGED <<head, slots>>

-----------------------------------------------------------------------------
(* The ARM side is a separate project; mbox.c relies on it to acknowledge   *)
(* the interrupt, and to consume a slot only after reading it.              *)

ArmIrq ==
  /\ irq
  /\ arm = "asleep"
  /\ irq' = FALSE
  /\ arm' = "draining"
  /\ UNCHANGED <<ringVars, tx_seq, task, msg, got, calls>>

ArmTake ==
  /\ arm = "draining"
  /\ ~RingEmpty(head, tail)
  /\ got' = slots[Index(tail)]
  /\ arm' = "taken"
  /\ UNCHANGED <<ringVars, tx_seq, task, msg, irq, calls>>

ArmConsume ==
  /\ arm = "taken"
  /\ tail' = Advance(tail)
  /\ got' = NoMsg
  /\ arm' = "draining"
  /\ UNCHANGED <<head, slots, tx_seq, task, msg, irq, calls>>

ArmSleep ==
  /\ arm = "draining"
  /\ RingEmpty(head, tail)
  /\ arm' = "asleep"
  /\ UNCHANGED <<ringVars, tx_seq, task, msg, irq, got, calls>>

-----------------------------------------------------------------------------
Step(t) == TestFull(t) \/ Fill(t) \/ Publish(t) \/ Doorbell(t)

Arm == ArmIrq \/ ArmTake \/ ArmConsume \/ ArmSleep

Next == Arm \/ \E t \in Task : Call(t) \/ Poll(t) \/ Step(t)

Spec == Init /\ [][Next]_sendVars

\* Every pass of the executor polls every task, and the ARM serves its
\* interrupt.  A task that waits for room may be overtaken on each pass by a
\* task polled before it, so its polls must only happen, not find room.
FairSpec ==
  /\ Spec
  /\ \A t \in Task : WF_sendVars(Poll(t)) /\ WF_sendVars(Step(t))
  /\ WF_sendVars(Arm)

-----------------------------------------------------------------------------
TypeOK ==
  /\ head \in Counter
  /\ tail \in Counter
  /\ slots \in [SlotIndex -> Stamped \cup {NoMsg}]
  /\ tx_seq \in 0..(SeqRange - 1)
  /\ task \in [Task -> Stage]
  /\ msg \in [Task -> Stamped \cup {NoMsg}]
  /\ irq \in BOOLEAN
  /\ arm \in Consumer
  /\ got \in Stamped \cup {NoMsg}
  /\ calls \in 0..MaxCalls

(* Several tasks share the producer's side.  A test for room made before a  *)
(* yield is made again after it, so no task fills a slot that another has   *)
(* taken in between, or that the ARM has yet to read.                       *)
RingIsBounded ==
  /\ RingCount(head, tail) <= RingSize
  /\ \A t \in Task : task[t] \in {"fill", "publish"} =>
       RingCount(head, tail) < RingSize
  /\ arm = "taken" => RingCount(head, tail) > 0

(* No message stays in the ring while the ARM sleeps for good: between the  *)
(* advance of head, the doorbell and the ARM's last look at the ring there  *)
(* is no order of events that leaves one behind.                            *)
MessageReachesArm == (RingCount(head, tail) > 0) ~> (arm = "taken")

(* Every call of mbox_send and mbox_printf comes to an end, given that the  *)
(* other tasks make finitely many: a task that spins in mbox_printf holds   *)
(* up all others, and still none waits for another in a circle.             *)
CallEnds == \A t \in Task : (task[t] # "idle") ~> (task[t] = "idle")

\* The ring as a queue; the ARM takes a message before it gives back the slot.
Channel == INSTANCE Fifo
             WITH Capacity <- RingSize, Message <- Stamped, NoMessage <- NoMsg,
                  queue <- IF arm = "taken" THEN Tail(Contents(head, tail, slots))
                                            ELSE Contents(head, tail, slots),
                  held <- got, resets <- 0

(* All tasks together and the ARM are a bounded FIFO: no task's message is  *)
(* overwritten by another task's, lost, or read twice.                      *)
ImplementsFifo == Channel!FifoSpec
=============================================================================
