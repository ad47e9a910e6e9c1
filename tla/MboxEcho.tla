------------------------------ MODULE MboxEcho ------------------------------
(***************************************************************************)
(* The echo firmware of the mailbox smoke test (coldfire/README.md, "Target *)
(* smoke tests", and coldfire/test/target/README.md, SC-3): one task that   *)
(* awaits mbox_recv, then awaits mbox_send of what it has received, for     *)
(* ever.  It composes the two directions of the mailbox.  The task is no    *)
(* file of the repository; it is modelled from those two descriptions.      *)
(***************************************************************************)
EXTENDS Naturals

CONSTANTS
  RingSize, CounterRange, SeqRange,
  NoMsg,
  MaxEchoes   \* bound: how many messages the task sends back

VARIABLES
  in_head, in_tail, in_slots, in_arm, sw_int, wake, cf, buf, restarts,
  out_head, out_tail, out_slots, tx_seq, task, msg, irq, out_arm, got, calls,
  arm_seq     \* the sequence number of the next message of the ARM

recvVars == <<in_head, in_tail, in_slots, in_arm, sw_int, wake, cf, buf, restarts>>
sendVars == <<out_head, out_tail, out_slots, tx_seq, task, msg, irq, out_arm,
              got, calls>>
echoVars == <<recvVars, sendVars, arm_seq>>

\* A message of the ARM is told apart by the sequence number it puts in it.
Numbers == 0..(SeqRange - 1)

In == INSTANCE MboxRecv
        WITH Msg <- Numbers, MaxRestarts <- 0,
             head <- in_head, tail <- in_tail, slots <- in_slots, arm <- in_arm

Out == INSTANCE MboxSend
         WITH Msg <- Numbers, Sender <- {"echo"}, Printer <- {},
              MaxCalls <- MaxEchoes,
              head <- out_head, tail <- out_tail, slots <- out_slots,
              arm <- out_arm

Init ==
  /\ In!Init
  /\ Out!Init
  /\ arm_seq = 0

\* The ARM fills its slots with consecutive numbers.
ArmSends ==
  /\ \/ /\ In!FillSlot \/ In!Publish \/ In!Doorbell
        /\ UNCHANGED arm_seq
     \/ /\ In!FilledSlot
        /\ in_slots'[In!Index(in_head)] = arm_seq
        /\ arm_seq' = Out!NextSeq(arm_seq)
  /\ UNCHANGED sendVars

ArmReceives ==
  /\ Out!Arm
  /\ UNCHANGED <<recvVars, arm_seq>>

Interrupt ==
  /\ In!MboxRxIsr \/ In!Tick
  /\ UNCHANGED <<sendVars, arm_seq>>

AwaitRecv ==
  /\ In!Recv \/ In!EndPass
  /\ UNCHANGED <<sendVars, arm_seq>>

\* mbox_recv is done: what lies in its context is sent.
StartSend ==
  /\ cf \in {"received", "spurious"}
  /\ Out!Call("echo")
  /\ msg'["echo"].body = buf
  /\ UNCHANGED <<recvVars, arm_seq>>

AwaitSend ==
  /\ \/ Out!Poll("echo") \/ Out!TestFull("echo")
     \/ Out!Fill("echo") \/ Out!Publish("echo")
  /\ UNCHANGED <<recvVars, arm_seq>>

\* mbox_send is done: back to mbox_recv.
NextEcho ==
  /\ Out!Doorbell("echo")
  /\ In!Recall
  /\ UNCHANGED arm_seq

Next ==
  \/ ArmSends \/ ArmReceives \/ Interrupt
  \/ AwaitRecv \/ StartSend \/ AwaitSend \/ NextEcho

Spec == Init /\ [][Next]_echoVars

-----------------------------------------------------------------------------
(* "ARM verifies sequence numbers match and no messages are dropped"        *)
(* (coldfire/README.md:191): the ARM finds its own number in each echo, and *)
(* the numbers of the echoes are those of the messages.                     *)
EchoMatches == got # NoMsg => got.seq = got.body
=============================================================================
