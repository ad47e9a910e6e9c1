--------------------------- MODULE MboxSendProofs ---------------------------
(***************************************************************************)
(* For every number of tasks, ring size and counter range: the send path of *)
(* mbox.c never overfills the ring, and all its tasks together with the ARM *)
(* implement a bounded FIFO.                                                *)
(***************************************************************************)
EXTENDS MboxSend, MboxRingProofs

\* The executor is cooperative: between the test for room and the doorbell no
\* other task touches the ring.
OnePolls ==
  \A t, u \in Task : task[t] \in Polling /\ task[u] \in Polling => t = u

\* A task's test for room holds until its own advance because no other task
\* advances head in between, and the ARM only makes room.
Inv == TypeOK /\ RingIsBounded /\ OnePolls

LEMMA InitInv ==
  ASSUME Init
  PROVE  Inv
<1>1. RingSize \in Nat \ {0} /\ CounterRange \in Nat
  BY RingFitsCounter
<1>2. TypeOK
  <2>1. tx_seq \in 0..(SeqRange - 1) /\ calls \in 0..MaxCalls
    BY SendBoundAssumption DEF Init
  <2>2. /\ slots \in [SlotIndex -> Stamped \cup {NoMsg}]
        /\ msg \in [Task -> Stamped \cup {NoMsg}]
        /\ task \in [Task -> Stage]
    BY DEF Init, Stage
  <2> QED
    BY <2>1, <2>2 DEF Init, TypeOK, Consumer
<1>3. RingCount(head, tail) = 0
  BY <1>1 DEF Init, Counter, RingCount
<1>4. RingIsBounded /\ OnePolls
  BY <1>1, <1>3 DEF Init, RingIsBounded, OnePolls, Polling
<1> QED
  BY <1>2, <1>4 DEF Inv

(* What the invariant says of the counters.                                 *)
LEMMA Counters ==
  ASSUME Inv
  PROVE  /\ head \in Counter /\ tail \in Counter
         /\ RingSize \in Nat \ {0}
         /\ CounterRange \in Nat
         /\ RingSize < CounterRange
         /\ RingCount(head, tail) \in Nat
         /\ Index(head) \in SlotIndex /\ Index(tail) \in SlotIndex
<1>1. head \in Counter /\ tail \in Counter
  BY DEF Inv, TypeOK
<1>2. head \in Nat /\ tail \in Nat /\ Counter \subseteq Nat
  BY <1>1, RingFitsCounter DEF Counter
<1>3. RingCount(head, tail) \in Nat
  BY <1>1, <1>2, CountType
<1> QED
  BY <1>1, <1>2, <1>3, RingFitsCounter, IndexType

-----------------------------------------------------------------------------
(* The steps of a task.                                                     *)

(* A task that begins a poll is the only one that polls.                    *)
LEMMA PollBegins ==
  ASSUME Inv, NEW t \in Task, BetweenPolls,
         task' = [task EXCEPT ![t] = "test_full"],
         UNCHANGED <<ringVars, arm>>
  PROVE  /\ task' \in [Task -> Stage]
         /\ RingIsBounded'
         /\ OnePolls'
<1>1. task \in [Task -> Stage]
  BY DEF Inv, TypeOK
<1>2. \A u \in Task : u # t => task'[u] \notin Polling
  BY <1>1 DEF BetweenPolls
<1>3. task'[t] = "test_full" /\ task' \in [Task -> Stage]
  BY <1>1 DEF Stage, Polling
<1>4. RingIsBounded'
  BY <1>2, <1>3 DEF Inv, RingIsBounded, ringVars, Polling
<1>5. OnePolls'
  BY <1>2 DEF OnePolls
<1> QED
  BY <1>3, <1>4, <1>5

LEMMA CallInv ==
  ASSUME Inv, NEW t \in Task, Call(t)
  PROVE  Inv'
<1>1. task' \in [Task -> Stage] /\ RingIsBounded' /\ OnePolls'
  BY PollBegins DEF Call
<1>2. PICK m \in Msg : msg' = [msg EXCEPT ![t] = [body |-> m, seq |-> tx_seq]]
  BY DEF Call
<1>3. [body |-> m, seq |-> tx_seq] \in Stamped
  BY DEF Inv, TypeOK, Stamped
<1>4. msg' \in [Task -> Stamped \cup {NoMsg}]
  BY <1>2, <1>3 DEF Inv, TypeOK
<1>5. tx_seq' \in 0..(SeqRange - 1)
  BY SendBoundAssumption DEF Inv, TypeOK, Call, NextSeq
<1>6. calls' \in 0..MaxCalls
  BY SendBoundAssumption DEF Inv, TypeOK, Call
<1> QED
  BY <1>1, <1>4, <1>5, <1>6 DEF Inv, TypeOK, Call, ringVars

LEMMA PollInv ==
  ASSUME Inv, NEW t \in Task, Poll(t)
  PROVE  Inv'
<1>1. task' \in [Task -> Stage] /\ RingIsBounded' /\ OnePolls'
  BY PollBegins DEF Poll
<1> QED
  BY <1>1 DEF Inv, TypeOK, Poll, ringVars

(* While a task goes on with its poll the others stand still.               *)
LEMMA GoKeeps ==
  ASSUME Inv, NEW t \in Task, NEW here \in Polling, NEW there \in Stage,
         Go(t, here, there)
  PROVE  /\ task' \in [Task -> Stage]
         /\ task'[t] = there
         /\ \A u \in Task : u # t => task'[u] = task[u] /\ task[u] \notin Polling
         /\ OnePolls'
<1>1. task \in [Task -> Stage] /\ task[t] = here
  BY DEF Inv, TypeOK, Go
<1>2. \A u \in Task : u # t => task'[u] = task[u] /\ task[u] \notin Polling
  BY <1>1 DEF Go, Inv, OnePolls
<1>3. task' \in [Task -> Stage] /\ task'[t] = there
  BY <1>1 DEF Go
<1> QED
  BY <1>2, <1>3 DEF OnePolls

LEMMA StepInv ==
  ASSUME Inv, NEW t \in Task, Step(t)
  PROVE  Inv'
<1>1. /\ head \in Counter /\ tail \in Counter
      /\ RingSize \in Nat \ {0}
      /\ CounterRange \in Nat
      /\ RingSize < CounterRange
      /\ RingCount(head, tail) \in Nat
  BY Counters
<1>2. CASE TestFull(t)
  <2>1. PICK there \in {"fill", "waiting"} :
          /\ Go(t, "test_full", there)
          /\ there = "fill" => RingCount(head, tail) < RingSize
    BY <1>1, <1>2 DEF TestFull, RingFull
  <2>2. /\ task' \in [Task -> Stage]
        /\ task'[t] = there
        /\ \A u \in Task : u # t => task'[u] \notin Polling
        /\ OnePolls'
    BY <2>1, GoKeeps DEF Polling, Stage
  <2>3. UNCHANGED <<head, tail, slots, irq, tx_seq, msg, arm, got, calls>>
    BY <1>2 DEF TestFull, Go
  <2>4. RingIsBounded'
    BY <2>1, <2>2, <2>3 DEF Inv, RingIsBounded, Polling
  <2> QED
    BY <2>2, <2>3, <2>4 DEF Inv, TypeOK
<1>3. CASE Fill(t)
  <2>1. Go(t, "fill", "publish")
    BY <1>3 DEF Fill
  <2>2. /\ task' \in [Task -> Stage]
        /\ \A u \in Task : u # t => task'[u] \notin Polling
        /\ OnePolls'
    BY <2>1, GoKeeps DEF Polling, Stage
  <2>3. UNCHANGED <<head, tail, irq, tx_seq, msg, arm, got, calls>>
    BY <1>3 DEF Fill, Go
  <2>4. slots' \in [SlotIndex -> Stamped \cup {NoMsg}]
    <3>1. slots' = [slots EXCEPT ![Index(head)] = msg[t]]
      BY <1>3 DEF Fill
    <3> QED
      BY <3>1 DEF Inv, TypeOK
  <2>5. RingIsBounded'
    BY <2>1, <2>2, <2>3 DEF Inv, RingIsBounded, Polling, Go
  <2> QED
    BY <2>2, <2>3, <2>4, <2>5 DEF Inv, TypeOK
<1>4. CASE Publish(t)
  <2>1. Go(t, "publish", "doorbell") /\ RingCount(head, tail) < RingSize
    BY <1>4 DEF Publish, Go, Inv, RingIsBounded
  <2>2. /\ task' \in [Task -> Stage]
        /\ task'[t] = "doorbell"
        /\ \A u \in Task : u # t => task'[u] \notin Polling
        /\ OnePolls'
    BY <2>1, GoKeeps DEF Polling, Stage
  <2>3. UNCHANGED <<tail, slots, irq, tx_seq, msg, arm, got, calls>>
    BY <1>4 DEF Publish, Go
  <2>4. head' \in Counter /\ RingCount(head', tail) = RingCount(head, tail) + 1
    BY <1>1, <1>4, <2>1, HeadAdvances DEF Publish
  <2>5. RingIsBounded'
    BY <1>1, <2>1, <2>2, <2>3, <2>4 DEF Inv, RingIsBounded, Polling
  <2> QED
    BY <2>2, <2>3, <2>4, <2>5 DEF Inv, TypeOK
<1>5. CASE Doorbell(t)
  <2>1. Go(t, "doorbell", "idle")
    BY <1>5 DEF Doorbell
  <2>2. /\ task' \in [Task -> Stage]
        /\ task'[t] = "idle"
        /\ \A u \in Task : u # t => task'[u] \notin Polling
        /\ OnePolls'
    BY <2>1, GoKeeps DEF Polling, Stage
  <2>3. UNCHANGED <<head, tail, slots, tx_seq, msg, arm, got, calls>> /\ irq' = TRUE
    BY <1>5 DEF Doorbell, Go
  <2>4. RingIsBounded'
    BY <2>2, <2>3 DEF Inv, RingIsBounded, Polling
  <2> QED
    BY <2>2, <2>3, <2>4 DEF Inv, TypeOK
<1> QED
  BY <1>2, <1>3, <1>4, <1>5 DEF Step

-----------------------------------------------------------------------------
(* The steps of the ARM.                                                    *)

LEMMA ArmInv ==
  ASSUME Inv, Arm
  PROVE  Inv'
<1>1. /\ head \in Counter /\ tail \in Counter
      /\ RingSize \in Nat
      /\ RingCount(head, tail) \in Nat
      /\ Index(tail) \in SlotIndex
  BY Counters
<1>2. CASE ArmIrq
  BY <1>2 DEF ArmIrq, ringVars, Inv, TypeOK, Consumer, RingIsBounded, OnePolls
<1>3. CASE ArmTake
  BY <1>1, <1>3
  DEF ArmTake, ringVars, RingEmpty, Inv, TypeOK, Consumer, RingIsBounded, OnePolls
<1>4. CASE ArmConsume
  <2>1. RingCount(head, tail) > 0
    BY <1>4 DEF ArmConsume, Inv, RingIsBounded
  <2>2. tail' \in Counter /\ RingCount(head, tail') = RingCount(head, tail) - 1
    BY <1>1, <1>4, <2>1, TailAdvances DEF ArmConsume
  <2>3. RingIsBounded'
    BY <1>1, <1>4, <2>1, <2>2 DEF ArmConsume, Inv, RingIsBounded
  <2> QED
    BY <1>4, <2>2, <2>3 DEF ArmConsume, Inv, TypeOK, Consumer, OnePolls
<1>5. CASE ArmSleep
  BY <1>5 DEF ArmSleep, ringVars, Inv, TypeOK, Consumer, RingIsBounded, OnePolls
<1> QED
  BY <1>2, <1>3, <1>4, <1>5 DEF Arm

LEMMA NextInv ==
  ASSUME Inv, [Next]_sendVars
  PROVE  Inv'
<1>1. CASE UNCHANGED sendVars
  BY <1>1 DEF sendVars, Inv, TypeOK, RingIsBounded, OnePolls
<1> QED
  BY <1>1, ArmInv, CallInv, PollInv, StepInv DEF Next

(* For every set of tasks and messages, ring size and bound, the variables  *)
(* of the send path stay in their types: the counters of mbox_ring_t and    *)
(* s_tx_seq among them.                                                     *)
THEOREM TypeCorrect == Spec => []TypeOK
<1>1. Init => Inv
  BY InitInv
<1>2. Inv /\ [Next]_sendVars => Inv'
  BY NextInv
<1>3. Inv => TypeOK
  BY DEF Inv
<1> QED
  BY <1>1, <1>2, <1>3, PTL DEF Spec

(* However many tasks call mbox_send and mbox_printf, and however the ARM   *)
(* runs between their accesses, no task fills a slot without room, and the  *)
(* ARM takes from no empty ring.                                            *)
THEOREM RingStaysBounded == Spec => []RingIsBounded
<1>1. Init => Inv
  BY InitInv
<1>2. Inv /\ [Next]_sendVars => Inv'
  BY NextInv
<1>3. Inv => RingIsBounded
  BY DEF Inv
<1> QED
  BY <1>1, <1>2, <1>3, PTL DEF Spec

-----------------------------------------------------------------------------
(* The ring as a queue.                                                     *)

\* What a message is at each step of its way: its own task's until head is
\* advanced, and the ARM's from its slot until tail is.
QueueInv ==
  /\ Contents(head, tail, slots) \in Seq(Stamped)
  /\ \A t \in Task : task[t] # "idle" => msg[t] \in Stamped
  /\ \A t \in Task : task[t] = "publish" => slots[Index(head)] = msg[t]
  /\ got = IF arm = "taken" THEN slots[Index(tail)] ELSE NoMsg

LEMMA InitQueue == Init => QueueInv /\ Channel!FifoInit
<1> SUFFICES ASSUME Init PROVE QueueInv /\ Channel!FifoInit
  OBVIOUS
<1>1. Contents(head, tail, slots) = <<>>
  BY ContentsOfEmpty DEF Init
<1> QED
  BY <1>1 DEF Init, QueueInv, Channel!FifoInit

(* A step that leaves the ring and the ARM alone is none of the FIFO's.     *)
LEMMA RingStill ==
  ASSUME UNCHANGED <<ringVars, arm, got>>
  PROVE  [Channel!FifoNext]_Channel!fifoVars
  BY DEF ringVars, Channel!fifoVars

(* A message enters the queue when head is advanced past it.                *)
LEMMA PublishPuts ==
  ASSUME Inv, QueueInv, NEW t \in Task, Publish(t)
  PROVE  QueueInv' /\ Channel!FifoNext
<1>1. /\ head \in Counter /\ tail \in Counter
      /\ RingSize \in Nat
      /\ RingCount(head, tail) \in Nat
  BY Counters
<1>2. /\ Go(t, "publish", "doorbell")
      /\ RingCount(head, tail) < RingSize
      /\ slots[Index(head)] \in Stamped
  BY DEF Publish, Go, Inv, RingIsBounded, QueueInv
<1>3. /\ task'[t] = "doorbell"
      /\ \A u \in Task : u # t => task'[u] = task[u] /\ task[u] \notin Polling
  BY <1>2, GoKeeps DEF Polling, Stage
<1>4. UNCHANGED <<tail, slots, msg, arm, got>>
  BY DEF Publish, Go
<1> DEFINE q == Contents(head, tail, slots)
<1>5. q' = Append(q, slots[Index(head)])
  BY <1>1, <1>2, <1>4, ContentsGrow DEF Publish, QueueInv
<1>6. q' \in Seq(Stamped)
  BY <1>2, <1>5, AppendProperties DEF QueueInv
<1>7. QueueInv'
  BY <1>2, <1>3, <1>4, <1>6 DEF QueueInv, Polling, Go
<1>8. q \in Seq(Stamped) /\ Len(q) = RingCount(head, tail)
  BY <1>1, ContentsLength DEF QueueInv
<1>9. CASE arm = "taken"
  <2>1. RingCount(head, tail) > 0 /\ q # <<>>
    BY <1>1, <1>9, ContentsFirst DEF Inv, RingIsBounded, QueueInv
  <2>2. Tail(q') = Append(Tail(q), slots[Index(head)])
    BY <1>5, <1>8, <2>1, HeadTailAppend
  <2>3. Len(Tail(q)) < RingSize
    BY <1>1, <1>2, <1>8, <2>1, HeadTailProperties
  <2> QED
    BY <1>2, <1>4, <1>7, <1>9, <2>2, <2>3 DEF Channel!FifoNext, Channel!Put
<1>10. CASE arm # "taken"
  BY <1>1, <1>2, <1>4, <1>5, <1>7, <1>8, <1>10 DEF Channel!FifoNext, Channel!Put
<1> QED
  BY <1>9, <1>10

LEMMA TaskQueue ==
  ASSUME Inv, QueueInv, NEW t \in Task, Call(t) \/ Poll(t) \/ Step(t)
  PROVE  QueueInv' /\ [Channel!FifoNext]_Channel!fifoVars
<1>1. /\ head \in Counter /\ tail \in Counter
      /\ RingSize \in Nat
      /\ RingCount(head, tail) \in Nat
      /\ Index(head) \in SlotIndex /\ Index(tail) \in SlotIndex
      /\ slots \in [SlotIndex -> Stamped \cup {NoMsg}]
      /\ task \in [Task -> Stage]
      /\ msg \in [Task -> Stamped \cup {NoMsg}]
  BY Counters DEF Inv, TypeOK
<1>2. CASE Call(t)
  <2>1. PICK m \in Msg : msg' = [msg EXCEPT ![t] = [body |-> m, seq |-> tx_seq]]
    BY <1>2 DEF Call
  <2>2. [body |-> m, seq |-> tx_seq] \in Stamped
    BY DEF Inv, TypeOK, Stamped
  <2>3. UNCHANGED <<ringVars, arm, got>> /\ task' = [task EXCEPT ![t] = "test_full"]
    BY <1>2 DEF Call
  <2>4. QueueInv'
    BY <1>1, <2>1, <2>2, <2>3 DEF QueueInv, ringVars
  <2> QED
    BY <2>3, <2>4, RingStill
<1>3. CASE Poll(t)
  BY <1>1, <1>3, RingStill DEF Poll, QueueInv, ringVars
<1>4. CASE TestFull(t)
  BY <1>1, <1>4, RingStill DEF TestFull, Go, QueueInv, ringVars
<1>5. CASE Fill(t)
  <2>1. /\ Go(t, "fill", "publish")
        /\ RingCount(head, tail) < RingSize
        /\ slots' = [slots EXCEPT ![Index(head)] = msg[t]]
        /\ UNCHANGED <<head, tail, msg, arm, got>>
    BY <1>5 DEF Fill, Go, Inv, RingIsBounded
  <2>2. \A u \in Task : u # t => task'[u] = task[u] /\ task[u] \notin Polling
    BY <2>1, GoKeeps DEF Polling, Stage
  <2>3. Contents(head, tail, slots)' = Contents(head, tail, slots)
    <3> DEFINE S == Stamped \cup {NoMsg}
    <3>1. slots \in [SlotIndex -> S]
      BY <1>1
    <3> HIDE DEF S
    <3>2. Contents(head, tail, slots') = Contents(head, tail, slots)
      BY <1>1, <2>1, <3>1, ContentsKept
    <3> QED
      BY <2>1, <3>2
  <2>4. slots'[Index(head)] = msg[t]
    BY <1>1, <2>1
  <2>5. arm = "taken" => slots'[Index(tail)] = slots[Index(tail)]
    BY <1>1, <2>1, DifferentSlots DEF Inv, RingIsBounded
  <2>6. QueueInv'
    BY <2>1, <2>2, <2>3, <2>4, <2>5 DEF QueueInv, Polling, Go
  <2>7. UNCHANGED Channel!fifoVars
    BY <2>1, <2>3 DEF Channel!fifoVars
  <2> QED
    BY <2>6, <2>7
<1>6. CASE Publish(t)
  BY <1>6, PublishPuts
<1>7. CASE Doorbell(t)
  BY <1>1, <1>7, RingStill DEF Doorbell, Go, QueueInv, ringVars
<1> QED
  BY <1>2, <1>3, <1>4, <1>5, <1>6, <1>7 DEF Step

LEMMA ArmQueue ==
  ASSUME Inv, QueueInv, Arm
  PROVE  QueueInv' /\ [Channel!FifoNext]_Channel!fifoVars
<1> DEFINE q == Contents(head, tail, slots)
<1>1. /\ head \in Counter /\ tail \in Counter
      /\ RingCount(head, tail) \in Nat
      /\ q \in Seq(Stamped)
  BY Counters DEF QueueInv
<1>2. CASE ArmIrq \/ ArmSleep
  <2>1. UNCHANGED <<head, tail, slots, got, msg, task>>
        /\ arm # "taken" /\ arm' # "taken"
    BY <1>2 DEF ArmIrq, ArmSleep, ringVars
  <2>2. UNCHANGED Channel!fifoVars
    BY <2>1 DEF Channel!fifoVars
  <2> QED
    BY <2>1, <2>2 DEF QueueInv
<1>3. CASE ArmTake
  <2>1. RingCount(head, tail) > 0
    BY <1>1, <1>3 DEF ArmTake, RingEmpty
  <2>2. q # <<>> /\ Head(q) = slots[Index(tail)]
    BY <1>1, <2>1, ContentsFirst
  <2>3. /\ UNCHANGED <<head, tail, slots, msg, task>>
        /\ arm = "draining" /\ arm' = "taken"
        /\ got = NoMsg /\ got' = slots[Index(tail)]
    BY <1>3 DEF ArmTake, ringVars, QueueInv
  <2>4. Channel!Take
    BY <2>2, <2>3 DEF Channel!Take
  <2> QED
    BY <2>3, <2>4 DEF QueueInv, Channel!FifoNext
<1>4. CASE ArmConsume
  <2>1. RingCount(head, tail) > 0 /\ arm = "taken"
    BY <1>4 DEF ArmConsume, Inv, RingIsBounded
  <2>2. q # <<>> /\ got \in Stamped
    BY <1>1, <2>1, ContentsFirst DEF QueueInv
  <2>3. q' = Tail(q)
    BY <1>1, <1>4, <2>1, ContentsShrink DEF ArmConsume
  <2>4. q' \in Seq(Stamped)
    BY <1>1, <2>2, <2>3, HeadTailProperties
  <2>5. /\ UNCHANGED <<head, slots, msg, task>>
        /\ arm' = "draining" /\ got' = NoMsg
    BY <1>4 DEF ArmConsume
  <2>6. got # NoMsg
    BY <2>2, MsgAssumption
  <2>7. Channel!LetGo
    BY <2>1, <2>3, <2>5, <2>6 DEF Channel!LetGo
  <2> QED
    BY <2>4, <2>5, <2>7 DEF QueueInv, Channel!FifoNext
<1> QED
  BY <1>2, <1>3, <1>4 DEF Arm

(* Any number of tasks, the ring and the ARM are one FIFO of RingSize       *)
(* messages: no message is overwritten by another task's, lost, or read     *)
(* twice, and each call's goes in when its task advances head.              *)
THEOREM SendPathIsFifo == Spec => ImplementsFifo
<1>1. Spec => []Inv
  BY InitInv, NextInv, PTL DEF Spec
<1>2. Init => QueueInv /\ Channel!FifoInit
  BY InitQueue
<1>3. Inv /\ QueueInv /\ [Next]_sendVars =>
        QueueInv' /\ [Channel!FifoNext]_Channel!fifoVars
  <2> SUFFICES ASSUME Inv, QueueInv, [Next]_sendVars
               PROVE  QueueInv' /\ [Channel!FifoNext]_Channel!fifoVars
    OBVIOUS
  <2>1. CASE UNCHANGED sendVars
    BY <2>1, RingStill DEF sendVars, ringVars, QueueInv
  <2> QED
    BY <2>1, TaskQueue, ArmQueue DEF Next
<1> QED
  BY <1>1, <1>2, <1>3, PTL DEF Spec, ImplementsFifo, Channel!FifoSpec
=============================================================================
