--------------------------- MODULE MboxRecvProofs ---------------------------
(***************************************************************************)
(* For every ring size and counter range: the receive path of mbox.c never  *)
(* overfills the ring, never takes from an empty one, never reads a slot    *)
(* that is being written, and implements a bounded FIFO.                    *)
(***************************************************************************)
EXTENDS MboxRecv, MboxRingProofs

-----------------------------------------------------------------------------
(* The steps one by one, as the proofs by cases take them.                  *)

LEMMA StepCases ==
  ASSUME Next
  PROVE  \/ FillSlot \/ FilledSlot \/ Publish \/ Doorbell
         \/ Unwake \/ TestRing \/ TestWake \/ ClearWake
         \/ Recheck \/ Copy \/ Consume
         \/ Recall \/ EndPass \/ MboxRxIsr \/ Tick \/ Restart
  BY DEF Next, Arm, ColdFire, Recv

(* What the receive path keeps.  RingIsBounded is part of it because a      *)
(* counter stays in its range whatever it does, but the distance of two of  *)
(* them grows by one only while it is not the largest there is.             *)
Inv == TypeOK /\ RingIsBounded

LEMMA InitInv ==
  ASSUME Init
  PROVE  Inv
<1>1. RingSize \in Nat \ {0} /\ CounterRange \in Nat
  BY RingFitsCounter
<1>2. TypeOK
  <2>1. restarts \in 0..MaxRestarts
    BY RestartAssumption DEF Init
  <2>2. slots \in [SlotIndex -> Msg \cup {NoMsg}]
    BY DEF Init
  <2>3. sw_int \in BOOLEAN /\ wake \in BOOLEAN
    BY DEF Init
  <2>4. head \in Counter /\ tail \in Counter
    BY RingFitsCounter DEF Init, Counter
  <2> QED
    BY <2>1, <2>2, <2>3, <2>4 DEF Init, TypeOK, Producer, Location, RecvSteps
<1>3. RingCount(head, tail) = 0
  BY DEF Init, RingCount
<1>4. RingIsBounded
  BY <1>1, <1>3 DEF Init, RingIsBounded
<1> QED
  BY <1>2, <1>4 DEF Inv

(* A step that moves neither counter keeps the ring's bounds if whoever it  *)
(* lets near a slot has made sure of the room, or of the message.           *)
LEMMA QuietStep ==
  ASSUME RingIsBounded, UNCHANGED <<head, tail>>,
         arm' \in {"filling", "filled"} =>
           arm \in {"filling", "filled"} \/ RingCount(head, tail) < RingSize,
         cf' \in {"copy", "consume"} =>
           cf \in {"copy", "consume"} \/ RingCount(head, tail) > 0
  PROVE  RingIsBounded'
  BY DEF RingIsBounded

LEMMA StepInv ==
  ASSUME Inv, [Next]_recvVars
  PROVE  Inv'
<1> USE DEF Inv
<1>1. /\ RingSize \in Nat \ {0}
      /\ CounterRange \in Nat
      /\ RingSize < CounterRange
      /\ MaxRestarts \in Nat
  BY RingFitsCounter, RestartAssumption
<1>2. head \in Counter /\ tail \in Counter
  BY DEF TypeOK
<1>3. RingCount(head, tail) \in Nat
  BY <1>2, CountType DEF Counter
<1>4. Index(head) \in SlotIndex /\ Index(tail) \in SlotIndex
  BY <1>1, <1>2, IndexType DEF Counter
<1>5. CASE FillSlot
  <2>1. TypeOK'
    BY <1>4, <1>5 DEF FillSlot, TypeOK, Producer
  <2>2. RingIsBounded'
    BY <1>1, <1>3, <1>5, QuietStep DEF FillSlot, RingFull
  <2> QED
    BY <2>1, <2>2
<1>6. CASE FilledSlot
  <2>1. TypeOK'
    BY <1>4, <1>6 DEF FilledSlot, TypeOK, Producer
  <2>2. RingIsBounded'
    BY <1>6, QuietStep DEF FilledSlot
  <2> QED
    BY <2>1, <2>2
<1>7. CASE Publish
  <2>1. RingCount(head, tail) < RingSize
    BY <1>7 DEF Publish, RingIsBounded
  <2>2. head' \in Counter /\ RingCount(head', tail) = RingCount(head, tail) + 1
    BY <1>1, <1>2, <1>3, <1>7, <2>1, HeadAdvances DEF Publish
  <2>3. TypeOK'
    BY <1>7, <2>2 DEF Publish, TypeOK, Producer
  <2>4. RingIsBounded'
    BY <1>1, <1>3, <1>7, <2>1, <2>2 DEF Publish, RingIsBounded
  <2> QED
    BY <2>3, <2>4
<1>8. CASE Doorbell
  <2>1. TypeOK'
    BY <1>8 DEF Doorbell, ringVars, TypeOK, Producer
  <2>2. RingIsBounded'
    BY <1>8, QuietStep DEF Doorbell, ringVars
  <2> QED
    BY <2>1, <2>2
<1>9. CASE Unwake
  <2>1. TypeOK'
    BY <1>9 DEF Unwake, At, ringVars, TypeOK, Location, RecvSteps
  <2>2. RingIsBounded'
    BY <1>9, QuietStep DEF Unwake, At, ringVars
  <2> QED
    BY <2>1, <2>2
<1>10. CASE TestRing
  <2>1. TypeOK'
    BY <1>10 DEF TestRing, At, ringVars, TypeOK, Location, RecvSteps
  <2>2. RingIsBounded'
    BY <1>10, QuietStep DEF TestRing, At, ringVars
  <2> QED
    BY <2>1, <2>2
<1>11. CASE TestWake
  <2>1. TypeOK'
    BY <1>11 DEF TestWake, At, ringVars, TypeOK, Location, RecvSteps
  <2>2. RingIsBounded'
    BY <1>11, QuietStep DEF TestWake, At, ringVars
  <2> QED
    BY <2>1, <2>2
<1>12. CASE ClearWake
  <2>1. TypeOK'
    BY <1>12 DEF ClearWake, At, ringVars, TypeOK, Location, RecvSteps
  <2>2. RingIsBounded'
    BY <1>12, QuietStep DEF ClearWake, At, ringVars
  <2> QED
    BY <2>1, <2>2
<1>13. CASE Recheck
  <2>1. TypeOK'
    BY <1>13 DEF Recheck, At, ringVars, TypeOK, Location, RecvSteps
  <2>2. RingIsBounded'
    BY <1>1, <1>3, <1>13, QuietStep DEF Recheck, At, RingEmpty, ringVars
  <2> QED
    BY <2>1, <2>2
<1>14. CASE Copy
  <2>1. TypeOK'
    BY <1>4, <1>14 DEF Copy, At, ringVars, TypeOK, Location, RecvSteps
  <2>2. RingIsBounded'
    BY <1>14, QuietStep DEF Copy, At, ringVars
  <2> QED
    BY <2>1, <2>2
<1>15. CASE Consume
  <2>1. RingCount(head, tail) > 0
    BY <1>15 DEF Consume, At, RingIsBounded
  <2>2. tail' \in Counter /\ RingCount(head, tail') = RingCount(head, tail) - 1
    BY <1>2, <1>15, <2>1, TailAdvances DEF Consume
  <2>3. TypeOK'
    BY <1>15, <2>2 DEF Consume, At, TypeOK, Location, RecvSteps
  <2>4. RingIsBounded'
    BY <1>1, <1>3, <1>15, <2>1, <2>2 DEF Consume, At, RingIsBounded
  <2> QED
    BY <2>3, <2>4
<1>16. CASE Recall
  <2>1. TypeOK'
    BY <1>16 DEF Recall, At, ringVars, TypeOK, Location, RecvSteps
  <2>2. RingIsBounded'
    BY <1>16, QuietStep DEF Recall, At, ringVars
  <2> QED
    BY <2>1, <2>2
<1>17. CASE EndPass
  <2>1. TypeOK'
    BY <1>17 DEF EndPass, ringVars, TypeOK, Location, RecvSteps
  <2>2. RingIsBounded'
    BY <1>17, QuietStep DEF EndPass, ringVars
  <2> QED
    BY <2>1, <2>2
<1>18. CASE MboxRxIsr
  <2>1. TypeOK'
    BY <1>18 DEF MboxRxIsr, Awake, ringVars, TypeOK, Location, RecvSteps
  <2>2. RingIsBounded'
    BY <1>18, QuietStep DEF MboxRxIsr, Awake, ringVars
  <2> QED
    BY <2>1, <2>2
<1>19. CASE Tick
  <2>1. TypeOK'
    BY <1>19 DEF Tick, Awake, ringVars, TypeOK, Location, RecvSteps
  <2>2. RingIsBounded'
    BY <1>19, QuietStep DEF Tick, Awake, ringVars
  <2> QED
    BY <2>1, <2>2
<1>20. CASE Restart
  <2>1. TypeOK'
    <3>1. restarts' \in 0..MaxRestarts
      BY <1>1, <1>20 DEF Restart, TypeOK
    <3>2. wake' \in BOOLEAN /\ sw_int' \in BOOLEAN
      BY <1>20 DEF Restart
    <3>3. head' \in Counter /\ tail' \in Counter
      BY <1>1, <1>20 DEF Restart, Counter
    <3>4. slots' \in [SlotIndex -> Msg \cup {NoMsg}]
      BY <1>20 DEF Restart, TypeOK
    <3> QED
      BY <1>20, <3>1, <3>2, <3>3, <3>4 DEF Restart, TypeOK, Location, RecvSteps
  <2>2. RingIsBounded'
    <3>1. RingCount(head', tail') = 0
      BY <1>20 DEF Restart, RingCount
    <3> QED
      BY <1>1, <1>20, <3>1 DEF Restart, RingIsBounded
  <2> QED
    BY <2>1, <2>2
<1>21. CASE UNCHANGED recvVars
  BY <1>21 DEF recvVars, TypeOK, RingIsBounded
<1> QED
  BY <1>5, <1>6, <1>7, <1>8, <1>9, <1>10, <1>11, <1>12, <1>13, <1>14, <1>15, <1>16, <1>17, <1>18, <1>19, <1>20, <1>21, StepCases

-----------------------------------------------------------------------------
(* For every ring size, counter range, message set and number of resets,    *)
(* every variable of the receive path stays in its type: in particular the  *)
(* counters of mbox_ring_t and the slots they select.                       *)
THEOREM TypeCorrect == Spec => []TypeOK
<1>1. Init => Inv
  BY InitInv
<1>2. Inv /\ [Next]_recvVars => Inv'
  BY StepInv
<1>3. Inv => TypeOK
  BY DEF Inv
<1> QED
  BY <1>1, <1>2, <1>3, PTL DEF Spec

(* However the ARM's steps, the polls of mbox_recv, its interrupt and the   *)
(* resets of the core interleave, the ring is never overfilled and never    *)
(* read when empty, wrap-around of the counters included.                   *)
THEOREM RingStaysBounded == Spec => []RingIsBounded
<1>1. Init => Inv
  BY InitInv
<1>2. Inv /\ [Next]_recvVars => Inv'
  BY StepInv
<1>3. Inv => RingIsBounded
  BY DEF Inv
<1> QED
  BY <1>1, <1>2, <1>3, PTL DEF Spec

(* mbox_recv never copies the slot the ARM is writing, for every ring size  *)
(* that divides the range of the counters.                                  *)
THEOREM CopiesAreWhole == Spec => []NoTornCopy
<1>1. TypeOK /\ RingIsBounded => NoTornCopy
  BY DifferentSlots DEF TypeOK, RingIsBounded, NoTornCopy
<1> QED
  BY <1>1, TypeCorrect, RingStaysBounded, PTL

-----------------------------------------------------------------------------
(* The ring as a queue.                                                     *)

\* What a message is at each step of its way: whole in its slot before head
\* is advanced, and in the caller's hands what it was in the ring.
QueueInv ==
  /\ Contents(head, tail, slots) \in Seq(Msg)
  /\ arm = "filled" => slots[Index(head)] \in Msg
  /\ cf = "consume" => buf = slots[Index(tail)]
  /\ cf = "received" => buf \in Msg

QueueIsStill == UNCHANGED <<Contents(head, tail, slots),
                            IF cf = "received" THEN buf ELSE NoMsg, restarts>>

LEMMA InitQueue == Init => QueueInv /\ Channel!FifoInit
<1> SUFFICES ASSUME Init PROVE QueueInv /\ Channel!FifoInit
  OBVIOUS
<1>1. 0 \in Counter
  BY RingFitsCounter DEF Counter
<1>2. Contents(0, 0, slots) = <<>>
  BY <1>1, ContentsOfEmpty
<1>3. Contents(head, tail, slots) = <<>>
  BY <1>2 DEF Init
<1>4. Contents(head, tail, slots) \in Seq(Msg)
  BY <1>3
<1>5. arm = "idle" /\ cf = "unwake" /\ restarts = 0
  BY DEF Init
<1>6. QueueInv
  BY <1>4, <1>5 DEF QueueInv
<1>7. Channel!FifoInit
  BY <1>3, <1>5 DEF Channel!FifoInit
<1> QED
  BY <1>6, <1>7

(* The producer's writes do not touch what lies in the ring.                *)
LEMMA WritesKeepQueue ==
  ASSUME Inv, QueueInv, NEW m, RingCount(head, tail) < RingSize,
         slots' = [slots EXCEPT ![Index(head)] = m],
         UNCHANGED <<head, tail, cf, buf, restarts>>
  PROVE  /\ QueueIsStill
         /\ Contents(head, tail, slots)' \in Seq(Msg)
         /\ slots'[Index(head)] = m
         /\ cf' = "consume" => buf' = slots'[Index(tail)]
<1>1. /\ head \in Counter /\ tail \in Counter
      /\ slots \in [SlotIndex -> Msg \cup {NoMsg}]
  BY DEF Inv, TypeOK
<1>2. Index(head) \in SlotIndex /\ Index(tail) \in SlotIndex
  BY <1>1, RingFitsCounter, IndexType DEF Counter
<1>3. Contents(head, tail, slots)' = Contents(head, tail, slots)
  <2> DEFINE S == Msg \cup {NoMsg}
  <2>1. slots \in [SlotIndex -> S]
    BY <1>1
  <2> HIDE DEF S
  <2>2. Contents(head, tail, slots') = Contents(head, tail, slots)
    BY <1>1, <2>1, ContentsKept
  <2> QED
    BY <2>2
<1>4. cf = "consume" => Index(head) # Index(tail)
  BY <1>1, DifferentSlots DEF Inv, RingIsBounded
<1> QED
  BY <1>1, <1>2, <1>3, <1>4 DEF QueueInv, QueueIsStill

(* Every step of the receive path is a step of the FIFO, or none.           *)
LEMMA StepQueue ==
  ASSUME Inv, QueueInv, [Next]_recvVars
  PROVE  QueueInv' /\ [Channel!FifoNext]_Channel!fifoVars
<1>1. /\ head \in Counter /\ tail \in Counter
      /\ slots \in [SlotIndex -> Msg \cup {NoMsg}]
      /\ RingSize \in Nat
      /\ RingCount(head, tail) \in Nat
  BY RingFitsCounter, CountType DEF Inv, TypeOK, Counter
<1>2. QueueIsStill => [Channel!FifoNext]_Channel!fifoVars
  BY DEF QueueIsStill, Channel!fifoVars
<1>3. CASE FillSlot
  <2>1. RingCount(head, tail) < RingSize
    BY <1>1, <1>3 DEF FillSlot, RingFull
  <2>2. slots' = [slots EXCEPT ![Index(head)] = NoMsg]
        /\ UNCHANGED <<head, tail, cf, buf, restarts>> /\ arm' = "filling"
    BY <1>3 DEF FillSlot
  <2> QED
    BY <1>2, <2>1, <2>2, WritesKeepQueue DEF QueueInv
<1>4. CASE FilledSlot
  <2>1. PICK m \in Msg : slots' = [slots EXCEPT ![Index(head)] = m]
    BY <1>4 DEF FilledSlot
  <2>2. RingCount(head, tail) < RingSize
    BY <1>4 DEF FilledSlot, Inv, RingIsBounded
  <2> QED
    BY <1>2, <1>4, <2>1, <2>2, WritesKeepQueue DEF FilledSlot, QueueInv
<1>5. CASE Publish
  <2>1. RingCount(head, tail) < RingSize /\ slots[Index(head)] \in Msg
    BY <1>5 DEF Publish, Inv, RingIsBounded, QueueInv
  <2>2. Contents(head, tail, slots)'
          = Append(Contents(head, tail, slots), slots[Index(head)])
    BY <1>1, <1>5, <2>1, ContentsGrow DEF Publish, QueueInv
  <2>3. Contents(head, tail, slots)' \in Seq(Msg)
    BY <2>1, <2>2, AppendProperties DEF QueueInv
  <2>4. Len(Contents(head, tail, slots)) < RingSize
    BY <1>1, <2>1, ContentsLength DEF QueueInv
  <2>5. Channel!Put
    BY <1>5, <2>1, <2>2, <2>4 DEF Publish, Channel!Put
  <2> QED
    BY <1>5, <2>3, <2>5 DEF Publish, QueueInv, Channel!FifoNext
<1>6. CASE Consume
  <2>1. cf = "consume" /\ RingCount(head, tail) > 0 /\ cf' = "received"
    BY <1>6 DEF Consume, At, Inv, RingIsBounded
  <2>2. /\ Contents(head, tail, slots) # <<>>
        /\ Head(Contents(head, tail, slots)) = buf
        /\ buf \in Msg
    BY <1>1, <2>1, ContentsFirst DEF QueueInv
  <2>3. Contents(head, tail, slots)' = Tail(Contents(head, tail, slots))
    BY <1>1, <1>6, <2>1, ContentsShrink DEF Consume, QueueInv
  <2>4. Contents(head, tail, slots)' \in Seq(Msg)
    BY <2>2, <2>3, HeadTailProperties DEF QueueInv
  <2>5. Channel!Take
    BY <1>6, <2>1, <2>2, <2>3 DEF Consume, At, Channel!Take
  <2> QED
    BY <1>6, <2>1, <2>2, <2>4, <2>5
    DEF Consume, At, QueueInv, Channel!FifoNext
<1>7. CASE Recall
  <2>1. /\ UNCHANGED <<Contents(head, tail, slots), ringVars, arm, restarts>>
        /\ cf' = "unwake"
    BY <1>7 DEF Recall, At, ringVars
  <2>2. CASE cf = "received"
    <3>1. buf # NoMsg
      BY <2>2, MsgAssumption DEF QueueInv
    <3> QED
      BY <2>1, <2>2, <3>1
      DEF ringVars, QueueInv, Channel!LetGo, Channel!FifoNext
  <2>3. CASE cf # "received"
    BY <1>2, <2>1, <2>3 DEF ringVars, QueueInv, QueueIsStill
  <2> QED
    BY <2>2, <2>3
<1>8. CASE Copy
  BY <1>2, <1>8 DEF Copy, At, ringVars, QueueInv, QueueIsStill
<1>9. CASE \/ Doorbell \/ Unwake \/ TestRing \/ TestWake \/ ClearWake \/ Recheck
           \/ EndPass \/ MboxRxIsr \/ Tick \/ UNCHANGED recvVars
  <2>1. /\ UNCHANGED <<ringVars, buf, restarts>>
        /\ cf' = "received" <=> cf = "received"
        /\ cf' = "consume" => cf = "consume"
        /\ arm' = "filled" => arm = "filled"
    BY <1>9 DEF Doorbell, Unwake, TestRing, TestWake, ClearWake, Recheck, EndPass,
                MboxRxIsr, Tick, At, Awake, ringVars, recvVars
  <2> QED
    BY <1>2, <2>1 DEF ringVars, QueueInv, QueueIsStill
<1>10. CASE Restart
  <2>1. Contents(head, tail, slots)' = <<>>
    <3>1. 0 \in Counter
      BY RingFitsCounter DEF Counter
    <3>2. Contents(0, 0, slots') = <<>>
      BY <3>1, ContentsOfEmpty
    <3> QED
      BY <1>10, <3>2 DEF Restart
  <2>2. Channel!Reset
    BY <1>10, <2>1 DEF Restart, Channel!Reset
  <2>3. Contents(head, tail, slots)' \in Seq(Msg)
    BY <2>1
  <2>4. QueueInv'
    <3>1. arm' # "filled" /\ cf' = "unwake"
      BY <1>10 DEF Restart
    <3> QED
      BY <2>3, <3>1 DEF QueueInv
  <2> QED
    BY <2>2, <2>4 DEF Channel!FifoNext
<1> QED
  BY <1>3, <1>4, <1>5, <1>6, <1>7, <1>8, <1>9, <1>10, StepCases

(* The producer, the ring, the interrupt and mbox_recv together are a FIFO  *)
(* of RingSize messages, whatever the ring size and the number of resets:   *)
(* nothing is doubled, reordered or torn, before a reset of the core and    *)
(* after it, and nothing lost but what lies in the ring at a reset.         *)
THEOREM ReceivePathIsFifo == Spec => ImplementsFifo
<1>1. Spec => []Inv
  BY InitInv, StepInv, PTL DEF Spec
<1>2. Init => QueueInv /\ Channel!FifoInit
  BY InitQueue
<1>3. Inv /\ QueueInv /\ [Next]_recvVars =>
        QueueInv' /\ [Channel!FifoNext]_Channel!fifoVars
  BY StepQueue
<1> QED
  BY <1>1, <1>2, <1>3, PTL DEF Spec, ImplementsFifo, Channel!FifoSpec
=============================================================================
