------------------------------ MODULE MboxRecv ------------------------------
(***************************************************************************)
(* The ARM -> ColdFire direction of coldfire/src/hal/mbox.c.  Three parties *)
(* run at the same time on one ring in shared SRAM: the ARM producer, the   *)
(* task that polls mbox_recv, and the doorbell interrupt, which preempts    *)
(* that task between any two of its memory accesses.  One step is one       *)
(* access to a variable that another party writes; the C statements are     *)
(* taken in program order.                                                  *)
(***************************************************************************)
EXTENDS MboxRing

CONSTANTS
  Msg,          \* what the ARM may send
  NoMsg,        \* no message, or one being overwritten
  MaxRestarts   \* bound: how often the ARM resets the ColdFire

ASSUME MsgAssumption == NoMsg \notin Msg
ASSUME RestartAssumption == MaxRestarts \in Nat

VARIABLES
  head, tail, slots,  \* MBOX_ARM2CF, in shared SRAM
  arm,                \* where the producer stands
  sw_int,             \* CVIC INT#1 is pending
  wake,               \* s_mbox_rx_wake
  cf,                 \* where mbox_recv and the task that polls it stand
  buf,                \* mbox_recv_t.buf
  restarts            \* how often the ColdFire has been reset

ringVars == <<head, tail, slots>>
recvVars == <<head, tail, slots, arm, sw_int, wake, cf, buf, restarts>>

\* The producer's steps: it fills a slot, publishes it, rings the doorbell.
Producer == {"idle", "filling", "filled", "published"}

\* The accesses of mbox_recv, in order.
RecvSteps == {"unwake", "test_ring", "test_wake", "clear_wake", "recheck",
              "copy", "consume"}

\* "suspended": the await returned ASYNC_CONT.  "stopped": SDK_IDLE.  "received"
\* and "spurious": ASYNC_DONE at async_end and at async_exit.
Location == RecvSteps \cup {"suspended", "stopped", "received", "spurious"}

\* startup.S has zeroed .bss, which covers the counters.
Init ==
  /\ head = 0
  /\ tail = 0
  /\ slots = [i \in SlotIndex |-> NoMsg]
  /\ arm = "idle"
  /\ sw_int = FALSE               \* mbox_init: pre-clear
  /\ wake = FALSE
  /\ cf = "unwake"
  /\ buf = NoMsg
  /\ restarts = 0

-----------------------------------------------------------------------------
(* The ARM side is a separate project; the ring invariants at the head of   *)
(* mbox.c are what this side relies on.                                     *)

FillSlot ==
  /\ arm = "idle"
  /\ ~RingFull(head, tail)
  /\ arm' = "filling"
  /\ slots' = [slots EXCEPT ![Index(head)] = NoMsg]
  /\ UNCHANGED <<head, tail, sw_int, wake, cf, buf, restarts>>

FilledSlot ==
  /\ arm = "filling"
  /\ arm' = "filled"
  /\ \E m \in Msg : slots' = [slots EXCEPT ![Index(head)] = m]
  /\ UNCHANGED <<head, tail, sw_int, wake, cf, buf, restarts>>

Publish ==
  /\ arm = "filled"
  /\ arm' = "published"
  /\ head' = Advance(head)
  /\ UNCHANGED <<tail, slots, sw_int, wake, cf, buf, restarts>>

Doorbell ==
  /\ arm = "published"
  /\ arm' = "idle"
  /\ sw_int' = TRUE
  /\ UNCHANGED <<ringVars, wake, cf, buf, restarts>>

-----------------------------------------------------------------------------
\* An interrupt ends SDK_IDLE: sdk_run makes another pass and polls the task.
Awake(at) == IF at = "stopped" THEN "test_ring" ELSE at

MboxRxIsr ==
  /\ sw_int
  /\ sw_int' = FALSE
  /\ wake' = TRUE
  /\ cf' = Awake(cf)
  /\ UNCHANGED <<ringVars, arm, buf, restarts>>

\* The tick interrupt wakes the core, whatever it waits for.
Tick ==
  /\ cf = "stopped"
  /\ cf' = Awake(cf)
  /\ UNCHANGED <<ringVars, arm, sw_int, wake, buf, restarts>>

\* The pass over the tasks ends.  If no task completed in it the core stops,
\* even if the doorbell has just been served.
EndPass ==
  /\ cf = "suspended"
  /\ cf' \in {"stopped", "test_ring"}
  /\ UNCHANGED <<ringVars, arm, sw_int, wake, buf, restarts>>

-----------------------------------------------------------------------------
(* mbox_recv.                                                               *)

At(here, there) ==
  /\ cf = here
  /\ cf' = there
  /\ UNCHANGED <<arm, sw_int, restarts>>

Unwake ==
  /\ At("unwake", "test_ring")
  /\ wake' = FALSE
  /\ UNCHANGED <<ringVars, buf>>

\* Faulty variant: the await relies on the doorbell alone.
TestRingNever ==
  /\ At("test_ring", "test_wake")
  /\ UNCHANGED <<ringVars, wake, buf>>

\* await(!ring_empty(..) || ..)
TestRing ==
  /\ At("test_ring", IF RingEmpty(head, tail) THEN "test_wake" ELSE "clear_wake")
  /\ UNCHANGED <<ringVars, wake, buf>>

TestWake ==
  /\ At("test_wake", IF wake THEN "clear_wake" ELSE "suspended")
  /\ UNCHANGED <<ringVars, wake, buf>>

ClearWake ==
  /\ At("clear_wake", "recheck")
  /\ wake' = FALSE
  /\ UNCHANGED <<ringVars, buf>>

\* Faulty variant: the second look at the ring is left out.
RecheckNothing ==
  /\ At("recheck", "copy")
  /\ UNCHANGED <<ringVars, wake, buf>>

Recheck ==
  /\ At("recheck", IF RingEmpty(head, tail) THEN "spurious" ELSE "copy")
  /\ UNCHANGED <<ringVars, wake, buf>>

Copy ==
  /\ At("copy", "consume")
  /\ buf' = slots[Index(tail)]
  /\ UNCHANGED <<ringVars, wake>>

Consume ==
  /\ At("consume", "received")
  /\ tail' = Advance(tail)
  /\ UNCHANGED <<head, slots, wake, buf>>

\* The caller re-initialises the context and calls again.
Recall ==
  /\ \E done \in {"received", "spurious"} : At(done, "unwake")
  /\ UNCHANGED <<ringVars, wake, buf>>

\* The ARM resets the core, and writes nothing to the ring until startup is
\* over.  startup.S zeroes .bss, which the linker script places over the header
\* and the counters of this ring, and over as many slots as it is long; then
\* mbox_init runs.
Restart ==
  /\ restarts < MaxRestarts
  /\ arm \in {"idle", "published"}
  /\ restarts' = restarts + 1
  /\ head' = 0
  /\ tail' = 0
  /\ \E zeroed \in SUBSET SlotIndex :
       slots' = [i \in SlotIndex |-> IF i \in zeroed THEN NoMsg ELSE slots[i]]
  /\ cf' = "unwake"
  /\ wake' = FALSE
  /\ sw_int' = FALSE
  /\ buf' = NoMsg
  /\ UNCHANGED arm

-----------------------------------------------------------------------------
Arm == FillSlot \/ FilledSlot \/ Publish \/ Doorbell

Recv == Unwake \/ TestRing \/ TestWake \/ ClearWake \/ Recheck \/ Copy \/ Consume

ColdFire == Recv \/ Recall \/ EndPass \/ MboxRxIsr

Next == Arm \/ ColdFire \/ Tick \/ Restart

Spec == Init /\ [][Next]_recvVars

\* The core runs, the tick timer ticks.  Nothing makes the ARM send, or ring
\* the doorbell for what it has published.
FairSpec == Spec /\ WF_recvVars(ColdFire) /\ WF_recvVars(Tick)

-----------------------------------------------------------------------------
TypeOK ==
  /\ head \in Counter
  /\ tail \in Counter
  /\ slots \in [SlotIndex -> Msg \cup {NoMsg}]
  /\ arm \in Producer
  /\ sw_int \in BOOLEAN
  /\ wake \in BOOLEAN
  /\ cf \in Location
  /\ buf \in Msg \cup {NoMsg}
  /\ restarts \in 0..MaxRestarts

(* The counters never drift apart by more than the ring, wrap-around        *)
(* included: a producer and a consumer that each test the other's counter   *)
(* while it moves neither overfill the ring nor take from an empty one.     *)
RingIsBounded ==
  /\ RingCount(head, tail) <= RingSize
  /\ arm \in {"filling", "filled"} => RingCount(head, tail) < RingSize
  /\ cf \in {"copy", "consume"} => RingCount(head, tail) > 0

(* While mbox_recv copies a message out of its slot, the producer writes    *)
(* another slot: a 16-byte copy is never torn.                              *)
NoTornCopy ==
  cf = "copy" /\ arm \in {"filling", "filled"} => Index(head) # Index(tail)

(* One step of the receive path may not lose what the doorbell announced:   *)
(* whatever the interrupt and the clearing of the wake flag do to each      *)
(* other, a published message is taken out of the ring, even if its         *)
(* doorbell never rings, unless the core is reset, which wipes the ring.    *)
(* That holds after a reset as it did before.                               *)
MessageIsTaken ==
  \A n \in 0..MaxRestarts :
    (restarts = n /\ RingCount(head, tail) > 0) ~> (cf = "received" \/ restarts > n)

\* The ring as a queue, and what mbox_recv has handed to its caller.
Channel == INSTANCE Fifo
             WITH Capacity <- RingSize, Message <- Msg, NoMessage <- NoMsg,
                  queue <- Contents(head, tail, slots),
                  held <- IF cf = "received" THEN buf ELSE NoMsg,
                  resets <- restarts

(* mbox_recv and the producer together are a bounded FIFO: nothing is       *)
(* duplicated, reordered or read before it was published, and nothing is    *)
(* lost but what the ring and the caller hold when the core is reset.       *)
ImplementsFifo == Channel!FifoSpec
=============================================================================
