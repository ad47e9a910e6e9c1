------------------------------ MODULE MboxRing ------------------------------
(***************************************************************************)
(* The ring arithmetic of app-coprocessor/coldfire/src/hal/mbox.c: head and *)
(* tail are free-running unsigned counters, a slot is a counter modulo the  *)
(* number of slots.  uint32_t subtraction and increment are written without *)
(* %, for counters in 0 .. CounterRange - 1.                                *)
(***************************************************************************)
EXTENDS Naturals, Sequences

CONSTANTS
  RingSize,     \* SDK_MBOX_RING_SIZE (16 in the source)
  CounterRange  \* how many values a counter has (2^32 in the source)

\* SDK_MBOX_RING_SIZE is a power of two, so it divides 2^32 and is smaller.
ASSUME RingAssumption ==
  /\ RingSize \in Nat \ {0}
  /\ CounterRange \in Nat
  /\ \E k \in 2..CounterRange : CounterRange = k * RingSize

Counter == 0..(CounterRange - 1)
SlotIndex == 0..(RingSize - 1)

\* Faulty variant: signed, not unsigned, subtraction.
RingCountSaturating(h, t) == IF h >= t THEN h - t ELSE 0

RingCount(h, t) == IF h >= t THEN h - t ELSE (h + CounterRange) - t

\* Faulty variant: full only once a slot too many has been filled.
RingFullTooLate(h, t) == RingCount(h, t) > RingSize

RingFull(h, t) == RingCount(h, t) >= RingSize

RingEmpty(h, t) == RingCount(h, t) = 0

Index(c) == c % RingSize

\* Faulty variant: the counter outgrows its register.
AdvanceUnwrapped(c) == c + 1

Advance(c) == IF c = CounterRange - 1 THEN 0 ELSE c + 1

\* What the ring holds, oldest first.
Contents(h, t, slots) ==
  [i \in 1..RingCount(h, t) |-> slots[Index(t + i - 1)]]
=============================================================================
