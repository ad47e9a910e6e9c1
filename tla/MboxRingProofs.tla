--------------------------- MODULE MboxRingProofs ---------------------------
(***************************************************************************)
(* The ring arithmetic of mbox.c for every ring size and counter range: how *)
(* counters, slots and what lies in the ring go together, wrap-around       *)
(* included.  Both directions of the mailbox rest on these lemmas.          *)
(***************************************************************************)
EXTENDS MboxRing, Integers, SequenceTheorems, TLAPS

-----------------------------------------------------------------------------
(* Counters.                                                                *)

(* A counter tells a full ring from an empty one.                           *)
LEMMA RingFitsCounter ==
  /\ RingSize \in Nat \ {0}
  /\ CounterRange \in Nat
  /\ RingSize < CounterRange
<1>1. PICK k \in 2..CounterRange : CounterRange = k * RingSize
  BY RingAssumption
<1>2. k * RingSize >= 2 * RingSize
  BY <1>1, RingAssumption
<1> QED
  BY <1>1, <1>2, RingAssumption

(* The distance of two counters is a natural number below their range.      *)
LEMMA CountType ==
  ASSUME NEW h \in Counter, NEW t \in Counter
  PROVE  RingCount(h, t) \in Counter
  BY RingFitsCounter DEF Counter, RingCount

(* The producer's advance makes the distance one larger, wrap-around        *)
(* included, unless it is as large as it can be.                            *)
LEMMA HeadAdvances ==
  ASSUME NEW h \in Counter, NEW t \in Counter,
         RingCount(h, t) < CounterRange - 1
  PROVE  /\ Advance(h) \in Counter
         /\ RingCount(Advance(h), t) = RingCount(h, t) + 1
  BY RingFitsCounter DEF Counter, RingCount, Advance

(* The consumer's advance makes a distance that is not 0 one smaller.       *)
LEMMA TailAdvances ==
  ASSUME NEW h \in Counter, NEW t \in Counter, RingCount(h, t) > 0
  PROVE  /\ Advance(t) \in Counter
         /\ RingCount(h, Advance(t)) = RingCount(h, t) - 1
  BY RingFitsCounter DEF Counter, RingCount, Advance

-----------------------------------------------------------------------------
(* Slots.                                                                   *)

(* A slot's index is in the ring, for counters and for numbers past them.   *)
LEMMA IndexType ==
  ASSUME NEW c \in Nat
  PROVE  Index(c) \in SlotIndex
  BY RingFitsCounter DEF Index, SlotIndex

(* Division with remainder, as the slots of two counters are compared.      *)
LEMMA IndexDivides ==
  ASSUME NEW c \in Nat
  PROVE  \E q \in Nat : c = q * RingSize + Index(c)
<1>1. RingSize \in Nat \ {0}
  BY RingFitsCounter
<1>2. c = (c \div RingSize) * RingSize + (c % RingSize)
  BY <1>1
<1>3. c \div RingSize \in Nat
  BY <1>1
<1> QED
  BY <1>2, <1>3 DEF Index

(* A multiple of the ring size that is not 0 is no smaller than it.         *)
LEMMA NoMultipleBetween ==
  ASSUME NEW n \in Int, n * RingSize > 0
  PROVE  n * RingSize >= RingSize
<1>1. RingSize \in Nat \ {0}
  BY RingFitsCounter
<1>2. n >= 1
  <2>1. CASE n <= 0
    BY <1>1, <2>1
  <2> QED
    BY <2>1
<1> QED
  BY <1>1, <1>2

(* Numbers less than a ring apart have different slots.                     *)
LEMMA DifferentIndices ==
  ASSUME NEW a \in Nat, NEW b \in Nat, a < b, b < a + RingSize
  PROVE  Index(a) # Index(b)
<1> SUFFICES ASSUME Index(a) = Index(b) PROVE FALSE
  OBVIOUS
<1>1. RingSize \in Nat /\ Index(a) \in Nat
  BY RingFitsCounter, IndexType DEF SlotIndex
<1>2. PICK p \in Nat : a = p * RingSize + Index(a)
  BY IndexDivides
<1>3. PICK q \in Nat : b = q * RingSize + Index(a)
  BY IndexDivides
<1>4. b - a = (q - p) * RingSize
  BY <1>1, <1>2, <1>3
<1> QED
  BY <1>1, <1>4, NoMultipleBetween

(* The slots repeat when the counters wrap around, because the ring size    *)
(* divides their range.                                                     *)
LEMMA IndexWraps ==
  ASSUME NEW n \in Nat
  PROVE  Index(n + CounterRange) = Index(n)
<1>1. PICK k \in 2..CounterRange : CounterRange = k * RingSize
  BY RingAssumption
<1>2. /\ RingSize \in Nat \ {0}
      /\ CounterRange \in Nat
      /\ n + CounterRange \in Nat
      /\ k \in Nat
  BY RingFitsCounter
<1>3. /\ Index(n) \in SlotIndex
      /\ Index(n + CounterRange) \in SlotIndex
  BY <1>2, IndexType
<1>4. PICK p \in Nat : n = p * RingSize + Index(n)
  BY IndexDivides
<1>5. PICK q \in Nat :
        n + CounterRange = q * RingSize + Index(n + CounterRange)
  BY <1>2, IndexDivides
<1> DEFINE r == Index(n)
           s == Index(n + CounterRange)
           d == q - p - k
<1>6. r \in Int /\ s \in Int /\ d \in Int
  BY <1>2, <1>3 DEF SlotIndex
<1>7. r - s = d * RingSize
  <2>1. (q - p - k) * RingSize = q * RingSize - p * RingSize - k * RingSize
    BY <1>2
  <2>2. /\ p * RingSize \in Int
        /\ q * RingSize \in Int
        /\ k * RingSize \in Int
    BY <1>2
  <2>3. n = p * RingSize + r /\ n + k * RingSize = q * RingSize + s
    BY <1>1, <1>4, <1>5
  <2> HIDE DEF r, s
  <2> QED
    BY <1>2, <1>6, <2>1, <2>2, <2>3
<1>8. r - s < RingSize /\ s - r < RingSize
  BY <1>2, <1>3 DEF SlotIndex
<1>9. ~(d * RingSize > 0)
  BY <1>2, <1>6, <1>7, <1>8, NoMultipleBetween
<1>10. ~((-d) * RingSize > 0)
  <2>1. (-d) * RingSize = s - r
    BY <1>2, <1>6, <1>7
  <2> HIDE DEF r, s, d
  <2> QED
    BY <1>2, <1>6, <1>8, <2>1, NoMultipleBetween
<1>11. d * RingSize = 0
  <2> HIDE DEF r, s, d
  <2> QED
    BY <1>2, <1>6, <1>9, <1>10
<1> QED
  BY <1>6, <1>7, <1>11

(* The producer's slot is as many slots after the consumer's as messages    *)
(* lie in the ring.                                                         *)
LEMMA HeadFromTail ==
  ASSUME NEW h \in Counter, NEW t \in Counter
  PROVE  Index(t + RingCount(h, t)) = Index(h)
<1>1. h \in Nat /\ t \in Nat /\ CounterRange \in Nat
  BY RingFitsCounter DEF Counter
<1>2. CASE h >= t
  BY <1>1, <1>2 DEF RingCount
<1>3. CASE ~(h >= t)
  <2>1. t + RingCount(h, t) = h + CounterRange
    BY <1>1, <1>3 DEF RingCount
  <2> QED
    BY <1>1, <2>1, IndexWraps
<1> QED
  BY <1>2, <1>3

(* In a ring that is neither empty nor full the producer's slot is not the  *)
(* consumer's.                                                              *)
LEMMA DifferentSlots ==
  ASSUME NEW h \in Counter, NEW t \in Counter,
         RingCount(h, t) > 0, RingCount(h, t) < RingSize
  PROVE  Index(h) # Index(t)
<1>1. t \in Nat /\ RingCount(h, t) \in Nat /\ RingSize \in Nat
  BY RingFitsCounter, CountType DEF Counter
<1>2. Index(t) # Index(t + RingCount(h, t))
  BY <1>1, DifferentIndices
<1> QED
  BY <1>2, HeadFromTail

(* The slots after an advanced counter are the slots after the counter, one *)
(* later.                                                                   *)
LEMMA AdvanceShifts ==
  ASSUME NEW t \in Counter, NEW i \in Nat
  PROVE  Index(Advance(t) + i) = Index(t + 1 + i)
<1>1. t \in Nat /\ CounterRange \in Nat
  BY RingFitsCounter DEF Counter
<1>2. CASE t = CounterRange - 1
  <2>1. Advance(t) + i = i /\ t + 1 + i = i + CounterRange
    BY <1>1, <1>2 DEF Advance
  <2> QED
    BY <2>1, IndexWraps
<1>3. CASE t # CounterRange - 1
  BY <1>1, <1>3 DEF Advance
<1> QED
  BY <1>2, <1>3

-----------------------------------------------------------------------------
(* What lies in the ring.                                                   *)

(* The contents are as long as the counters are apart.                      *)
LEMMA ContentsLength ==
  ASSUME NEW h \in Counter, NEW t \in Counter, NEW slots, NEW S,
         Contents(h, t, slots) \in Seq(S)
  PROVE  /\ Len(Contents(h, t, slots)) = RingCount(h, t)
         /\ \A i \in 1..RingCount(h, t) :
              Contents(h, t, slots)[i] = slots[Index(t + i - 1)]
<1>1. RingCount(h, t) \in Nat
  BY RingFitsCounter, CountType DEF Counter
<1>2. DOMAIN Contents(h, t, slots) = 1..RingCount(h, t)
  BY DEF Contents
<1>3. /\ DOMAIN Contents(h, t, slots) = 1..Len(Contents(h, t, slots))
      /\ Len(Contents(h, t, slots)) \in Nat
  BY LenProperties
<1> QED
  BY <1>1, <1>2, <1>3 DEF Contents

(* An empty ring has no contents.                                           *)
LEMMA ContentsOfEmpty ==
  ASSUME NEW t \in Counter, NEW slots
  PROVE  RingCount(t, t) = 0 /\ Contents(t, t, slots) = <<>>
<1>1. RingCount(t, t) = 0
  BY RingFitsCounter DEF Counter, RingCount
<1> QED
  BY <1>1 DEF Contents

(* The oldest message lies in the consumer's slot.                          *)
LEMMA ContentsFirst ==
  ASSUME NEW h \in Counter, NEW t \in Counter, NEW slots, NEW S,
         Contents(h, t, slots) \in Seq(S), RingCount(h, t) > 0
  PROVE  /\ Contents(h, t, slots) # <<>>
         /\ Head(Contents(h, t, slots)) = slots[Index(t)]
         /\ slots[Index(t)] \in S
<1>1. RingCount(h, t) \in Nat /\ t \in Nat
  BY RingFitsCounter, CountType DEF Counter
<1>2. /\ Len(Contents(h, t, slots)) = RingCount(h, t)
      /\ Contents(h, t, slots)[1] = slots[Index(t + 1 - 1)]
  BY <1>1, ContentsLength
<1>3. t + 1 - 1 = t
  BY <1>1
<1>4. Contents(h, t, slots) # <<>>
  BY <1>1, <1>2, EmptySeq
<1>5. Contents(h, t, slots)[1] \in S
  BY <1>1, <1>2, ElementOfSeq
<1> QED
  BY <1>2, <1>3, <1>4, <1>5

(* The producer's slot is not part of the contents: whatever is written to  *)
(* it while the ring has room, the contents stay.                           *)
LEMMA ContentsKept ==
  ASSUME NEW h \in Counter, NEW t \in Counter, NEW S,
         NEW slots \in [SlotIndex -> S], NEW written, NEW m,
         written = [slots EXCEPT ![Index(h)] = m], RingCount(h, t) < RingSize
  PROVE  Contents(h, t, written) = Contents(h, t, slots)
<1>1. RingCount(h, t) \in Nat /\ t \in Nat /\ RingSize \in Nat
  BY RingFitsCounter, CountType DEF Counter
<1>2. ASSUME NEW i \in 1..RingCount(h, t)
      PROVE  /\ Index(t + i - 1) # Index(h)
             /\ Index(t + i - 1) \in SlotIndex
  <2>1. t + i - 1 \in Nat /\ t + RingCount(h, t) \in Nat
    BY <1>1
  <2>2. Index(t + i - 1) # Index(t + RingCount(h, t))
    BY <1>1, <2>1, DifferentIndices
  <2> QED
    BY <2>1, <2>2, HeadFromTail, IndexType
<1> QED
  BY <1>2 DEF Contents

(* The producer's advance puts what its slot holds at the end.              *)
LEMMA ContentsGrow ==
  ASSUME NEW h \in Counter, NEW t \in Counter, NEW slots, NEW S,
         Contents(h, t, slots) \in Seq(S), RingCount(h, t) < RingSize,
         slots[Index(h)] \in S
  PROVE  Contents(Advance(h), t, slots)
           = Append(Contents(h, t, slots), slots[Index(h)])
<1> DEFINE n == RingCount(h, t)
           old == Contents(h, t, slots)
           new == Contents(Advance(h), t, slots)
           longer == Append(old, slots[Index(h)])
<1>1. n \in Nat /\ t \in Nat /\ RingSize < CounterRange /\ CounterRange \in Nat
      /\ RingSize \in Nat
  BY RingFitsCounter, CountType DEF Counter
<1>2. RingCount(Advance(h), t) = n + 1
  BY <1>1, HeadAdvances
<1>3. Len(old) = n /\ \A i \in 1..n : old[i] = slots[Index(t + i - 1)]
  BY ContentsLength
<1>4. /\ longer \in Seq(S)
      /\ Len(longer) = n + 1
      /\ \A i \in 1..n : longer[i] = old[i]
      /\ longer[n + 1] = slots[Index(h)]
  BY <1>3, AppendProperties
<1>5. new = [i \in 1..(n + 1) |-> slots[Index(t + i - 1)]]
  BY <1>2 DEF Contents
<1>6. ASSUME NEW i \in 1..(n + 1)
      PROVE  longer[i] = slots[Index(t + i - 1)]
  <2>1. CASE i \in 1..n
    BY <1>3, <1>4, <2>1
  <2>2. CASE i = n + 1
    <3>1. t + i - 1 = t + n
      BY <1>1, <2>2
    <3> QED
      BY <1>4, <2>2, <3>1, HeadFromTail
  <2>3. i \in 1..n \/ i = n + 1
    BY <1>1
  <2> QED
    BY <2>1, <2>2, <2>3
<1>7. longer = [i \in 1..(n + 1) |-> longer[i]]
  BY <1>4, LenProperties
<1> QED
  BY <1>5, <1>6, <1>7

(* The consumer's advance takes the oldest message away.                    *)
LEMMA ContentsShrink ==
  ASSUME NEW h \in Counter, NEW t \in Counter, NEW slots, NEW S,
         Contents(h, t, slots) \in Seq(S), RingCount(h, t) > 0
  PROVE  Contents(h, Advance(t), slots) = Tail(Contents(h, t, slots))
<1> DEFINE n == RingCount(h, t)
           old == Contents(h, t, slots)
           new == Contents(h, Advance(t), slots)
<1>1. n \in Nat \ {0} /\ t \in Nat /\ Advance(t) \in Nat
  BY RingFitsCounter, CountType, TailAdvances DEF Counter
<1>2. RingCount(h, Advance(t)) = n - 1
  BY TailAdvances
<1>3. Len(old) = n /\ \A i \in 1..n : old[i] = slots[Index(t + i - 1)]
  BY ContentsLength
<1>4. old # <<>>
  BY ContentsFirst
<1>5. /\ Tail(old) \in Seq(S)
      /\ Len(Tail(old)) = n - 1
      /\ \A i \in 1..(n - 1) : Tail(old)[i] = old[i + 1]
  BY <1>3, <1>4, HeadTailProperties
<1>6. new = [i \in 1..(n - 1) |-> slots[Index(Advance(t) + i - 1)]]
  BY <1>2 DEF Contents
<1>7. ASSUME NEW i \in 1..(n - 1)
      PROVE  Tail(old)[i] = slots[Index(Advance(t) + i - 1)]
  <2>1. i - 1 \in Nat /\ i + 1 \in 1..n
    BY <1>1
  <2>2. /\ Advance(t) + i - 1 = Advance(t) + (i - 1)
        /\ t + (i + 1) - 1 = t + 1 + (i - 1)
    BY <1>1
  <2>3. Index(Advance(t) + (i - 1)) = Index(t + 1 + (i - 1))
    BY <2>1, AdvanceShifts
  <2> QED
    BY <1>3, <1>5, <2>1, <2>2, <2>3
<1>8. Tail(old) = [i \in 1..(n - 1) |-> Tail(old)[i]]
  BY <1>5, LenProperties
<1> QED
  BY <1>6, <1>7, <1>8
=============================================================================
