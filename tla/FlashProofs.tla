---------------------------- MODULE FlashProofs ----------------------------
(***************************************************************************)
(* What guards flash.  What the validators of flash/mod.rs and              *)
(* manifest/mod.rs promise their callers, for every word size and every     *)
(* number of regions: two regions of a valid layout or manifest share no    *)
(* byte, so the first region that find meets is the only one; the filter of *)
(* a manifest lets no command change a byte of a read-only region that its  *)
(* table reaches; the queue of verification requests gives back what it was *)
(* given, in order.  Last, what they, the verifier and the order of the     *)
(* release do together: verified images stay intact while the target runs,  *)
(* and what the provisioning of the device adds to them.                    *)
(***************************************************************************)
EXTENDS FlashLayout, ProtectedFlash, Provision, WellFoundedInduction, TLAPS

\* Regions: functions on a segment of Nat to ranges, whatever else they hold.
Regions(rs) ==
  /\ DOMAIN rs \subseteq Nat
  /\ \A k \in DOMAIN rs : rs[k].offset \in Nat /\ rs[k].size \in Nat

Within(a, x) == x.offset <= a /\ a < End(x)

Disjoint(rs) ==
  \A j, k \in DOMAIN rs : j < k => ~Overlapping(rs[j], rs[k])

\* The test of the validators leaves no byte to two regions.
LEMMA NoSharedByte ==
  ASSUME NEW rs, Regions(rs), Disjoint(rs),
         NEW j \in DOMAIN rs, NEW k \in DOMAIN rs, NEW a \in Nat,
         Within(a, rs[j]), Within(a, rs[k])
  PROVE  j = k
  <1>1. j \in Nat /\ k \in Nat
    BY DEF Regions
  <1>2. ~(j < k) /\ ~(k < j)
    BY DEF Regions, Disjoint, Overlapping, Within, End
  <1> QED  BY <1>1, <1>2

\* find on the indices of one region returns it.
LEMMA FirstOfOne ==
  ASSUME NEW S, S \subseteq Nat, NEW k \in S, \A j \in S : j = k
  PROVE  FirstOf(S) = k
  <1>1. \A j \in S : k <= j
    OBVIOUS
  <1>2. \A i \in S : (\A j \in S : i <= j) => i = k
    OBVIOUS
  <1>3. (CHOOSE i \in S : \A j \in S : i <= j) = k
    BY <1>1, <1>2
  <1> QED  BY <1>3 DEF FirstOf

\* In a layout that Layout::validate accepts, find_containing has no choice to
\* make: it returns every region that contains a range of at least one byte.
THEOREM FindIsUnambiguous ==
  ASSUME NEW layout, Regions(layout), ValidateLayout(layout),
         NEW offset \in Nat, NEW len \in Nat \ {0},
         NEW k \in DOMAIN layout, Contains(layout[k], offset, len)
  PROVE  FindContaining(layout, offset, len) = k
  <1> DEFINE S == {j \in DOMAIN layout : Contains(layout[j], offset, len)}
  <1>1. Disjoint(layout)
    BY DEF ValidateLayout, Disjoint
  <1>2. ASSUME NEW j \in S PROVE j = k
    <2>1. Within(offset, layout[j]) /\ Within(offset, layout[k])
      BY DEF Regions, Contains, Within, End
    <2> QED  BY <2>1, <1>1, NoSharedByte
  <1>3. S \subseteq Nat /\ k \in S
    BY DEF Regions
  <1> HIDE DEF S
  <1>4. FirstOf(S) = k
    BY <1>2, <1>3, FirstOfOne
  <1> QED  BY <1>4 DEF S, FindContaining

\* validate_manifest accepts only manifests whose images each lie in exactly one
\* protected region: the permissions that hold for an image are never in doubt.
THEOREM ImagesHaveOneRegion ==
  ASSUME NEW m, Regions(m.regions), Regions(m.images), ValidateManifest(m),
         NEW i \in DOMAIN m.images
  PROVE  \E k \in DOMAIN m.regions :
           /\ ContainsImage(m.regions[k], m.images[i])
           /\ \A j \in DOMAIN m.regions : ContainsImage(m.regions[j], m.images[i]) => j = k
  <1>1. Disjoint(m.regions) /\ ValidImage(m, m.images[i])
    BY DEF ValidateManifest, Disjoint
  <1>2. PICK k \in DOMAIN m.regions : ContainsImage(m.regions[k], m.images[i])
    BY <1>1 DEF ValidImage
  <1>3. ASSUME NEW j \in DOMAIN m.regions, ContainsImage(m.regions[j], m.images[i])
        PROVE  j = k
    <2>1. m.images[i].offset \in Nat /\ m.images[i].size \in Nat /\ m.images[i].size # 0
      BY <1>1 DEF Regions, ValidImage
    <2>2. /\ Within(m.images[i].offset, m.regions[j])
          /\ Within(m.images[i].offset, m.regions[k])
      BY <1>2, <1>3, <2>1 DEF Regions, ContainsImage, Within, End
    <2> QED  BY <2>1, <2>2, <1>1, NoSharedByte
  <1> QED  BY <1>2, <1>3

LEMMA DivIsFloor ==
  ASSUME NEW a \in Nat, NEW n \in Nat \ {0}
  PROVE  a \div n \in Nat /\ n * (a \div n) <= a /\ a < n * (a \div n) + n
  <1>1. a \div n \in Nat
    BY SMTT(20)
  <1>2. n * (a \div n) <= a
    BY SMTT(20)
  <1>3. a < n * (a \div n) + n
    BY SMTT(20)
  <1> QED  BY <1>1, <1>2, <1>3

LEMMA DivIsMonotone ==
  ASSUME NEW a \in Nat, NEW b \in Nat, NEW n \in Nat \ {0}, a <= b
  PROVE  a \div n <= b \div n
  <1> DEFINE p == a \div n
             q == b \div n
  <1>1. p \in Nat /\ q \in Nat /\ n * p <= a /\ b < n * q + n
    BY DivIsFloor
  <1> HIDE DEF p, q
  <1>2. SUFFICES ASSUME q + 1 <= p PROVE FALSE
    BY <1>1 DEF p, q
  <1>3. n * (q + 1) <= n * p
    BY <1>1, <1>2, SMTT(20)
  <1>4. n * (q + 1) = n * q + n
    BY <1>1, SMTT(20)
  <1> QED  BY <1>1, <1>3, <1>4, SMTT(20)

\* protect_range sets the bit of every block that a range touches.
LEMMA RangeIsProtected ==
  ASSUME NEW offset \in Nat, NEW size \in Nat, NEW a \in Nat,
         Block \in Nat \ {0}, TableBlocks \in Nat,
         offset <= a, a < offset + size, ~(offset + size > WordMax),
         a \div Block < TableBlocks
  PROVE  a \div Block \in ProtectRange(offset, size)
  <1>1. size # 0 /\ offset + size - 1 \in Nat /\ a <= offset + size - 1
    OBVIOUS
  <1>2. /\ a \div Block \in Nat
        /\ offset \div Block <= a \div Block
        /\ a \div Block <= (offset + size - 1) \div Block
    BY <1>1, DivIsFloor, DivIsMonotone
  <1>3. a \div Block \in 0..(TableBlocks - 1)
    BY <1>2
  <1> QED  BY <1>1, <1>2, <1>3 DEF ProtectRange

\* With the policy of a manifest in force, a command of the target that changes
\* a byte of one of its read-only regions does not pass, unless that byte lies
\* beyond the table (from_manifest and protect_range of filter.rs).
THEOREM ReadOnlyIsProtected ==
  ASSUME Block \in Nat \ {0}, TableBlocks \in Nat,
         NEW m, Regions(m.regions), NEW k \in DOMAIN m.regions,
         "write" \notin m.regions[k].permissions, ~Overflows(m.regions[k]),
         NEW command \in SUBSET Nat, NEW a \in command,
         Within(a, m.regions[k]), a \div Block < TableBlocks
  PROVE  ~Passes(TRUE, FromManifest(m).write_disable, command)
  <1>1. a \div Block \in ProtectRange(m.regions[k].offset, m.regions[k].size)
    BY RangeIsProtected DEF Regions, Within, End, Overflows
  <1>2. a \div Block \in FromManifest(m).write_disable
    BY <1>1 DEF FromManifest
  <1> QED  BY <1>2 DEF Passes

-----------------------------------------------------------------------------
\* A queue of n places for requests of the set R.
Queue(R, n) == [items : [1..n -> R \cup {Nothing}], len : 0..n]
UnusedEmpty(q, n) == \A k \in (q.len + 1)..n : q.items[k] = Nothing

\* What waits in it, the oldest first.
Waiting(q) == [k \in 1..q.len |-> q.items[k]]

\* push puts a request behind those that wait, and pop takes the oldest away and
\* leaves the others in their order, for every capacity and every content
\* (VerificationQueue of manifest/mod.rs).
THEOREM QueueIsFifo ==
  ASSUME NEW R, NEW n \in Nat, NEW q \in Queue(R, n), UnusedEmpty(q, n), NEW request \in R
  PROVE  /\ q.len < n =>
              /\ Push(q, request) \in Queue(R, n) /\ UnusedEmpty(Push(q, request), n)
              /\ Waiting(Push(q, request)) =
                   [k \in 1..(q.len + 1) |-> IF k = q.len + 1 THEN request ELSE Waiting(q)[k]]
         /\ q.len > 0 =>
              /\ Pop(q) \in Queue(R, n) /\ UnusedEmpty(Pop(q), n)
              /\ Waiting(Pop(q)) = [k \in 1..(q.len - 1) |-> Waiting(q)[k + 1]]
  <1> DEFINE items == q.items
             len == q.len
  <1>1. items \in [1..n -> R \cup {Nothing}] /\ len \in 0..n
    BY DEF Queue
  <1>2. \A k \in (len + 1)..n : items[k] = Nothing
    BY DEF UnusedEmpty
  <1> HIDE DEF items, len
  <1>3. ASSUME len < n
        PROVE  /\ Push(q, request) \in Queue(R, n) /\ UnusedEmpty(Push(q, request), n)
               /\ Waiting(Push(q, request)) =
                    [k \in 1..(len + 1) |-> IF k = len + 1 THEN request ELSE Waiting(q)[k]]
    <2> DEFINE more == [items EXCEPT ![len + 1] = request]
    <2>1. more \in [1..n -> R \cup {Nothing}] /\ len + 1 \in 0..n
      BY <1>1, <1>3
    <2>2. Push(q, request) = [items |-> more, len |-> len + 1]
      BY DEF Push, items, len
    <2>3. \A k \in 1..n : more[k] = IF k = len + 1 THEN request ELSE items[k]
      BY <1>1, <1>3
    <2> HIDE DEF more
    <2>4. Push(q, request) \in Queue(R, n)
      BY <2>1, <2>2 DEF Queue
    <2>5. UnusedEmpty(Push(q, request), n)
      BY <2>1, <2>2, <2>3, <1>1, <1>2 DEF UnusedEmpty
    <2>6. Waiting(q) = [k \in 1..len |-> items[k]]
      BY DEF Waiting, items, len
    <2>7. Waiting(Push(q, request)) = [k \in 1..(len + 1) |-> more[k]]
      BY <2>2 DEF Waiting
    <2> QED  BY <2>1, <2>3, <2>4, <2>5, <2>6, <2>7, <1>1, <1>3
  <1>4. ASSUME len > 0
        PROVE  /\ Pop(q) \in Queue(R, n) /\ UnusedEmpty(Pop(q), n)
               /\ Waiting(Pop(q)) = [k \in 1..(len - 1) |-> Waiting(q)[k + 1]]
    <2> DEFINE fewer == [k \in 1..n |-> IF k < len THEN items[k + 1]
                                        ELSE IF k = len THEN Nothing ELSE items[k]]
    <2>1. fewer \in [1..n -> R \cup {Nothing}] /\ len - 1 \in 0..n
      BY <1>1, <1>4
    <2>2. Pop(q) = [items |-> fewer, len |-> len - 1]
      BY <1>1 DEF Pop, items, len
    <2>3. \A k \in 1..n : fewer[k] = IF k < len THEN items[k + 1]
                                     ELSE IF k = len THEN Nothing ELSE items[k]
      OBVIOUS
    <2> HIDE DEF fewer
    <2>4. Pop(q) \in Queue(R, n)
      BY <2>1, <2>2 DEF Queue
    <2>5. UnusedEmpty(Pop(q), n)
      BY <2>1, <2>2, <2>3, <1>1, <1>2 DEF UnusedEmpty
    <2>6. Waiting(q) = [k \in 1..len |-> items[k]]
      BY DEF Waiting, items, len
    <2>7. Waiting(Pop(q)) = [k \in 1..(len - 1) |-> fewer[k]]
      BY <2>2 DEF Waiting
    <2> QED  BY <2>1, <2>3, <2>4, <2>5, <2>6, <2>7, <1>1, <1>4
  <1> QED  BY <1>3, <1>4 DEF len

-----------------------------------------------------------------------------
(* The verified images of a running target.                                 *)

\* What VerifiedImagesStayIntact says of an image: what was checked of it, and
\* what it still holds.
Accepted(k) ==
  /\ ValidateManifest(manifest) /\ manifest.images[k].svn >= MinimumSvn
  /\ Mapping(k) # 0 /\ manifest.images[k].material # <<>>
Kept(k) == ReadOnly(k) /\ slots[Mapping(k)].offset = 0 => CellsOf(k) \subseteq good
Verified == \A k \in DOMAIN manifest.images : Accepted(k) /\ Kept(k)

Queued(event) == \E j \in DOMAIN events : events[j] = event

\* The monitors are programmed for the manifest.
Filtered ==
  enabled = Policy(manifest).provisioned /\ table = Policy(manifest).write_disable

\* What verify.rs has established of an image it is done with; with the mux on
\* the target it has established nothing of the bytes.
Read(k) ==
  /\ Mapping(k) # 0 /\ manifest.images[k].material # <<>>
  /\ mux = "rot" => CellsOf(k) \subseteq good

Verifying == task \in {"verify", "digest", "signature"}
Releasing == task \in {"reset_filter", "program_filter", "hand_over", "raise"}

Shape ==
  /\ state \in State
  /\ manifest \in Manifests
  /\ events \in Seq(Event)
  /\ task \in TaskState
  /\ image \in Nat
  /\ mux \in {"rot", "target"}
  /\ running \in BOOLEAN /\ bare \in BOOLEAN

\* The boot event comes first and takes flash back; until then nothing has been
\* verified, and only then does the flash backend write.
BootInv ==
  /\ state = "Init" =>
       /\ events # <<>> /\ Head(events) = "Boot"
       /\ task = "receive" /\ ~running /\ ~Queued("VerificationPassed")
  /\ job.left > 0 => state = "Init"

\* From the boot on flash is the target's only while it runs, or is about to.
OwnerInv ==
  /\ task = "raise" \/ running => mux = "target"
  /\ mux = "target" => state = "Init" \/ task = "raise" \/ running

\* The filter is as the manifest says before flash is handed over, and stays so.
FilterInv == task \in {"hand_over", "raise"} \/ (running /\ ~bare) => Filtered

\* Images before the current one are read; the current one from "digest" on.
WalkInv ==
  Verifying =>
    /\ ValidateManifest(manifest) /\ ValidateAntiRollback(manifest, MinimumSvn)
    /\ \A k \in DOMAIN manifest.images : k < image => Read(k)
    /\ task # "verify" /\ genuine => Read(image)
    /\ task = "signature" => genuine

\* The good word of a verification, once given, is true until the filter falls.
VerdictInv ==
  Queued("VerificationPassed") \/ Releasing \/ running => bare \/ Verified

FlashInv == Shape /\ BootInv /\ OwnerInv /\ FilterInv /\ WalkInv /\ VerdictInv

-----------------------------------------------------------------------------
(* The queue of events.                                                     *)

LEMMA AppendQueued ==
  ASSUME events \in Seq(Event), NEW e \in Event, events' = Append(events, e)
  PROVE  /\ events' \in Seq(Event)
         /\ \A x : Queued(x)' => Queued(x) \/ x = e
         /\ events # <<>> => events' # <<>> /\ Head(events') = Head(events)
  BY DEF Queued

(* Consuming an event, and reporting in the same step if there is a report. *)
LEMMA ConsumeQueued ==
  ASSUME events \in Seq(Event), events # <<>>, NEW e \in Event \cup {"None"},
         events' = Send(Tail(events), e)
  PROVE  /\ events' \in Seq(Event)
         /\ \A x \in Event : Queued(x)' => Queued(x) \/ x = e
<1>1. Tail(events) \in Seq(Event)
      /\ \A j \in DOMAIN Tail(events) : Tail(events)[j] = events[j + 1] /\ j + 1 \in DOMAIN events
  OBVIOUS
<1>2. CASE e = "None"
  BY <1>1, <1>2 DEF Send, Queued
<1>3. CASE e # "None"
  <2> DEFINE rest == Tail(events)
  <2>1. events' = Append(rest, e) /\ e \in Event
    BY <1>3 DEF Send
  <2>2. \A j \in DOMAIN events' : events'[j] = e \/ (j \in DOMAIN rest /\ events'[j] = rest[j])
    BY <1>1, <2>1
  <2> QED
    BY <1>1, <2>1, <2>2 DEF Queued
<1> QED
  BY <1>2, <1>3

-----------------------------------------------------------------------------
(* The filter.                                                              *)

\* A byte below the end of the table has its bit in it.
LEMMA InTable ==
  ASSUME NEW a \in Nat, NEW n \in Nat, NEW b \in Nat \ {0}, a < n * b
  PROVE  a \div b < n
<1> DEFINE q == a \div b
<1>1. q \in Nat /\ b * q <= a
  BY DivIsFloor
<1> HIDE DEF q
<1>2. SUFFICES ASSUME n <= q PROVE FALSE
  BY <1>1 DEF q
<1>3. b * n <= b * q
  BY <1>1, <1>2, SMTT(20)
<1>4. n * b = b * n
  BY SMTT(20)
<1>5. b * n \in Nat /\ b * q \in Nat
  BY <1>1
<1> QED
  BY <1>1, <1>3, <1>4, <1>5

(* No command that passes the programmed filter touches an image that       *)
(* VerifiedImagesStayIntact speaks of.                                      *)
LEMMA CommandSpares ==
  ASSUME Shape, Filtered, NEW k \in DOMAIN manifest.images, Accepted(k),
         ReadOnly(k), slots[Mapping(k)].offset = 0,
         NEW ce, NEW command \in Commands, Passes(enabled, table, command),
         NEW cell \in CellsOf(k)
  PROVE  cell \notin {ce} \X command
<1>1. PICK r \in DOMAIN manifest.regions :
        /\ "write" \notin manifest.regions[r].permissions
        /\ ContainsImage(manifest.regions[r], manifest.images[k])
        /\ End(manifest.images[k]) <= TableBlocks * Block
  BY DEF ReadOnly
<1>2. /\ Regions(manifest.regions)
      /\ manifest.images[k].offset \in Nat /\ manifest.images[k].size \in Nat
      /\ manifest.regions[r].offset \in Nat /\ manifest.regions[r].size \in Nat
  BY ManifestAssumption DEF Shape, Regions
<1>3. PICK a \in manifest.images[k].offset..(End(manifest.images[k]) - 1) :
        cell = <<slots[Mapping(k)].ce, slots[Mapping(k)].offset + a>>
  BY DEF CellsOf
<1>4. a \in Nat /\ a < End(manifest.images[k]) /\ manifest.images[k].offset <= a
  BY <1>2, <1>3 DEF End
<1>5. cell = <<slots[Mapping(k)].ce, a>>
  BY <1>3, <1>4
<1>6. Within(a, manifest.regions[r]) /\ ~Overflows(manifest.regions[r])
  BY <1>1, <1>2, <1>4 DEF ContainsImage, Within, End
<1>7. a \div Block < TableBlocks
  <2>1. Block \in Nat \ {0} /\ TableBlocks \in Nat /\ TableBlocks * Block \in Nat
    BY GeometryAssumption
  <2>2. a < TableBlocks * Block
    BY <1>1, <1>2, <1>4, <2>1 DEF End
  <2> QED
    BY <1>4, <2>1, <2>2, InTable
<1>8. command \in SUBSET Nat
  BY GeometryAssumption DEF Commands, Programs, Erases, ChipErase
<1>9. Policy(manifest) = FromManifest(manifest)
  BY DEF Accepted, ValidateManifest, Policy
<1>10. Passes(TRUE, FromManifest(manifest).write_disable, command)
  BY <1>9 DEF Filtered, FromManifest, Passes
<1>11. a \notin command
  BY <1>1, <1>2, <1>6, <1>7, <1>8, <1>10, GeometryAssumption, ReadOnlyIsProtected
<1> QED
  BY <1>5, <1>11

-----------------------------------------------------------------------------
(* The invariant, action by action.                                         *)

LEMMA FlashInitInv == Init => FlashInv
<1> SUFFICES ASSUME Init PROVE FlashInv
  OBVIOUS
<1>1. /\ events = <<"Boot">> /\ Head(events) = "Boot" /\ events # <<>>
      /\ events \in Seq(Event)
      /\ \A j \in DOMAIN events : events[j] = "Boot"
  BY DEF Init, Event
<1>2. ~Queued("VerificationPassed")
  BY <1>1 DEF Queued
<1>3. job.left = 0
  BY DEF Init, Idle
<1> QED
  BY <1>1, <1>2, <1>3
  DEF Init, MachineInit, FlashInv, Shape, State, TaskState, BootInv, OwnerInv,
      FilterInv, WalkInv, Verifying, VerdictInv, Releasing

(* Where nothing but the backend's job and the bytes change, before the     *)
(* boot event, nothing is promised of them yet.                             *)
LEMMA BackendKeeps ==
  ASSUME FlashInv, FlashBackend
  PROVE  FlashInv'
<1>1. /\ UNCHANGED <<machineVars, fixed, events, task, verifier, mux, running, monitor,
                     bare>>
      /\ state = "Init"
  <2>1. job.left > 0 => state = "Init"
    BY DEF FlashInv, BootInv
  <2> QED
    BY <2>1 DEF FlashBackend, StartWrite, EraseSector, Call, WritePage, WriteFails
<1>2. task = "receive" /\ ~running /\ ~Queued("VerificationPassed")
  BY <1>1 DEF FlashInv, BootInv
<1> QED
  BY <1>1, <1>2
  DEF machineVars, fixed, verifier, monitor, FlashInv, Shape, BootInv, Queued,
      OwnerInv, FilterInv, Filtered, WalkInv, Verifying, VerdictInv, Releasing

(* What an event makes of the machine: the boot event alone takes flash     *)
(* back, a passed verification alone releases it.                           *)
LEMMA MachineMoves ==
  ASSUME NEW s \in State, NEW e \in Event
  PROVE  /\ NextState(s, e) \in State
         /\ NextState(s, e) = "Init" => s = "Init" /\ e # "Boot"
         /\ ActionFor(s, e) = "HoldPlatform" => s = "Init" /\ e = "Boot"
         /\ ActionFor(s, e) = "ReleasePlatform" => e = "VerificationPassed"
         /\ s = "Init" /\ e = "Boot" => ActionFor(s, e) = "HoldPlatform"
         /\ SuccessEvent(ActionFor(s, e)) \in Event \cup {"None"}
         /\ SuccessEvent(ActionFor(s, e)) = "VerificationPassed"
              => ActionFor(s, e) = "VerifyImages"
<1> USE DEF State
<1>1. Advances(s, e) \/ ~Advances(s, e)
  OBVIOUS
<1>2. CASE Advances(s, e)
  <2>1. \/ s = "Init" /\ e = "Boot"
        \/ s = "TMinus1" /\ e = "PlatformHeld"
        \/ s = "Verify" /\ e = "VerificationPassed"
        \/ s = "Release" /\ e = "ReleaseComplete"
        \/ s = "Recover" /\ e = "RecoveryComplete"
    BY <1>2 DEF Advances
  <2>2. NextState(s, e) = Successor(s) /\ ActionFor(s, e) = EntryAction(Successor(s))
    BY <2>1 DEF NextState, ActionFor, Advances, RecoveryTriggers
  <2> QED
    BY <2>1, <2>2 DEF Successor, EntryAction, SuccessEvent, Event, SuccessEvents
<1>3. CASE ~Advances(s, e)
  BY <1>3 DEF NextState, ActionFor, Advances, SuccessEvent, Event, SuccessEvents,
              RecoveryTriggers
<1> QED
  BY <1>1, <1>2, <1>3

(* Verdicts are about the firmware's constants and the bytes of images.     *)
LEMMA SameImages ==
  ASSUME UNCHANGED <<manifest, slots, good>>
  PROVE  /\ Verified' <=> Verified
         /\ mux' = mux => \A k : Read(k)' <=> Read(k)
  BY DEF Verified, Accepted, Kept, Mapping, CellsOf, ReadOnly, Read

LEMMA ReceiveKeeps ==
  ASSUME FlashInv, Receive
  PROVE  FlashInv'
<1> DEFINE e == Head(events)
           action == ActionFor(state, e)
<1>1. /\ events \in Seq(Event) /\ events # <<>> /\ e \in Event /\ state \in State
      /\ task = "receive" /\ job.left = 0
      /\ state' = NextState(state, e)
      /\ UNCHANGED <<fixed, genuine, monitor, good, writer, alarms, bare>>
  BY DEF Receive, StepRecord, FlashInv, Shape
<1>2. /\ state' \in State /\ state' # "Init"
      /\ action = "HoldPlatform" => state = "Init"
      /\ action = "ReleasePlatform" => Queued("VerificationPassed")
      /\ state = "Init" => action = "HoldPlatform"
      /\ SuccessEvent(action) \in Event \cup {"None"}
      /\ SuccessEvent(action) = "VerificationPassed" => action = "VerifyImages"
  <2>1. e = events[1] /\ 1 \in DOMAIN events
    BY <1>1
  <2>2. state = "Init" => e = "Boot"
    BY DEF FlashInv, BootInv
  <2> QED
    BY <1>1, <2>1, <2>2, MachineMoves DEF Queued
<1>3. UNCHANGED <<manifest, slots, genuine, enabled, table, good, job, bare>>
  BY <1>1 DEF fixed, monitor, writer
<1> HIDE DEF e, action
<1>4. CASE action = "HoldPlatform"
  <2>1. /\ mux' = "rot" /\ running' = FALSE /\ task' = "receive" /\ image' = image
        /\ events' = Send(Tail(events), SuccessEvent(action))
    BY <1>1, <1>4 DEF Receive, e, action
  <2>2. events' \in Seq(Event) /\ ~Queued("VerificationPassed")'
    BY <1>1, <1>2, <1>4, <2>1, ConsumeQueued
    DEF FlashInv, BootInv, Event, SuccessEvents
  <2>3. Shape'
    BY <1>2, <1>3, <2>1, <2>2 DEF FlashInv, Shape, TaskState
  <2>4. BootInv' /\ OwnerInv'
    BY <1>1, <1>2, <1>3, <2>1 DEF BootInv, OwnerInv
  <2>5. FilterInv' /\ WalkInv'
    BY <2>1 DEF FilterInv, WalkInv, Verifying
  <2>6. VerdictInv'
    BY <2>1, <2>2 DEF VerdictInv, Releasing
  <2> QED
    BY <2>3, <2>4, <2>5, <2>6 DEF FlashInv
<1>5. CASE action = "VerifyImages" /\ manifest.images # <<>>
  <2>1. UNCHANGED <<mux, running>>
    BY <1>5 DEF Receive, e, action
  <2>2. /\ events' \in Seq(Event)
        /\ Queued("VerificationPassed")' => Queued("VerificationPassed")
    <3>1. \/ events' = Send(Tail(events), "None")
          \/ events' = Send(Tail(events), "VerificationFailed")
      BY <1>5 DEF Receive, Send, e, action
    <3> QED
      BY <1>1, <3>1, ConsumeQueued DEF Event, SuccessEvents, RecoveryTriggers
  <2>3. \/ task' = "receive"
        \/ /\ task' = "verify" /\ image' = 1
           /\ ValidateManifest(manifest) /\ ValidateAntiRollback(manifest, MinimumSvn)
    BY <1>1, <1>5 DEF Receive, e, action
  <2>4. image' \in Nat
    BY <1>5 DEF Receive, e, action, FlashInv, Shape
  <2>5. \A k \in DOMAIN manifest.images : ~(k < 1)
    BY ManifestAssumption DEF FlashInv, Shape
  <2>6. Shape'
    BY <1>2, <1>3, <2>1, <2>2, <2>3, <2>4 DEF FlashInv, Shape, TaskState
  <2>7. BootInv' /\ OwnerInv'
    <3>1. state # "Init"
      BY <1>2, <1>5
    <3>2. ~(job.left > 0)' /\ state' # "Init"
      BY <1>1, <1>2, <1>3
    <3> QED
      BY <1>1, <2>1, <2>3, <3>1, <3>2 DEF FlashInv, BootInv, OwnerInv
  <2>8. FilterInv'
    BY <1>3, <2>1, <2>3 DEF FlashInv, FilterInv, Filtered
  <2>9. WalkInv'
    BY <1>3, <2>3, <2>5 DEF WalkInv, Verifying
  <2>10. VerdictInv'
    BY <1>3, <2>1, <2>2, <2>3, SameImages DEF FlashInv, VerdictInv, Releasing
  <2> QED
    BY <2>6, <2>7, <2>8, <2>9, <2>10 DEF FlashInv
<1>6. CASE action = "ReleasePlatform"
  <2>1. /\ task' = "reset_filter" /\ events' = Tail(events)
        /\ UNCHANGED <<image, mux, running>>
    BY <1>6 DEF Receive, e, action
  <2>2. events' \in Seq(Event)
    BY <1>1, <2>1
  <2>3. Shape'
    BY <1>2, <1>3, <2>1, <2>2 DEF FlashInv, Shape, TaskState
  <2>4. BootInv' /\ OwnerInv'
    <3>1. state # "Init"
      BY <1>2, <1>6
    <3>2. ~(job.left > 0)' /\ state' # "Init"
      BY <1>1, <1>2, <1>3
    <3> QED
      BY <1>1, <2>1, <3>1, <3>2 DEF FlashInv, BootInv, OwnerInv
  <2>5. FilterInv' /\ WalkInv'
    BY <1>3, <2>1 DEF FlashInv, FilterInv, Filtered, WalkInv, Verifying
  <2>6. VerdictInv'
    BY <1>2, <1>3, <1>6, SameImages DEF FlashInv, VerdictInv
  <2> QED
    BY <2>3, <2>4, <2>5, <2>6 DEF FlashInv
<1>7. CASE /\ action \notin {"HoldPlatform", "ReleasePlatform"}
           /\ action = "VerifyImages" => manifest.images = <<>>
  <2>1. /\ UNCHANGED <<task, image, mux, running>>
        /\ events' = Send(Tail(events), SuccessEvent(action))
    BY <1>7 DEF Receive, e, action
  <2>2. /\ events' \in Seq(Event)
        /\ Queued("VerificationPassed")' =>
             Queued("VerificationPassed") \/ action = "VerifyImages"
    BY <1>1, <1>2, <2>1, ConsumeQueued DEF Event, SuccessEvents
  <2>3. action = "VerifyImages" => Verified
    BY <1>7 DEF Verified
  <2>4. Shape'
    BY <1>2, <1>3, <2>1, <2>2 DEF FlashInv, Shape
  <2>5. BootInv' /\ OwnerInv'
    <3>1. state # "Init"
      BY <1>2, <1>7
    <3>2. ~(job.left > 0)' /\ state' # "Init"
      BY <1>1, <1>2, <1>3
    <3> QED
      BY <1>1, <2>1, <3>1, <3>2 DEF FlashInv, BootInv, OwnerInv
  <2>6. FilterInv' /\ WalkInv'
    BY <1>1, <1>3, <2>1 DEF FlashInv, FilterInv, Filtered, WalkInv, Verifying
  <2>7. VerdictInv'
    BY <1>1, <1>3, <2>1, <2>2, <2>3, SameImages DEF FlashInv, VerdictInv, Releasing
  <2> QED
    BY <2>4, <2>5, <2>6, <2>7 DEF FlashInv
<1> QED
  BY <1>4, <1>5, <1>6, <1>7


-----------------------------------------------------------------------------
(* main_task verifies.                                                      *)

\* What the steps of a verification leave alone.
LEMMA VerifierSpares ==
  ASSUME FlashInv, Verifying,
         UNCHANGED <<machineVars, fixed, mux, running, monitor, good, writer, alarms, bare>>
  PROVE  /\ state \in State /\ events \in Seq(Event) /\ image \in Nat
         /\ state # "Init" /\ state' = state
         /\ (mux = "target" => running) /\ (running => mux = "target")
         /\ UNCHANGED <<manifest, slots, mux, running, enabled, table, good, job, bare>>
         /\ (job.left > 0)' = (job.left > 0)
         /\ Verified' <=> Verified
         /\ \A k : Read(k)' <=> Read(k)
<1>1. UNCHANGED <<manifest, slots, enabled, table, job>> /\ state' = state
  BY DEF fixed, monitor, writer, machineVars
<1>2. (Verified' <=> Verified) /\ (\A k : Read(k)' <=> Read(k))
  BY <1>1, SameImages
<1> QED
  BY <1>1, <1>2 DEF FlashInv, Shape, BootInv, OwnerInv, Verifying

(* A verification that ends puts its verdict behind what waits; a good one  *)
(* needs every image.                                                       *)
LEMMA VerificationEndsKeeps ==
  ASSUME FlashInv, Verifying,
         UNCHANGED <<machineVars, fixed, mux, running, monitor, good, writer, alarms, bare>>,
         NEW event \in Event, VerificationEnds(event),
         event = "VerificationPassed" => bare \/ Verified
  PROVE  FlashInv'
<1>1. /\ events' \in Seq(Event)
      /\ Queued("VerificationPassed")' =>
           Queued("VerificationPassed") \/ event = "VerificationPassed"
  BY AppendQueued DEF VerificationEnds, FlashInv, Shape
<1>2. task' = "receive" /\ image' = 0
  BY DEF VerificationEnds
<1>3. Shape'
  BY <1>1, <1>2, VerifierSpares DEF FlashInv, Shape, TaskState
<1>4. BootInv'
  BY VerifierSpares DEF FlashInv, BootInv
<1>5. OwnerInv' /\ FilterInv' /\ WalkInv'
  BY <1>2, VerifierSpares
  DEF FlashInv, OwnerInv, FilterInv, Filtered, WalkInv, Verifying
<1>6. VerdictInv'
  BY <1>1, <1>2, VerifierSpares DEF FlashInv, VerdictInv, Releasing
<1> QED
  BY <1>3, <1>4, <1>5, <1>6 DEF FlashInv

(* A verification that goes on: the walk's own part of the invariant is all *)
(* there is to show.                                                        *)
LEMMA VerificationGoesOn ==
  ASSUME FlashInv, Verifying,
         UNCHANGED <<machineVars, fixed, mux, running, monitor, good, writer, alarms, bare>>,
         UNCHANGED events, task' \in TaskState, Verifying', image' \in Nat, WalkInv'
  PROVE  FlashInv'
<1>1. Shape'
  BY VerifierSpares DEF FlashInv, Shape
<1>2. BootInv'
  BY VerifierSpares DEF FlashInv, BootInv
<1>3. OwnerInv' /\ FilterInv'
  BY VerifierSpares DEF FlashInv, OwnerInv, FilterInv, Filtered, Verifying
<1>4. VerdictInv'
  BY VerifierSpares DEF FlashInv, VerdictInv, Releasing, Verifying, Queued
<1> QED
  BY <1>1, <1>2, <1>3, <1>4 DEF FlashInv

LEMMA ReadImageKeeps ==
  ASSUME FlashInv, ReadImage
  PROVE  FlashInv'
<1>1. /\ Verifying /\ task = "verify"
      /\ UNCHANGED <<machineVars, fixed, mux, running, monitor, good, writer, alarms, bare>>
  BY DEF ReadImage, Verifying
<1>2. CASE VerificationEnds("VerificationFailed")
  BY <1>1, <1>2, VerificationEndsKeeps DEF Event, RecoveryTriggers
<1>3. CASE /\ Readable(manifest.images[image])
           /\ genuine' \in IF mux = "rot" THEN {CellsOf(image) \subseteq good} ELSE BOOLEAN
           /\ task' = "digest"
           /\ UNCHANGED <<events, image>>
  <2>1. Mapping(image) # 0 /\ manifest.images[image].material # <<>>
    BY <1>3 DEF Readable, Usable, Mapping
  <2>2. genuine' => Read(image)
    BY <1>3, <2>1 DEF Read
  <2>3. WalkInv'
    BY <1>1, <1>3, <2>2, VerifierSpares DEF FlashInv, WalkInv, Verifying
  <2> QED
    BY <1>1, <1>3, <2>3, VerifierSpares, VerificationGoesOn DEF TaskState, Verifying
<1> QED
  BY <1>2, <1>3 DEF ReadImage

LEMMA DigestKeeps ==
  ASSUME FlashInv, Digest
  PROVE  FlashInv'
<1>1. /\ Verifying /\ task = "digest"
      /\ UNCHANGED <<machineVars, fixed, mux, running, monitor, good, writer, alarms, bare>>
  BY DEF Digest, Verifying
<1>2. CASE VerificationEnds("VerificationFailed")
  BY <1>1, <1>2, VerificationEndsKeeps DEF Event, RecoveryTriggers
<1>3. CASE genuine /\ task' = "signature" /\ UNCHANGED <<events, verifier>>
  <2>1. genuine' = genuine /\ image' = image
    BY <1>3 DEF verifier
  <2>2. WalkInv'
    BY <1>1, <1>3, <2>1, VerifierSpares DEF FlashInv, WalkInv, Verifying
  <2> QED
    BY <1>1, <1>3, <2>1, <2>2, VerifierSpares, VerificationGoesOn DEF TaskState, Verifying
<1> QED
  BY <1>2, <1>3 DEF Digest

(* The last image makes the verdict.  With the mux on the target the target *)
(* runs, and the verdict that let it run still holds.                       *)
LEMMA SignatureKeeps ==
  ASSUME FlashInv, Signature
  PROVE  FlashInv'
<1>1. /\ Verifying /\ task = "signature"
      /\ UNCHANGED <<machineVars, fixed, mux, running, monitor, good, writer, alarms, bare>>
  BY DEF Signature, Verifying
<1>2. /\ ValidateManifest(manifest) /\ ValidateAntiRollback(manifest, MinimumSvn)
      /\ \A k \in DOMAIN manifest.images : k < image => Read(k)
      /\ Read(image)
  BY <1>1 DEF FlashInv, WalkInv, Verifying
<1>3. /\ DOMAIN manifest.images = 1..Len(manifest.images) /\ Len(manifest.images) \in Nat
      /\ image \in Nat
  BY ManifestAssumption DEF FlashInv, Shape
<1>4. \A k \in DOMAIN manifest.images : k < image + 1 => Read(k)
  <2> SUFFICES ASSUME NEW k \in DOMAIN manifest.images, k < image + 1 PROVE Read(k)
    OBVIOUS
  <2>1. k < image \/ k = image
    BY <1>3
  <2> QED
    BY <1>2, <2>1
<1>5. CASE VerificationEnds("VerificationFailed")
  BY <1>1, <1>5, VerificationEndsKeeps DEF Event, RecoveryTriggers
<1>6. CASE /\ image < Len(manifest.images)
           /\ image' = image + 1 /\ genuine' = FALSE /\ task' = "verify"
           /\ UNCHANGED events
  <2>1. WalkInv'
    BY <1>1, <1>2, <1>3, <1>4, <1>6, VerifierSpares DEF WalkInv, Verifying
  <2> QED
    BY <1>1, <1>3, <1>6, <2>1, VerifierSpares, VerificationGoesOn DEF TaskState, Verifying
<1>7. CASE ~(image < Len(manifest.images)) /\ VerificationEnds("VerificationPassed")
  <2>1. \A k \in DOMAIN manifest.images : Read(k)
    BY <1>3, <1>4, <1>7
  <2>2. CASE mux = "rot"
    <3>1. ASSUME NEW k \in DOMAIN manifest.images PROVE Accepted(k) /\ Kept(k)
      BY <1>2, <2>1, <2>2, <3>1 DEF Read, Accepted, Kept, ValidateAntiRollback, Accepts
    <3> QED
      BY <1>1, <1>7, <3>1, VerificationEndsKeeps DEF Verified, Event, SuccessEvents
  <2>3. CASE mux = "target"
    <3>1. bare \/ Verified
      BY <1>1, <2>3, VerifierSpares DEF FlashInv, VerdictInv
    <3> QED
      BY <1>1, <1>7, <3>1, VerificationEndsKeeps DEF Event, SuccessEvents
  <2> QED
    BY <2>2, <2>3 DEF FlashInv, Shape
<1> QED
  BY <1>5, <1>6, <1>7 DEF Signature

-----------------------------------------------------------------------------
(* main_task releases.                                                      *)

\* What every step of a release leaves alone.
LEMMA ReleaseSpares ==
  ASSUME FlashInv, Releasing,
         UNCHANGED <<machineVars, fixed, verifier, good, writer>>
  PROVE  /\ state # "Init" /\ state' = state /\ (job.left > 0)' = (job.left > 0)
         /\ UNCHANGED <<manifest, slots, image, good, job>>
         /\ Policy(manifest)' = Policy(manifest)
         /\ bare \/ Verified
         /\ Verified' <=> Verified
         /\ BootInv'
<1>1. UNCHANGED <<manifest, slots, image, job>> /\ state' = state
  BY DEF fixed, verifier, writer, machineVars
<1>2. Verified' <=> Verified
  BY <1>1, SameImages
<1>3. state # "Init"
  BY DEF FlashInv, BootInv, Releasing
<1>4. bare \/ Verified
  BY DEF FlashInv, VerdictInv
<1> QED
  BY <1>1, <1>2, <1>3, <1>4 DEF FlashInv, BootInv

LEMMA ResetFilterKeeps ==
  ASSUME FlashInv, ResetFilter
  PROVE  FlashInv'
<1>1. /\ task = "reset_filter" /\ task' = "program_filter" /\ Releasing
      /\ bare' = (bare \/ (running /\ mux = "target"))
      /\ UNCHANGED <<events, mux, running>>
      /\ UNCHANGED <<machineVars, fixed, verifier, good, writer>>
  BY DEF ResetFilter, Releasing
<1>2. running => bare'
  BY <1>1 DEF FlashInv, OwnerInv
<1>3. Shape' /\ OwnerInv'
  BY <1>1, ReleaseSpares DEF FlashInv, Shape, OwnerInv, TaskState
<1>4. FilterInv' /\ WalkInv'
  BY <1>1, <1>2 DEF FilterInv, WalkInv, Verifying
<1>5. VerdictInv'
  BY <1>1, ReleaseSpares DEF VerdictInv
<1> QED
  BY <1>1, <1>3, <1>4, <1>5, ReleaseSpares DEF FlashInv

LEMMA ProgramFilterKeeps ==
  ASSUME FlashInv, ProgramFilter
  PROVE  FlashInv'
<1>1. /\ task = "program_filter" /\ task' = "hand_over" /\ Releasing
      /\ table' = Policy(manifest).write_disable
      /\ enabled' = Policy(manifest).provisioned
      /\ UNCHANGED <<events, mux, running, bare>>
      /\ UNCHANGED <<machineVars, fixed, verifier, good, writer>>
  BY DEF ProgramFilter, Releasing
<1>2. Shape' /\ OwnerInv'
  BY <1>1, ReleaseSpares DEF FlashInv, Shape, OwnerInv, TaskState
<1>3. Filtered' /\ WalkInv'
  BY <1>1, ReleaseSpares DEF Filtered, WalkInv, Verifying
<1>4. VerdictInv'
  BY <1>1, ReleaseSpares DEF VerdictInv
<1> QED
  BY <1>1, <1>2, <1>3, <1>4, ReleaseSpares DEF FlashInv, FilterInv

LEMMA HandOverKeeps ==
  ASSUME FlashInv, HandOver
  PROVE  FlashInv'
<1>1. /\ task = "hand_over" /\ task' = "raise" /\ mux' = "target" /\ Releasing
      /\ UNCHANGED <<events, running, enabled, table, bare>>
      /\ UNCHANGED <<machineVars, fixed, verifier, good, writer>>
  BY DEF HandOver, Releasing, monitor
<1>2. Shape' /\ OwnerInv'
  BY <1>1, ReleaseSpares DEF FlashInv, Shape, OwnerInv, TaskState
<1>3. FilterInv' /\ WalkInv'
  BY <1>1, ReleaseSpares DEF FlashInv, FilterInv, Filtered, WalkInv, Verifying
<1>4. VerdictInv'
  BY <1>1, ReleaseSpares DEF VerdictInv
<1> QED
  BY <1>1, <1>2, <1>3, <1>4, ReleaseSpares DEF FlashInv

LEMMA RaiseKeeps ==
  ASSUME FlashInv, Raise
  PROVE  FlashInv'
<1>1. /\ task = "raise" /\ task' = "receive" /\ running' = TRUE /\ Releasing
      /\ events' = Append(events, "ReleaseComplete")
      /\ UNCHANGED <<mux, enabled, table, bare>>
      /\ UNCHANGED <<machineVars, fixed, verifier, good, writer>>
  BY DEF Raise, Releasing, monitor, Send, SuccessEvent
<1>2. events' \in Seq(Event)
  BY <1>1, AppendQueued DEF FlashInv, Shape, Event, SuccessEvents
<1>3. Shape' /\ OwnerInv'
  BY <1>1, <1>2, ReleaseSpares DEF FlashInv, Shape, OwnerInv, TaskState
<1>4. FilterInv' /\ WalkInv'
  BY <1>1, ReleaseSpares DEF FlashInv, FilterInv, Filtered, WalkInv, Verifying
<1>5. VerdictInv'
  BY <1>1, ReleaseSpares DEF VerdictInv
<1> QED
  BY <1>1, <1>3, <1>4, <1>5, ReleaseSpares DEF FlashInv

-----------------------------------------------------------------------------
(* The target and the alarms.                                               *)

(* The only step that changes bytes after the boot event.                   *)
LEMMA TargetCommandKeeps ==
  ASSUME FlashInv, TargetCommand
  PROVE  FlashInv'
<1>1. /\ running /\ mux = "target"
      /\ UNCHANGED <<machineVars, fixed, events, task, verifier, mux, running, monitor,
                     writer, bare>>
  BY DEF TargetCommand
<1>2. UNCHANGED <<state, manifest, slots, image, genuine, enabled, table, job>>
  BY <1>1 DEF machineVars, fixed, verifier, monitor, writer
<1>3. PICK ce \in Devices, command \in Commands :
        Passes(enabled, table, command) /\ good' = good \ ({ce} \X command)
  BY DEF TargetCommand
<1>4. bare \/ Verified
  BY <1>1 DEF FlashInv, VerdictInv
<1>5. ~bare => Filtered
  BY <1>1 DEF FlashInv, FilterInv
<1>6. ASSUME ~bare PROVE Verified'
  <2>1. SUFFICES ASSUME NEW k \in DOMAIN manifest.images PROVE Accepted(k)' /\ Kept(k)'
    BY <1>2 DEF Verified
  <2>2. Accepted(k) /\ Kept(k)
    BY <1>4, <1>6 DEF Verified
  <2>3. /\ Accepted(k)' <=> Accepted(k)
        /\ CellsOf(k)' = CellsOf(k) /\ ReadOnly(k)' = ReadOnly(k)
        /\ (slots[Mapping(k)].offset = 0)' = (slots[Mapping(k)].offset = 0)
    BY <1>2 DEF Accepted, Mapping, CellsOf, ReadOnly
  <2>4. ASSUME ReadOnly(k), slots[Mapping(k)].offset = 0, NEW cell \in CellsOf(k)
        PROVE  cell \in good'
    <3>1. cell \in good
      BY <2>2, <2>4 DEF Kept
    <3>2. cell \notin {ce} \X command
      BY <1>3, <1>5, <1>6, <2>2, <2>4, CommandSpares DEF FlashInv
    <3> QED
      BY <1>3, <3>1, <3>2
  <2> QED
    BY <2>2, <2>3, <2>4 DEF Kept
<1>7. Shape' /\ OwnerInv'
  BY <1>1, <1>2 DEF FlashInv, Shape, OwnerInv
<1>8. BootInv' /\ FilterInv'
  BY <1>1, <1>2 DEF FlashInv, BootInv, FilterInv, Filtered, Queued
<1>9. WalkInv'
  <2>1. \A k : Read(k) => Read(k)'
    BY <1>1, <1>2 DEF Read, Mapping
  <2> QED
    BY <1>1, <1>2, <2>1 DEF FlashInv, WalkInv, Verifying
<1>10. VerdictInv'
  BY <1>1, <1>6 DEF VerdictInv
<1> QED
  BY <1>7, <1>8, <1>9, <1>10 DEF FlashInv

LEMMA AlarmKeeps ==
  ASSUME FlashInv, Alarm
  PROVE  FlashInv'
<1>1. UNCHANGED <<machineVars, fixed, task, verifier, mux, running, monitor, good,
                  writer, bare>>
  BY DEF Alarm
<1>2. UNCHANGED <<state, manifest, slots, image, genuine, enabled, table, job>>
  BY <1>1 DEF machineVars, fixed, verifier, monitor, writer
<1>3. PICK event \in RecoveryTriggers :
        events' = Append(events, event) /\ event # "VerificationPassed"
  BY DEF Alarm, RecoveryTriggers
<1>4. /\ events' \in Seq(Event)
      /\ Queued("VerificationPassed")' => Queued("VerificationPassed")
      /\ events # <<>> => events' # <<>> /\ Head(events') = Head(events)
  BY <1>3, AppendQueued DEF FlashInv, Shape, Event
<1>5. Verified' <=> Verified
  BY <1>1, <1>2, SameImages
<1>6. \A k : Read(k)' <=> Read(k)
  BY <1>1, <1>2, SameImages
<1>7. Shape' /\ BootInv' /\ OwnerInv'
  BY <1>1, <1>2, <1>4 DEF FlashInv, Shape, BootInv, OwnerInv
<1>8. FilterInv' /\ WalkInv'
  BY <1>1, <1>2, <1>6 DEF FlashInv, FilterInv, Filtered, WalkInv, Verifying
<1>9. VerdictInv'
  BY <1>1, <1>4, <1>5 DEF FlashInv, VerdictInv, Releasing
<1> QED
  BY <1>7, <1>8, <1>9 DEF FlashInv

LEMMA FlashStutters ==
  ASSUME FlashInv, UNCHANGED flashVars
  PROVE  FlashInv'
<1>1. /\ UNCHANGED <<state, manifest, slots, events, task, image, genuine, mux, running,
                     enabled, table, good, job, bare>>
  BY DEF flashVars, machineVars, fixed, verifier, monitor, writer
<1>2. (Verified' <=> Verified) /\ (\A k : Read(k)' <=> Read(k))
  BY <1>1, SameImages
<1> QED
  BY <1>1, <1>2
  DEF FlashInv, Shape, BootInv, OwnerInv, FilterInv, Filtered, WalkInv, Verifying,
      VerdictInv, Releasing, Queued

LEMMA FlashNextInv == FlashInv /\ [Next]_flashVars => FlashInv'
  BY BackendKeeps, ReceiveKeeps, ReadImageKeeps, DigestKeeps, SignatureKeeps,
     ResetFilterKeeps, ProgramFilterKeeps, HandOverKeeps, RaiseKeeps,
     TargetCommandKeeps, AlarmKeeps, FlashStutters
  DEF Next, MainTask

(* What the AST1060 protects stays as it was verified, for every manifest,  *)
(* slot table, flash size and block size, and whatever the target sends:    *)
(* the verdict holds from the verification on, the filter is programmed     *)
(* before flash is handed over, and no command that passes it touches a     *)
(* read-only region.                                                        *)
THEOREM ImagesStayIntact == Spec => []VerifiedImagesStayIntact
<1>1. FlashInv => VerifiedImagesStayIntact
  BY DEF FlashInv, VerdictInv, Verified, Accepted, Kept, VerifiedImagesStayIntact
<1> QED
  BY FlashInitInv, FlashNextInv, <1>1, PTL DEF Spec

-----------------------------------------------------------------------------
(* Pages and sectors.                                                       *)

\* Every set of numbers that is not empty has a smallest.
LEMMA Smallest ==
  ASSUME NEW S, S \subseteq Nat, S # {}
  PROVE  \E x \in S : \A y \in S : x <= y
<1> DEFINE R == OpToRel(<, Nat)
<1>1. IsWellFoundedOn(R, Nat)
  BY NatLessThanWellFounded
<1>2. \A x, y \in Nat : y < x => <<y, x>> \in R
  BY DEF OpToRel
<1> HIDE DEF R
<1>3. PICK x \in S : \A y \in S : ~(<<y, x>> \in R)
  BY <1>1, WFMin
<1>4. ASSUME NEW y \in S PROVE x <= y
  <2>1. x \in Nat /\ y \in Nat /\ ~(y < x)
    BY <1>2, <1>3
  <2> QED
    BY <2>1
<1> QED
  BY <1>4

(* Quotient and remainder are what they are called.                         *)
LEMMA QuotientIs ==
  ASSUME NEW n \in Nat \ {0}, NEW q \in Nat, NEW r \in 0..(n - 1)
  PROVE  (n * q + r) \div n = q /\ (n * q + r) % n = r
<1> DEFINE a == n * q + r
           p == a \div n
<1>1. a \in Nat
  BY SMTT(20)
<1>2. p \in Nat /\ n * p <= a /\ a < n * p + n
  BY <1>1, DivIsFloor
<1>3. a % n = a - n * p
  BY <1>1, SMTT(20)
<1>4. a = n * q + r
  OBVIOUS
<1> HIDE DEF p, a
<1>5. ~(p + 1 <= q)
  <2> SUFFICES ASSUME p + 1 <= q PROVE FALSE
    OBVIOUS
  <2>1. n * (p + 1) <= n * q
    BY <1>2, SMTT(20)
  <2>2. n * (p + 1) = n * p + n
    BY <1>2, SMTT(20)
  <2> QED
    BY <1>2, <1>4, <2>1, <2>2, SMTT(20)
<1>6. ~(q + 1 <= p)
  <2> SUFFICES ASSUME q + 1 <= p PROVE FALSE
    OBVIOUS
  <2>1. n * (q + 1) <= n * p
    BY <1>2, SMTT(20)
  <2>2. n * (q + 1) = n * q + n
    BY <1>2, SMTT(20)
  <2> QED
    BY <1>2, <1>4, <2>1, <2>2, SMTT(20)
<1>7. p = q
  BY <1>2, <1>5, <1>6
<1>8. a % n = r
  <2>1. n * q \in Nat
    BY SMTT(20)
  <2> QED
    BY <1>3, <1>4, <1>7, <2>1
<1> QED
  BY <1>7, <1>8 DEF a, p

(* A number without a remainder is a multiple.                              *)
LEMMA Multiple ==
  ASSUME NEW a \in Nat, NEW n \in Nat \ {0}, a % n = 0
  PROVE  \E q \in Nat : a = n * q
<1> DEFINE q == a \div n
<1>1. a % n = a - n * q
  BY SMTT(20)
<1>2. q \in Nat
  BY DivIsFloor
<1> HIDE DEF q
<1>3. n * q \in Nat
  BY <1>2, SMTT(20)
<1>4. a = n * q
  BY <1>1, <1>3
<1> QED
  BY <1>2, <1>4

(* Every number is a quotient and a remainder.                              *)
LEMMA Split ==
  ASSUME NEW a \in Nat, NEW n \in Nat \ {0}
  PROVE  \E q \in Nat, r \in 0..(n - 1) : a = n * q + r /\ a \div n = q /\ a % n = r
<1> DEFINE q == a \div n
           r == a - n * q
<1>1. q \in Nat /\ n * q <= a /\ a < n * q + n /\ n * q \in Nat
  BY DivIsFloor, SMTT(20)
<1> HIDE DEF q
<1>2. r \in 0..(n - 1) /\ a = n * q + r
  BY <1>1
<1> HIDE DEF r
<1>3. a \div n = q /\ a % n = r
  BY <1>1, <1>2, QuotientIs
<1> QED
  BY <1>1, <1>2, <1>3

(* A write that is cut at page ends changes what it is asked to.            *)
LEMMA PagesAreProgrammed ==
  ASSUME Page \in Nat \ {0}, NEW base \in Nat, NEW offset \in Nat, NEW len \in Nat,
         base % Page = 0, len <= Page - (offset % Page)
  PROVE  \A x : x \in Programmed(base + offset, len)
                 <=> \E a \in offset..(offset + len - 1) : x = base + a
<1>1. PICK b \in Nat : base = Page * b
  BY Multiple
<1>2. PICK q \in Nat, r \in 0..(Page - 1) :
        offset = Page * q + r /\ offset \div Page = q /\ offset % Page = r
  BY Split
<1>3. Page * (b + q) = Page * b + Page * q
  BY SMTT(20)
<1>4. Page * b \in Nat /\ Page * q \in Nat
  BY SMTT(20)
<1>5. (base + offset) \div Page = b + q
  <2>1. base + offset = Page * (b + q) + r
    BY <1>1, <1>2, <1>3, <1>4
  <2> QED
    BY <2>1, QuotientIs
<1>6. (b + q) * Page = Page * b + Page * q
  BY <1>3, SMTT(20)
<1>7. ASSUME NEW i \in 0..(len - 1)
      PROVE  ((base + offset) \div Page) * Page + ((base + offset + i) % Page)
               = base + (offset + i)
  <2> DEFINE t == r + i
  <2>1. t \in 0..(Page - 1)
    BY <1>2
  <2>2. base + offset + i = Page * (b + q) + t
    BY <1>1, <1>2, <1>3, <1>4
  <2> HIDE DEF t
  <2>3. (base + offset + i) % Page = t
    <3> DEFINE p == b + q
    <3>1. p \in Nat
      OBVIOUS
    <3> HIDE DEF p
    <3>2. (Page * p + t) % Page = t
      BY <2>1, <3>1, QuotientIs
    <3> QED
      BY <2>2, <3>2 DEF p
  <2> QED
    BY <1>1, <1>2, <1>4, <1>5, <1>6, <2>3 DEF t
<1>8. Programmed(base + offset, len) = {base + (offset + i) : i \in 0..(len - 1)}
  BY <1>7 DEF Programmed
<1>9. ASSUME NEW a \in offset..(offset + len - 1)
      PROVE  \E i \in 0..(len - 1) : base + (offset + i) = base + a
  <2>1. a - offset \in 0..(len - 1) /\ offset + (a - offset) = a
    OBVIOUS
  <2> QED
    BY <2>1
<1>10. ASSUME NEW i \in 0..(len - 1)
       PROVE  \E a \in offset..(offset + len - 1) : base + (offset + i) = base + a
  <2>1. offset + i \in offset..(offset + len - 1)
    OBVIOUS
  <2> QED
    BY <2>1
<1> DEFINE P == {base + (offset + i) : i \in 0..(len - 1)}
           A == {base + a : a \in offset..(offset + len - 1)}
<1>11. ASSUME NEW x \in P PROVE x \in A
  BY <1>10
<1>12. ASSUME NEW x \in A PROVE x \in P
  <2>1. PICK a \in offset..(offset + len - 1) : x = base + a
    OBVIOUS
  <2>2. PICK i \in 0..(len - 1) : base + (offset + i) = base + a
    BY <1>9
  <2> QED
    BY <2>1, <2>2
<1> QED
  BY <1>8, <1>11, <1>12

(* A slot that begins at a sector has its sectors where the device has them. *)
LEMMA SectorsAreErased ==
  ASSUME Sector \in Nat \ {0}, NEW base \in Nat, NEW offset \in Nat, base % Sector = 0
  PROVE  ((base + offset) \div Sector) * Sector = base + (offset \div Sector) * Sector
<1>1. PICK b \in Nat : base = Sector * b
  BY Multiple
<1>2. PICK q \in Nat, r \in 0..(Sector - 1) : offset = Sector * q + r /\ offset \div Sector = q
  BY Split
<1>3. Sector * (b + q) = Sector * b + Sector * q
  BY SMTT(20)
<1>4. Sector * b \in Nat /\ Sector * q \in Nat
  BY SMTT(20)
<1>5. base + offset = Sector * (b + q) + r
  BY <1>1, <1>2, <1>3, <1>4
<1>6. (base + offset) \div Sector = b + q
  BY <1>5, QuotientIs
<1>7. (b + q) * Sector = Sector * b + Sector * q /\ q * Sector = Sector * q
  BY <1>3, SMTT(20)
<1> QED
  BY <1>1, <1>2, <1>6, <1>7

(* A slot that begins at a sector begins at a page.                         *)
LEMMA SectorsHoldPages ==
  ASSUME Page \in Nat \ {0}, Sector \in Nat \ {0}, Sector % Page = 0,
         NEW base \in Nat, base % Sector = 0
  PROVE  base % Page = 0
<1>1. PICK s \in Nat : Sector = Page * s
  BY Multiple
<1>2. PICK b \in Nat : base = Sector * b
  BY Multiple
<1>3. base = Page * (s * b) + 0 /\ s * b \in Nat
  BY <1>1, <1>2, SMTT(20)
<1> QED
  BY <1>3, QuotientIs

-----------------------------------------------------------------------------
(* The flash backend's writes.                                              *)

(* find returns a mapping of the table.                                     *)
LEMMA FindIsInTable ==
  ASSUME NEW t \in SlotTables, NEW slot, NEW offset, NEW len,
         Find(t, slot, offset, len) # 0
  PROVE  Find(t, slot, offset, len) \in DOMAIN t
<1> DEFINE fits == Fits(t, slot, offset, len)
<1>1. fits \subseteq DOMAIN t /\ fits \subseteq Nat
  BY SlotAssumption DEF Fits
<1>2. fits # {} /\ Find(t, slot, offset, len) = CHOOSE k \in fits : \A j \in fits : k <= j
  BY DEF Find
<1> HIDE DEF fits
<1>3. \E k \in fits : \A j \in fits : k <= j
  BY <1>1, <1>2, Smallest
<1>4. (CHOOSE k \in fits : \A j \in fits : k <= j) \in fits
  BY <1>3
<1> QED
  BY <1>1, <1>2, <1>4

\* The addresses of a piece of the slot that the job is about.
Piece(from, to) == {slots[job.map].offset + a : a \in from..(to - 1)}

(* Pieces that meet are one piece.                                          *)
LEMMA PiecesJoin ==
  ASSUME NEW a \in Nat, NEW b \in Nat, NEW c \in Nat, a <= b, b <= c
  PROVE  Piece(a, b) \cup Piece(b, c) = Piece(a, c)
<1>1. a..(c - 1) = (a..(b - 1)) \cup (b..(c - 1))
  OBVIOUS
<1>2. ASSUME NEW x \in Piece(a, c) PROVE x \in Piece(a, b) \cup Piece(b, c)
  BY <1>1 DEF Piece
<1>3. ASSUME NEW x \in Piece(a, b) \cup Piece(b, c) PROVE x \in Piece(a, c)
  <2>1. PICK y \in (a..(b - 1)) \cup (b..(c - 1)) : x = slots[job.map].offset + y
    BY DEF Piece
  <2> QED
    BY <1>1, <2>1 DEF Piece
<1> QED
  BY <1>2, <1>3

Aligned == job.map # 0 /\ slots[job.map].offset % Sector = 0

\* What is written so far is the piece before the write's place, what was asked
\* for goes on from there to its end.
ExactInv ==
  /\ slots \in SlotTables
  /\ job.left \in Nat /\ job.offset \in Nat
  /\ job.map # 0 => job.map \in DOMAIN slots
  /\ job.left > 0 => job.map # 0
  /\ Aligned =>
       \/ job.left = 0 /\ job.done = job.want
       \/ \E start \in 0..job.offset :
            /\ job.done = Piece(start, job.offset)
            /\ job.want = Piece(start, job.offset + job.left)

LEMMA IdleIsExact ==
  ASSUME slots' \in SlotTables, job' = Idle
  PROVE  ExactInv'
  BY DEF ExactInv, Aligned, Idle

LEMMA StartIsExact ==
  ASSUME ExactInv, NEW slot, NEW offset \in 0..(FlashSize - 1), NEW len \in 1..ImageBuf,
         StartWrite(slot, offset, len)
  PROVE  ExactInv'
<1> DEFINE k == Find(slots, slot, offset, len)
<1>1. /\ k # 0 /\ slots' = slots /\ slots \in SlotTables
      /\ job' = [left |-> len, offset |-> offset, map |-> k, done |-> {},
                 want |-> {slots[k].offset + a : a \in offset..(offset + len - 1)}]
  BY DEF StartWrite, Call, Usable, fixed, ExactInv
<1>2. k \in DOMAIN slots
  BY <1>1, FindIsInTable
<1> HIDE DEF k
<1>3. offset \in Nat /\ len \in Nat
  BY GeometryAssumption
<1>4. Piece(offset, offset)' = {} /\ job.done' = {}
  BY <1>1, <1>3 DEF Piece
<1>5. Piece(offset, offset + len)' = job.want'
  BY <1>1 DEF Piece
<1>6. /\ job'.left = len /\ job'.offset = offset /\ job'.map = k
  BY <1>1
<1>7. offset \in 0..offset
  BY <1>3
<1> QED
  BY <1>1, <1>2, <1>3, <1>4, <1>5, <1>6, <1>7 DEF ExactInv, Aligned, Piece

LEMMA EraseIsExact ==
  ASSUME ExactInv, NEW slot, NEW offset \in 0..(FlashSize - 1),
         EraseSector(slot, offset)
  PROVE  ExactInv'
<1> DEFINE k == Find(slots, slot, offset, Sector)
           base == slots[k].offset
           first == base + (offset \div Sector) * Sector
<1>1. /\ k # 0 /\ slots' = slots /\ slots \in SlotTables
      /\ job' = [Idle EXCEPT !.map = k, !.done = Erased(base + offset),
                             !.want = first..(first + Sector - 1)]
  BY DEF EraseSector, Call, Usable, fixed, ExactInv
<1>2. k \in DOMAIN slots
  BY <1>1, FindIsInTable
<1>3. base \in Nat
  BY <1>1, <1>2, SlotAssumption
<1>4. base % Sector = 0 => Erased(base + offset) = first..(first + Sector - 1)
  <2>1. offset \in Nat /\ Sector \in Nat \ {0}
    BY GeometryAssumption, PagesAssumption
  <2>2. base % Sector = 0 => ((base + offset) \div Sector) * Sector = first
    <3> HIDE DEF base
    <3> QED
      BY <1>3, <2>1, SectorsAreErased
  <2> QED
    BY <2>2 DEF Erased
<1> HIDE DEF first
<1>5. /\ job'.left = 0 /\ job'.offset = 0 /\ job'.map = k
      /\ job'.done = Erased(base + offset) /\ job'.want = first..(first + Sector - 1)
  BY <1>1 DEF Idle
<1> QED
  BY <1>1, <1>2, <1>4, <1>5 DEF ExactInv, Aligned

LEMMA PageIsExact ==
  ASSUME ExactInv, WritePage
  PROVE  ExactInv'
<1> DEFINE len == ChunkLen(job.offset, job.left)
           base == slots[job.map].offset
           programmed == Programmed(base + job.offset, len)
<1>1. /\ job.left > 0 /\ slots' = slots /\ slots \in SlotTables
      /\ job' = [job EXCEPT !.left = @ - len, !.offset = @ + len,
                            !.done = @ \cup programmed]
  BY DEF WritePage, fixed, ExactInv
<1> HIDE DEF programmed
<1>2. job.left \in Nat /\ job.offset \in Nat /\ job.map # 0 /\ job.map \in DOMAIN slots
  BY <1>1 DEF ExactInv
<1>3. base \in Nat
  BY <1>1, <1>2, SlotAssumption
<1>4. len \in Nat /\ len <= job.left /\ len <= Page - (job.offset % Page)
  <2>1. job.offset % Page \in 0..(Page - 1)
    BY <1>2, PagesAssumption, SMTT(20)
  <2> QED
    BY <1>2, <2>1, PagesAssumption DEF ChunkLen
<1> HIDE DEF len
<1>5. /\ job'.left = job.left - len /\ job'.offset = job.offset + len
      /\ job'.map = job.map /\ job'.want = job.want
      /\ job'.done = job.done \cup programmed
  BY <1>1
<1>6. /\ job'.left \in Nat /\ job'.offset \in Nat
      /\ job'.offset + job'.left = job.offset + job.left
  BY <1>2, <1>4, <1>5
<1>7. ASSUME Aligned PROVE Aligned' => \E start \in 0..(job.offset)' :
                             /\ job'.done = Piece(start, job.offset)'
                             /\ job'.want = Piece(start, job.offset + job.left)'
  <2>1. PICK start \in 0..job.offset :
          /\ job.done = Piece(start, job.offset)
          /\ job.want = Piece(start, job.offset + job.left)
    BY <1>1, <1>7 DEF ExactInv
  <2>2. base % Page = 0
    BY <1>3, <1>7, PagesAssumption, SectorsHoldPages DEF Aligned
  <2>3. programmed = Piece(job.offset, job.offset + len)
    <3> HIDE DEF base
    <3>1. \A x : x \in programmed
                   <=> \E a \in job.offset..(job.offset + len - 1) : x = base + a
      <4> DEFINE offset == job.offset
      <4>1. offset \in Nat /\ len <= Page - (offset % Page) /\ Page \in Nat \ {0}
        BY <1>2, <1>4, PagesAssumption
      <4> HIDE DEF offset
      <4>2. \A b \in Nat, n \in Nat :
               b % Page = 0 /\ n <= Page - (offset % Page)
                 => \A x : x \in Programmed(b + offset, n)
                            <=> \E a \in offset..(offset + n - 1) : x = b + a
        BY <4>1, PagesAreProgrammed
      <4>3. \A x : x \in Programmed(base + offset, len)
                     <=> \E a \in offset..(offset + len - 1) : x = base + a
        BY <1>3, <1>4, <2>2, <4>1, <4>2
      <4> QED
        BY <4>3 DEF offset, programmed
    <3>2. ASSUME NEW x \in programmed PROVE x \in Piece(job.offset, job.offset + len)
      <4>1. PICK a \in job.offset..(job.offset + len - 1) : x = base + a
        BY <3>1
      <4> QED
        BY <1>2, <1>3, <1>4, <4>1 DEF Piece, base
    <3>3. ASSUME NEW x \in Piece(job.offset, job.offset + len) PROVE x \in programmed
      <4>1. PICK a \in job.offset..(job.offset + len - 1) : x = base + a
        BY <1>2, <1>3, <1>4 DEF Piece, base
      <4> QED
        BY <3>1, <4>1
    <3> QED
      BY <3>2, <3>3
  <2>4. Piece(start, job.offset) \cup Piece(job.offset, job.offset + len)
          = Piece(start, job.offset + len)
    BY <1>2, <1>4, <2>1, PiecesJoin
  <2>5. start \in 0..(job.offset + len)
    BY <1>2, <1>4, <2>1
  <2>6. \A to : Piece(start, to)' = Piece(start, to)
    BY <1>1, <1>5 DEF Piece
  <2> QED
    BY <1>5, <1>6, <2>1, <2>3, <2>4, <2>5, <2>6 DEF Piece
<1>8. Aligned' => Aligned
  BY <1>1, <1>5 DEF Aligned
<1> QED
  BY <1>1, <1>2, <1>5, <1>6, <1>7, <1>8 DEF ExactInv

LEMMA ExactNext == ExactInv /\ [Next]_flashVars => ExactInv'
<1> SUFFICES ASSUME ExactInv, [Next]_flashVars PROVE ExactInv'
  OBVIOUS
<1>1. CASE UNCHANGED <<slots, job>>
  BY <1>1 DEF ExactInv, Aligned, Piece
<1>2. CASE FlashBackend
  <2>1. slots' = slots /\ slots \in SlotTables
    BY <1>2 DEF FlashBackend, StartWrite, EraseSector, Call, WritePage, WriteFails, fixed,
                ExactInv
  <2>2. WriteFails => job' = Idle
    BY DEF WriteFails
  <2> QED
    BY <1>2, <2>1, <2>2, StartIsExact, EraseIsExact, PageIsExact, IdleIsExact
    DEF FlashBackend
<1>3. CASE MainTask \/ TargetCommand \/ Alarm \/ UNCHANGED flashVars
  <2>1. UNCHANGED <<slots, job>>
    BY <1>3 DEF MainTask, Receive, ReadImage, Digest, Signature, ResetFilter, ProgramFilter,
                HandOver, Raise, TargetCommand, Alarm, flashVars, fixed, writer
  <2> QED
    BY <2>1, <1>1
<1> QED
  BY <1>2, <1>3 DEF Next

(* A write through the backend changes what it was asked to change, page by *)
(* page and on the way too, and an erase its sector: for every page and     *)
(* sector size and every slot that begins at a sector.                      *)
THEOREM BackendStaysExact == Spec => []BackendIsExact
<1>1. Init => ExactInv
  BY IdleIsExact DEF Init, ExactInv, Aligned, Idle
<1>2. ExactInv => BackendIsExact
  <2> SUFFICES ASSUME ExactInv, Aligned
               PROVE  job.done \subseteq job.want /\ (job.left = 0 => job.done = job.want)
    BY DEF BackendIsExact, Aligned
  <2>1. CASE job.left = 0 /\ job.done = job.want
    BY <2>1
  <2>2. CASE \E start \in 0..job.offset :
               /\ job.done = Piece(start, job.offset)
               /\ job.want = Piece(start, job.offset + job.left)
    <3>1. PICK start \in 0..job.offset :
               /\ job.done = Piece(start, job.offset)
               /\ job.want = Piece(start, job.offset + job.left)
      BY <2>2
    <3>2. job.done \cup Piece(job.offset, job.offset + job.left) = job.want
      BY <3>1, PiecesJoin DEF ExactInv
    <3>3. job.left = 0 => job.offset + job.left = job.offset
      BY DEF ExactInv
    <3> QED
      BY <3>1, <3>2, <3>3
  <2> QED
    BY <2>1, <2>2 DEF ExactInv
<1> QED
  BY <1>1, <1>2, ExactNext, PTL DEF Spec

-----------------------------------------------------------------------------
(* Types: nothing leaves its range, neither the queue of events, which every *)
(* alarm makes longer by one, nor a job, which the slot keeps in its device. *)

\* Busy main_task holds the event it works on.
Busy == task # "receive"
RangeInv ==
  /\ TypeOK
  /\ Len(events) + (IF Busy THEN 1 ELSE 0) <= 1 + alarms
  /\ Verifying => image >= 1
  /\ job.offset \in Nat

LEMMA ReasonIsTyped ==
  ASSUME NEW s, NEW e \in Event, NEW r \in RecoveryReason \cup {"None"}
  PROVE  NextReason(s, r, e) \in RecoveryReason \cup {"None"}
  BY DEF NextReason, RecoveryReason

\* The table of a policy has the blocks of the hardware's and no others.
LEMMA PolicyIsTyped ==
  ASSUME NEW m
  PROVE  /\ Policy(m).provisioned \in BOOLEAN
         /\ Policy(m).write_disable \subseteq 0..(TableBlocks - 1)
<1>1. \A offset, size : ProtectRange(offset, size) \subseteq 0..(TableBlocks - 1)
  BY DEF ProtectRange
<1>2. FromManifest(m).write_disable \subseteq 0..(TableBlocks - 1)
  BY <1>1 DEF FromManifest
<1> QED
  BY <1>2 DEF Policy, FromManifest, Unprovisioned

\* A range that find accepts lies in the device.
LEMMA UsableIsInDevice ==
  ASSUME NEW t \in SlotTables, NEW slot, NEW offset \in Nat, NEW len \in Nat,
         Usable(t, slot, offset, len)
  PROVE  LET k == Find(t, slot, offset, len)
         IN /\ k \in DOMAIN t /\ k \in 0..Len(t)
            /\ t[k].offset \in Nat /\ t[k].offset + offset + len <= FlashSize
<1> DEFINE fits == Fits(t, slot, offset, len)
           k == Find(t, slot, offset, len)
<1>1. k \in DOMAIN t
  BY FindIsInTable DEF Usable
<1>2. k \in fits
  <2>1. fits \subseteq DOMAIN t /\ fits \subseteq Nat
    BY SlotAssumption DEF Fits
  <2>2. fits # {} /\ k = CHOOSE j \in fits : \A i \in fits : j <= i
    BY DEF Find, Usable
  <2> HIDE DEF fits, k
  <2>3. \E j \in fits : \A i \in fits : j <= i
    BY <2>1, <2>2, Smallest
  <2> QED
    BY <2>2, <2>3
<1>3. offset + len <= t[k].size
  BY <1>2 DEF Fits
<1> HIDE DEF k
<1>4. /\ k \in 1..Len(t) /\ Len(t) \in Nat
      /\ t[k].offset \in Nat /\ t[k].size \in Nat /\ t[k].offset + t[k].size <= FlashSize
  BY <1>1, SlotAssumption, DeviceAssumption
<1>5. t[k].offset + offset + len <= FlashSize
  BY <1>3, <1>4, GeometryAssumption
<1> QED
  BY <1>1, <1>4, <1>5 DEF k

LEMMA RangeInit == Init => RangeInv
<1> SUFFICES ASSUME Init PROVE RangeInv
  OBVIOUS
<1>1. events \in Seq(Event) /\ Len(events) = 1
  BY DEF Init, Event
<1>2. Len(manifest.images) \in Nat /\ Len(slots) \in Nat
  BY ManifestAssumption, DeviceAssumption DEF Init
<1>3. job.left \in 0..FlashSize /\ job.map \in 0..Len(slots) /\ job.want = {}
      /\ job.offset \in Nat
  BY <1>2, GeometryAssumption DEF Init, Idle
<1>4. MachineTypeOK
  BY DEF Init, MachineInit, MachineTypeOK, State
<1>5. /\ image \in 0..Len(manifest.images) /\ good \subseteq ImageCells
      /\ alarms \in 0..MaxAlarms /\ writes \in 0..MaxWrites /\ Len(events) <= 1 + MaxAlarms
      /\ task \in TaskState /\ table \subseteq 0..(TableBlocks - 1)
  BY <1>1, <1>2, BoundAssumption DEF Init, TaskState
<1>6. job.want \subseteq 0..(FlashSize - 1)
  BY <1>3
<1>7. TypeOK
  BY <1>1, <1>3, <1>4, <1>5, <1>6 DEF Init, TypeOK
<1> QED
  BY <1>1, <1>3, <1>7 DEF Init, RangeInv, Busy, Verifying

LEMMA BackendRange ==
  ASSUME RangeInv, FlashBackend
  PROVE  RangeInv'
<1>0. /\ MachineTypeOK /\ manifest \in Manifests /\ slots \in SlotTables
      /\ good \subseteq ImageCells /\ writes \in 0..MaxWrites
      /\ job.left \in 0..FlashSize /\ job.map \in 0..Len(slots)
      /\ job.want \subseteq 0..(FlashSize - 1) /\ job.offset \in Nat
  BY DEF RangeInv, TypeOK
<1>1. UNCHANGED <<machineVars, fixed, events, task, verifier, mux, running, monitor,
                  alarms, bare>>
  BY DEF FlashBackend, StartWrite, EraseSector, Call, WritePage, WriteFails
<1>2. /\ ImageCells' = ImageCells
      /\ UNCHANGED <<state, recovery_reason, manifest, slots, events, task, image, genuine,
                     mux, running, enabled, table, alarms, bare>>
  BY <1>1 DEF machineVars, fixed, verifier, monitor, ImageCells, CellsOf, Mapping
<1>3. /\ MachineTypeOK' /\ (Verifying => image >= 1)'
      /\ (Len(events) + (IF Busy THEN 1 ELSE 0) <= 1 + alarms)'
  BY <1>2 DEF RangeInv, TypeOK, MachineTypeOK, Verifying, Busy
<1>4. SUFFICES /\ good' \subseteq ImageCells /\ writes' \in 0..MaxWrites
               /\ job'.left \in 0..FlashSize /\ job'.map \in 0..Len(slots)
               /\ job'.want \subseteq 0..(FlashSize - 1) /\ job'.offset \in Nat
  BY <1>2, <1>3 DEF RangeInv, TypeOK
<1>5. Len(slots) \in Nat
  BY <1>0, DeviceAssumption
<1>6. job' = Idle => /\ job'.left \in 0..FlashSize /\ job'.map \in 0..Len(slots)
                     /\ job'.want \subseteq 0..(FlashSize - 1) /\ job'.offset \in Nat
  BY <1>5, GeometryAssumption DEF Idle
<1>7. \A slot, offset, len : Call(slot, offset, len) => writes' \in 0..MaxWrites
  BY <1>0, BoundAssumption DEF Call
<1>8. ASSUME NEW slot, NEW offset \in 0..(FlashSize - 1), NEW len \in 1..ImageBuf,
             StartWrite(slot, offset, len)
      PROVE  /\ good' \subseteq ImageCells /\ writes' \in 0..MaxWrites
             /\ job'.left \in 0..FlashSize /\ job'.map \in 0..Len(slots)
             /\ job'.want \subseteq 0..(FlashSize - 1) /\ job'.offset \in Nat
  <2> DEFINE k == Find(slots, slot, offset, len)
             base == slots[k].offset
  <2>1. /\ Usable(slots, slot, offset, len) /\ good' = good
        /\ job' = [left |-> len, offset |-> offset, map |-> k, done |-> {},
                   want |-> {base + a : a \in offset..(offset + len - 1)}]
    BY <1>8 DEF StartWrite, Call
  <2>2. offset \in Nat /\ len \in Nat
    BY GeometryAssumption
  <2>3. /\ k \in 0..Len(slots)
        /\ base \in Nat /\ base + offset + len <= FlashSize
    BY <1>0, <2>1, <2>2, UsableIsInDevice
  <2> HIDE DEF k, base
  <2>4. {base + a : a \in offset..(offset + len - 1)} \subseteq 0..(FlashSize - 1)
    BY <2>2, <2>3, GeometryAssumption
  <2>5. len \in 0..FlashSize
    BY <2>2, <2>3, GeometryAssumption
  <2>6. writes' \in 0..MaxWrites
    BY <1>7, <1>8 DEF StartWrite
  <2> QED
    BY <1>0, <2>1, <2>2, <2>3, <2>4, <2>5, <2>6
<1>9. ASSUME NEW slot, NEW offset \in 0..(FlashSize - 1), EraseSector(slot, offset)
      PROVE  /\ good' \subseteq ImageCells /\ writes' \in 0..MaxWrites
             /\ job'.left \in 0..FlashSize /\ job'.map \in 0..Len(slots)
             /\ job'.want \subseteq 0..(FlashSize - 1) /\ job'.offset \in Nat
  <2> DEFINE k == Find(slots, slot, offset, Sector)
             base == slots[k].offset
             down == (offset \div Sector) * Sector
             first == base + down
  <2>1. /\ Usable(slots, slot, offset, Sector) /\ good' \subseteq good
        /\ \E cleared : job' = [Idle EXCEPT !.map = k, !.done = cleared,
                                            !.want = first..(first + Sector - 1)]
    BY <1>9 DEF EraseSector, Call
  <2>2. offset \in Nat /\ Sector \in Nat \ {0}
    BY GeometryAssumption, PagesAssumption
  <2>3. /\ k \in 0..Len(slots)
        /\ base \in Nat /\ base + offset + Sector <= FlashSize
    BY <1>0, <2>1, <2>2, UsableIsInDevice
  <2>4. down \in Nat /\ down <= offset
    <3> DEFINE q == offset \div Sector
    <3>1. q \in Nat /\ Sector * q <= offset
      BY <2>2, DivIsFloor
    <3> HIDE DEF q
    <3>2. Sector * q = q * Sector /\ q * Sector \in Nat
      BY <2>2, <3>1, SMTT(20)
    <3> QED
      BY <3>1, <3>2 DEF q
  <2>5. first..(first + Sector - 1) \subseteq 0..(FlashSize - 1)
    <3> HIDE DEF base, down
    <3>1. first \in Nat /\ first + Sector <= FlashSize
      BY <2>2, <2>3, <2>4, GeometryAssumption
    <3> HIDE DEF first
    <3> QED
      BY <2>2, <3>1, GeometryAssumption
  <2> HIDE DEF k, first, base
  <2>6. /\ job'.left = 0 /\ job'.offset = 0 /\ job'.map = k
        /\ job'.want = first..(first + Sector - 1)
    BY <2>1 DEF Idle
  <2>7. writes' \in 0..MaxWrites
    BY <1>7, <1>9 DEF EraseSector
  <2> QED
    BY <1>0, <2>1, <2>3, <2>5, <2>6, <2>7, GeometryAssumption
<1>10. CASE WritePage
  <2> DEFINE len == ChunkLen(job.offset, job.left)
  <2>1. \E programmed : job' = [job EXCEPT !.left = @ - len, !.offset = @ + len,
                                           !.done = @ \cup programmed]
    BY <1>10 DEF WritePage
  <2>2. len \in Nat /\ len <= job.left
    <3>1. job.offset % Page \in 0..(Page - 1)
      BY <1>0, PagesAssumption, SMTT(20)
    <3> QED
      BY <1>0, <1>10, <3>1, PagesAssumption, GeometryAssumption DEF WritePage, ChunkLen
  <2> HIDE DEF len
  <2>3. /\ job'.left = job.left - len /\ job'.offset = job.offset + len
        /\ job'.map = job.map /\ job'.want = job.want
    BY <2>1
  <2>4. good' \subseteq ImageCells /\ writes' = writes
    BY <1>0, <1>10 DEF WritePage
  <2>5. job'.left \in 0..FlashSize /\ job'.offset \in Nat
    BY <1>0, <2>2, <2>3, GeometryAssumption
  <2> QED
    BY <1>0, <2>3, <2>4, <2>5
<1>11. CASE WriteFails
  BY <1>0, <1>6, <1>11 DEF WriteFails
<1> QED
  BY <1>8, <1>9, <1>10, <1>11 DEF FlashBackend

\* What an event starts: the machine moves, the queue gives up the event and
\* may take a report.
LEMMA ReceiveRange ==
  ASSUME RangeInv, Receive
  PROVE  RangeInv'
<1> DEFINE e == Head(events)
           action == ActionFor(state, e)
<1>1. /\ events \in Seq(Event) /\ events # <<>> /\ e \in Event
      /\ state \in State /\ recovery_reason \in RecoveryReason \cup {"None"}
      /\ task = "receive" /\ Len(events) <= 1 + alarms
  BY DEF Receive, RangeInv, TypeOK, MachineTypeOK, Busy
<1>2. MachineTypeOK'
  <2>1. NextState(state, e) \in State
        /\ NextReason(state, recovery_reason, e) \in RecoveryReason \cup {"None"}
    BY <1>1, MachineMoves, ReasonIsTyped
  <2> QED
    BY <2>1 DEF Receive, StepRecord, MachineTypeOK
<1>3. Tail(events) \in Seq(Event) /\ Len(Tail(events)) = Len(events) - 1
  BY <1>1
<1>4. \A x \in Event \cup {"None"} :
        /\ Send(Tail(events), x) \in Seq(Event)
        /\ Len(Send(Tail(events), x)) <= Len(events)
  BY <1>1, <1>3 DEF Send
<1>5. SuccessEvent(action) \in Event \cup {"None"}
  BY <1>1, MachineMoves
<1> HIDE DEF e, action
<1>6. /\ events' \in Seq(Event)
      /\ Len(events') + (IF task' # "receive" THEN 1 ELSE 0) <= Len(events)
      /\ task' \in {"receive", "verify", "reset_filter"}
      /\ task' = "verify" => image' = 1 /\ manifest.images # <<>>
      /\ task' # "verify" => image' = image
      /\ mux' \in {"rot", "target"} /\ running' \in BOOLEAN
  <2>1. \/ /\ task' = "receive" /\ image' = image
           /\ \E x \in {"VerificationFailed", SuccessEvent(action)} :
                events' = Send(Tail(events), x)
        \/ task' = "verify" /\ image' = 1 /\ manifest.images # <<>> /\ events' = Tail(events)
        \/ task' = "reset_filter" /\ image' = image /\ events' = Tail(events)
    BY <1>1, Zenon DEF Receive, Send, e, action
  <2>2. "VerificationFailed" \in Event
    BY DEF Event, RecoveryTriggers
  <2>3. mux' \in {"rot", "target"} /\ running' \in BOOLEAN
    BY DEF Receive, RangeInv, TypeOK
  <2>4. CASE task' = "receive" /\ \E x \in Event \cup {"None"} : events' = Send(Tail(events), x)
    <3>1. events' \in Seq(Event) /\ Len(events') <= Len(events)
      BY <1>4, <2>4
    <3> QED
      BY <1>1, <2>1, <2>3, <2>4, <3>1
  <2>5. CASE task' # "receive" /\ events' = Tail(events)
    BY <1>1, <1>3, <2>1, <2>3, <2>5
  <2> QED
    BY <1>5, <2>1, <2>2, <2>4, <2>5
<1>7. UNCHANGED <<manifest, slots, genuine, enabled, table, good, job, writes, alarms, bare>>
  BY DEF Receive, fixed, monitor, writer
<1>8. /\ Len(manifest.images) \in Nat
      /\ manifest.images # <<>> => Len(manifest.images) > 0
      /\ image \in 0..Len(manifest.images) /\ alarms \in 0..MaxAlarms
  BY ManifestAssumption DEF RangeInv, TypeOK
<1>9. image' \in 0..Len(manifest.images) /\ (task' = "verify" => image' >= 1)
  BY <1>6, <1>8
<1>10. Len(events') \in Nat /\ Len(events) \in Nat
  BY <1>1, <1>6
<1>11. Len(events') <= 1 + MaxAlarms
       /\ Len(events') + (IF task' # "receive" THEN 1 ELSE 0) <= 1 + alarms
  BY <1>1, <1>6, <1>8, <1>10, BoundAssumption
<1>12. ImageCells' = ImageCells
  BY <1>7 DEF ImageCells, CellsOf, Mapping
<1>13. TypeOK'
  BY <1>2, <1>6, <1>7, <1>9, <1>11, <1>12 DEF RangeInv, TypeOK, TaskState
<1> QED
  BY <1>6, <1>7, <1>9, <1>11, <1>13 DEF RangeInv, Busy, Verifying

\* A task that ends reports at most one event in the place of the one it took.
LEMMA TaskRange ==
  ASSUME RangeInv, MainTask, task # "receive"
  PROVE  RangeInv'
<1>1. /\ UNCHANGED <<state, recovery_reason, manifest, slots, good, job, writes, alarms>>
      /\ task' \in TaskState /\ mux' \in {"rot", "target"}
      /\ running' \in BOOLEAN /\ genuine' \in BOOLEAN /\ bare' \in BOOLEAN
  BY DEF MainTask, Receive, ReadImage, Digest, Signature, VerificationEnds, ResetFilter,
         ProgramFilter, HandOver, Raise, machineVars, fixed, verifier, monitor, writer,
         RangeInv, TypeOK, TaskState
<1>2. enabled' \in BOOLEAN /\ table' \subseteq 0..(TableBlocks - 1)
  <2>1. CASE ProgramFilter
    BY <2>1, PolicyIsTyped DEF ProgramFilter
  <2> QED
    BY <2>1 DEF MainTask, Receive, ReadImage, Digest, Signature, ResetFilter, HandOver,
                Raise, monitor, RangeInv, TypeOK
<1>3. /\ Len(manifest.images) \in Nat
      /\ image \in 0..Len(manifest.images) /\ alarms \in 0..MaxAlarms
  BY ManifestAssumption DEF RangeInv, TypeOK
<1>4. image' \in 0..Len(manifest.images) /\ (Verifying' => image' >= 1)
  <2>1. \/ UNCHANGED image /\ Verifying
        \/ image' = 0 /\ task' = "receive"
        \/ image < Len(manifest.images) /\ image' = image + 1
        \/ UNCHANGED image /\ ~Verifying'
    BY DEF MainTask, Receive, ReadImage, Digest, Signature, VerificationEnds, ResetFilter,
           ProgramFilter, HandOver, Raise, verifier, Verifying
  <2> QED
    BY <1>3, <2>1 DEF RangeInv, Verifying
<1>5. events \in Seq(Event) /\ Len(events) + 1 <= 1 + alarms
  BY DEF RangeInv, TypeOK, Busy
<1>6. \/ events' = events
      \/ task' = "receive" /\ \E x \in Event : events' = Append(events, x)
  <2>1. {"VerificationFailed", "VerificationPassed", "ReleaseComplete"} \subseteq Event
    BY DEF Event, SuccessEvents, RecoveryTriggers
  <2>2. Send(events, SuccessEvent("ReleasePlatform")) = Append(events, "ReleaseComplete")
    BY DEF Send, SuccessEvent
  <2> QED
    BY <2>1, <2>2
    DEF MainTask, Receive, ReadImage, Digest, Signature, VerificationEnds, ResetFilter,
        ProgramFilter, HandOver, Raise
<1>7. /\ events' \in Seq(Event) /\ Len(events') <= 1 + MaxAlarms
      /\ Len(events') + (IF task' # "receive" THEN 1 ELSE 0) <= 1 + alarms
  <2>1. CASE events' = events
    BY <1>3, <1>5, <2>1, BoundAssumption
  <2>2. CASE task' = "receive" /\ \E x \in Event : events' = Append(events, x)
    <3>1. events' \in Seq(Event) /\ Len(events') = Len(events) + 1
      BY <1>5, <2>2
    <3> QED
      BY <1>3, <1>5, <2>2, <3>1, BoundAssumption
  <2> QED
    BY <1>6, <2>1, <2>2
<1>8. ImageCells' = ImageCells
  BY <1>1 DEF ImageCells, CellsOf, Mapping
<1>9. TypeOK'
  BY <1>1, <1>2, <1>4, <1>7, <1>8 DEF RangeInv, TypeOK, MachineTypeOK
<1> QED
  BY <1>1, <1>4, <1>7, <1>9 DEF RangeInv, Busy

LEMMA OthersRange ==
  ASSUME RangeInv, TargetCommand \/ Alarm \/ UNCHANGED flashVars
  PROVE  RangeInv'
<1>1. /\ UNCHANGED <<state, recovery_reason, manifest, slots, task, image, genuine, mux,
                     running, enabled, table, job, writes, bare>>
      /\ good' \subseteq good
  BY DEF TargetCommand, Alarm, flashVars, machineVars, fixed, verifier, monitor, writer
<1>2. ImageCells' = ImageCells
  BY <1>1 DEF ImageCells, CellsOf, Mapping
<1>3. /\ events \in Seq(Event) /\ Len(events) + (IF task # "receive" THEN 1 ELSE 0) <= 1 + alarms
      /\ alarms \in 0..MaxAlarms /\ Len(events) <= 1 + MaxAlarms
  BY DEF RangeInv, TypeOK, Busy
<1>4. /\ events' \in Seq(Event) /\ Len(events') <= 1 + MaxAlarms
      /\ Len(events') + (IF task # "receive" THEN 1 ELSE 0) <= 1 + alarms'
      /\ alarms' \in 0..MaxAlarms
  <2>1. CASE UNCHANGED <<events, alarms>>
    BY <1>3, <2>1
  <2>2. CASE Alarm
    <3>1. \E x \in Event : events' = Append(events, x)
      BY <2>2 DEF Alarm, Event, RecoveryTriggers
    <3>2. events' \in Seq(Event) /\ Len(events') = Len(events) + 1 /\ Len(events) \in Nat
      BY <1>3, <3>1
    <3>3. alarms' = alarms + 1 /\ alarms < MaxAlarms
      BY <2>2 DEF Alarm
    <3> QED
      BY <1>3, <3>2, <3>3, BoundAssumption
  <2> QED
    BY <2>1, <2>2 DEF TargetCommand, flashVars
<1>5. TypeOK'
  BY <1>1, <1>2, <1>4 DEF RangeInv, TypeOK, MachineTypeOK
<1> QED
  BY <1>1, <1>4, <1>5 DEF RangeInv, Busy, Verifying

(* Every variable keeps to its range, for every manifest, every slot table  *)
(* that lies in its devices and any number of alarms: events wait one for   *)
(* the boot and one for each alarm at most, whatever main_task reports, and *)
(* no write or erase asks for a byte outside the device.                    *)
THEOREM FlashTypeCorrect == Spec => []TypeOK
<1>1. RangeInv /\ [Next]_flashVars => RangeInv'
  <2> SUFFICES ASSUME RangeInv, [Next]_flashVars PROVE RangeInv'
    OBVIOUS
  <2>1. CASE MainTask
    <3>1. CASE task = "receive"
      <4>1. Receive
        BY <2>1, <3>1 DEF MainTask, ReadImage, Digest, Signature, ResetFilter, ProgramFilter,
                          HandOver, Raise
      <4> QED
        BY <4>1, ReceiveRange
    <3> QED
      BY <2>1, <3>1, TaskRange
  <2> QED
    BY <2>1, BackendRange, OthersRange DEF Next
<1>2. RangeInv => TypeOK
  BY DEF RangeInv
<1> QED
  BY <1>1, <1>2, RangeInit, PTL DEF Spec

-----------------------------------------------------------------------------
(* Provisioning, for every counter width, sequence of commands, order of    *)
(* burn and write, failure and power loss.  The invariant says what each    *)
(* step of the caller knows: memory and storage agree but for the moment    *)
(* between Store and Commit, and what is about to be stored is what apply   *)
(* made of them.  A lock is burned only for a state that may be locked.     *)

InStep ==
  /\ "commit" \notin todo => live = stored
  /\ "commit" \in todo => stored = pending
  /\ "store" \in todo => /\ "commit" \notin todo
                         /\ Allowed(live, cmd) /\ pending = Applied(live, cmd)
  /\ "hardware" \in todo /\ cmd = "LockProvisioning" => IsProvisioned(stored)

ProvisionInv == ProvisionTypeOK /\ InStep /\ LockedIsProvisioned

\* apply returns a state, one that is provisioned if it is locked or was
\* provisioned before.
LEMMA AppliedIsSound ==
  ASSUME NEW s \in ProvisionState, NEW c \in ProvisionCommands, Allowed(s, c),
         s.locked => IsProvisioned(s)
  PROVE  /\ Applied(s, c) \in ProvisionState
         /\ Applied(s, c).locked => IsProvisioned(Applied(s, c))
         /\ IsProvisioned(s) => IsProvisioned(Applied(s, c))
  <1>1. CASE c = "WriteRootKey"
    BY <1>1 DEF Applied, ProvisionState, IsProvisioned, Allowed, ReadOnlyCommands
  <1>2. CASE c = "DeployManifest"
    BY <1>2 DEF Applied, ProvisionState, IsProvisioned, Allowed, ReadOnlyCommands
  <1>3. CASE c = "SetPlatformDescriptor"
    BY <1>3 DEF Applied, ProvisionState, IsProvisioned, Allowed, ReadOnlyCommands
  <1>4. CASE c = "BurnAntiRollback"
    BY <1>4 DEF Applied, ProvisionState, IsProvisioned, Allowed, ReadOnlyCommands, Burn
  <1>5. CASE c = "LockProvisioning"
    BY <1>5 DEF Applied, ProvisionState, IsProvisioned, Allowed, ReadOnlyCommands
  <1>6. CASE c \in ReadOnlyCommands
    BY <1>6 DEF Applied, ReadOnlyCommands
  <1> QED  BY <1>1, <1>2, <1>3, <1>4, <1>5, <1>6 DEF ProvisionCommands

LEMMA ProvisionInitInv == ProvisionInit => ProvisionInv
  BY DEF ProvisionInit, ProvisionInv, ProvisionTypeOK, InStep, LockedIsProvisioned, New,
         ProvisionState, IsProvisioned, ProvisionCommands, ReadOnlyCommands, Operations

LEMMA ProvisionNextInv == ProvisionInv /\ [ProvisionNext]_provisionVars => ProvisionInv'
  <1> SUFFICES ASSUME ProvisionInv, [ProvisionNext]_provisionVars PROVE ProvisionInv'
    OBVIOUS
  <1> USE DEF ProvisionInv
  <1>1. ASSUME NEW c \in ProvisionCommands, Command(c) PROVE ProvisionInv'
    <2>1. Applied(live, c) \in ProvisionState
      BY <1>1, AppliedIsSound DEF Command, ProvisionTypeOK, LockedIsProvisioned
    <2>2. ProvisionTypeOK'
      BY <1>1, <2>1 DEF Command, ProvisionTypeOK, Operations
    <2>3. live = stored /\ Allowed(live, c)
      BY <1>1 DEF Command, InStep
    <2>4. c = "LockProvisioning" => IsProvisioned(stored)
      <3>1. c = "LockProvisioning" => c \notin ReadOnlyCommands
        BY DEF ReadOnlyCommands
      <3> QED  BY <2>3, <3>1 DEF Allowed
    <2>5. InStep'
      <3>1. Allowed(live', cmd') /\ pending' = Applied(live', cmd')
        <4>1. live' = live /\ cmd' = c /\ pending' = Applied(live, c)
          BY <1>1 DEF Command
        <4> QED  BY <2>3, <4>1
      <3>2. IsProvisioned(stored)' <=> IsProvisioned(stored)
        BY <1>1 DEF Command, IsProvisioned
      <3> QED  BY <1>1, <2>3, <2>4, <3>1, <3>2 DEF Command, InStep
    <2> QED  BY <1>1, <2>2, <2>5 DEF Command, LockedIsProvisioned, IsProvisioned
  <1>2. CASE Hardware
    <2>1. otp' \in [root_key : BOOLEAN, svn : Nat, locked : BOOLEAN]
      BY <1>2 DEF Hardware, ProvisionTypeOK, Burn
    <2>2. ProvisionTypeOK'
      BY <1>2, <2>1 DEF Hardware, ProvisionTypeOK
    <2>3. InStep'
      BY <1>2 DEF Hardware, InStep, IsProvisioned, Allowed, Applied, Burn
    <2>4. otp'.locked => otp.locked \/ cmd = "LockProvisioning"
      BY <1>2 DEF Hardware
    <2>5. otp'.locked => IsProvisioned(stored)
      BY <1>2, <2>4 DEF Hardware, InStep, LockedIsProvisioned
    <2> QED  BY <1>2, <2>2, <2>3, <2>5 DEF Hardware, LockedIsProvisioned, IsProvisioned
  <1>3. CASE Store
    <2>1. live = stored /\ Allowed(live, cmd) /\ pending = Applied(live, cmd)
      BY <1>3 DEF Store, InStep
    <2>2. /\ pending.locked => IsProvisioned(pending)
          /\ IsProvisioned(stored) => IsProvisioned(pending)
      BY <2>1, AppliedIsSound DEF ProvisionTypeOK, LockedIsProvisioned
    <2>3. ProvisionTypeOK'
      BY <1>3 DEF Store, ProvisionTypeOK, Operations
    <2>4. InStep'
      BY <1>3, <2>2 DEF Store, InStep, IsProvisioned
    <2> QED  BY <1>3, <2>2, <2>3, <2>4 DEF Store, LockedIsProvisioned, IsProvisioned
  <1>4. CASE Commit
    <2>1. ProvisionTypeOK'
      BY <1>4 DEF Commit, ProvisionTypeOK
    <2>2. InStep'
      BY <1>4 DEF Commit, InStep, IsProvisioned
    <2> QED  BY <1>4, <2>1, <2>2 DEF Commit, InStep, LockedIsProvisioned, IsProvisioned
  <1>5. CASE Fail
    BY <1>5 DEF Fail, ProvisionTypeOK, InStep, LockedIsProvisioned, IsProvisioned
  <1>6. CASE PowerLoss
    BY <1>6 DEF PowerLoss, ProvisionTypeOK, InStep, LockedIsProvisioned, IsProvisioned
  <1>7. CASE UNCHANGED provisionVars
    BY <1>7 DEF provisionVars, ProvisionTypeOK, InStep, LockedIsProvisioned,
       Allowed, Applied, IsProvisioned, Burn
  <1> QED  BY <1>1, <1>2, <1>3, <1>4, <1>5, <1>6, <1>7 DEF ProvisionNext

\* Whether the hardware operation comes before the write or after the commit,
\* whatever fails and whenever power is lost, no state and no OTP is locked
\* without root key, manifest and descriptor in storage (apply and the usage
\* pattern of provision/mod.rs).
THEOREM ProvisioningIsSound == ProvisionSpec => []LockedIsProvisioned
  <1>1. ProvisionInv => LockedIsProvisioned
    BY DEF ProvisionInv
  <1> QED  BY <1>1, ProvisionInitInv, ProvisionNextInv, PTL DEF ProvisionSpec

\* Storage keeps what it holds once it is locked: the only writer is Store, and
\* of a locked state apply makes nothing but itself.
THEOREM StoredLockIsFinal == ProvisionSpec => LockIsFinal
  <1>1. ProvisionInv /\ [ProvisionNext]_provisionVars => (stored.locked => stored' = stored)
    <2> SUFFICES ASSUME ProvisionInv, ProvisionNext, stored.locked PROVE stored' = stored
      BY DEF provisionVars
    <2>1. CASE Store
      <3>1. live = stored /\ Allowed(live, cmd) /\ pending = Applied(live, cmd)
        BY <2>1 DEF Store, ProvisionInv, InStep
      <3>2. cmd \in ReadOnlyCommands
        BY <3>1 DEF Allowed
      <3> QED  BY <2>1, <3>1, <3>2 DEF Store, Applied, ReadOnlyCommands
    <2> QED  BY <2>1 DEF ProvisionNext, Command, Hardware, Commit, Fail, PowerLoss
  <1> QED  BY <1>1, ProvisionInitInv, ProvisionNextInv, PTL DEF ProvisionSpec, LockIsFinal
=============================================================================
