--------------------------- MODULE ProtectedFlash ---------------------------
(***************************************************************************)
(* What the AST1060 protects: the images of its manifest in the flash of    *)
(* the target.  main_task (rot_ast1060.rs) verifies them image by image     *)
(* (verify.rs, platform/ast1060.rs), programs the filter (filter.rs) and    *)
(* hands flash to the target, which then sends any command that the filter  *)
(* passes; alarms make it verify and release again.  Before the boot event  *)
(* images are written through the flash backend, as an update would: that   *)
(* backend has no other caller in the sources.                              *)
(***************************************************************************)
EXTENDS PfrMachine, SpiFilter, Ast1060Flash

CONSTANTS
  Manifests, SlotTables,     \* what the firmware may be built with
  ImageBuf, DigestBuf,       \* buffers of the verifier (4096, 64)
  MinimumSvn,                \* of the AntiRollbackPolicy
  MaxAlarms, MaxWrites       \* bounds: alarms in a run, writes before the boot

ASSUME GeometryAssumption ==
  Block \in Nat \ {0} /\ TableBlocks \in Nat /\ FlashSize \in Nat
\* Tables of a manifest are arrays of descriptors with unsigned fields.
ASSUME ManifestAssumption ==
  \A m \in Manifests :
    /\ \A k \in DOMAIN m.regions : m.regions[k].offset \in Nat /\ m.regions[k].size \in Nat
    /\ \A k \in DOMAIN m.images : m.images[k].offset \in Nat /\ m.images[k].size \in Nat
    /\ DOMAIN m.regions = 1..Len(m.regions) /\ Len(m.regions) \in Nat
    /\ DOMAIN m.images = 1..Len(m.images) /\ Len(m.images) \in Nat
    /\ m.images # <<>> => Len(m.images) > 0
\* So are the mappings of slots.
ASSUME SlotAssumption ==
  \A s \in SlotTables :
    DOMAIN s \subseteq Nat /\ \A k \in DOMAIN s : s[k].offset \in Nat
\* They are arrays, and each lies in its device: the code does not check that,
\* it only refuses sums above u32::MAX.
ASSUME DeviceAssumption ==
  \A s \in SlotTables :
    /\ Len(s) \in Nat /\ DOMAIN s = 1..Len(s)
    /\ \A k \in DOMAIN s : s[k].size \in Nat /\ s[k].offset + s[k].size <= FlashSize
ASSUME BoundAssumption == MaxAlarms \in Nat /\ MaxWrites \in Nat

Devices == {0, 1}
Cell == Devices \X (0..(FlashSize - 1))
Idle == [left |-> 0, offset |-> 0, map |-> 0, want |-> {}, done |-> {}]

VARIABLES
  manifest, slots,    \* constants of the firmware
  events,             \* what waits in EVENTS
  task,               \* where main_task is
  image,              \* the image being verified
  genuine,            \* the verifier's buffer holds the image as signed
  mux,                \* who owns flash: "rot" or "target"
  running,            \* the target is out of reset
  enabled, table,     \* the monitors: filter_enable, write-disable table
  good,               \* cells of images that hold what was signed
  job,                \* the last write or erase: want and done are addresses
  alarms, writes,
  bare                \* history: the target owned flash with the filter down

fixed == <<manifest, slots>>
verifier == <<image, genuine>>
monitor == <<enabled, table>>
writer == <<job, writes>>
flashVars == <<machineVars, fixed, events, task, verifier, mux, running, monitor,
               good, writer, alarms, bare>>

TaskState == {"receive", "verify", "digest", "signature", "reset_filter",
              "program_filter", "hand_over", "raise"}

\* The cells of image k of the manifest in the active slot; none if the slot
\* does not hold it.
Mapping(k) == Find(slots, "Active", manifest.images[k].offset, manifest.images[k].size)
CellsOf(k) ==
  IF Mapping(k) = 0 THEN {}
  ELSE {<<slots[Mapping(k)].ce, slots[Mapping(k)].offset + a>> :
          a \in manifest.images[k].offset..(End(manifest.images[k]) - 1)}
ImageCells == UNION {CellsOf(k) : k \in DOMAIN manifest.images}

TypeOK ==
  /\ MachineTypeOK
  /\ manifest \in Manifests /\ slots \in SlotTables
  /\ events \in Seq(Event) /\ Len(events) <= 1 + MaxAlarms
  /\ task \in TaskState
  /\ image \in 0..Len(manifest.images) /\ genuine \in BOOLEAN
  /\ mux \in {"rot", "target"} /\ running \in BOOLEAN
  /\ enabled \in BOOLEAN /\ table \subseteq 0..(TableBlocks - 1)
  /\ good \subseteq ImageCells
  /\ job.left \in 0..FlashSize /\ job.map \in 0..Len(slots)
  /\ job.want \subseteq 0..(FlashSize - 1)
  /\ alarms \in 0..MaxAlarms /\ writes \in 0..MaxWrites
  /\ bare \in BOOLEAN

\* Ast1060DcscmPlatform::new holds the target; the mux is as it was left.
Init ==
  /\ MachineInit
  /\ manifest \in Manifests /\ slots \in SlotTables
  /\ events = <<"Boot">>
  /\ task = "receive" /\ image = 0 /\ genuine = FALSE
  /\ mux \in {"rot", "target"} /\ running = FALSE
  /\ enabled = FALSE /\ table = {}
  /\ good \in {{}, ImageCells}
  /\ job = Idle /\ alarms = 0 /\ writes = 0
  /\ bare = FALSE

----------------------------------------------------------------------------
(* The flash backend.                                                       *)

Call(slot, offset, len) ==
  /\ state = "Init" /\ job.left = 0 /\ writes < MaxWrites /\ mux = "rot"
  /\ Usable(slots, slot, offset, len)
  /\ writes' = writes + 1
  /\ UNCHANGED <<machineVars, fixed, events, task, verifier, mux, running, monitor,
                 alarms, bare>>

StartWrite(slot, offset, len) ==
  /\ Call(slot, offset, len)
  /\ LET k == Find(slots, slot, offset, len)
     IN job' = [left |-> len, offset |-> offset, map |-> k, done |-> {},
                want |-> {slots[k].offset + a : a \in offset..(offset + len - 1)}]
  /\ UNCHANGED good

\* The bytes written are those that were signed, each sent for its own place.
WritePage ==
  /\ job.left > 0
  /\ LET len == ChunkLen(job.offset, job.left)
         physical == slots[job.map].offset + job.offset
         device == {slots[job.map].ce}
         programmed == Programmed(physical, len)
         placed == programmed \cap physical..(physical + len - 1)
     IN /\ job' = [job EXCEPT !.left = @ - len, !.offset = @ + len,
                              !.done = @ \cup programmed]
        /\ good' = (good \ (device \X programmed))
                     \cup ((device \X placed) \cap ImageCells)
  /\ UNCHANGED <<machineVars, fixed, events, task, verifier, mux, running, monitor,
                 writes, alarms, bare>>

\* write_page fails: the pages before it stay written.
WriteFails ==
  /\ job.left > 0
  /\ job' = Idle
  /\ UNCHANGED <<machineVars, fixed, events, task, verifier, mux, running, monitor,
                 good, writes, alarms, bare>>

EraseSector(slot, sector_offset) ==
  /\ Call(slot, sector_offset, Sector)
  /\ LET k == Find(slots, slot, sector_offset, Sector)
         cleared == Erased(slots[k].offset + sector_offset)
         first == slots[k].offset + (sector_offset \div Sector) * Sector
     IN /\ good' = good \ ({slots[k].ce} \X cleared)
        /\ job' = [Idle EXCEPT !.map = k, !.done = cleared,
                               !.want = first..(first + Sector - 1)]

FlashBackend ==
  \/ \E slot \in {"Active", "Recovery"}, offset \in 0..(FlashSize - 1) :
       \/ \E len \in 1..ImageBuf : StartWrite(slot, offset, len)
       \/ EraseSector(slot, offset)
  \/ WritePage \/ WriteFails

----------------------------------------------------------------------------
(* main_task.  The release lines, the waits and the capacity of EVENTS are   *)
(* those of PfrRuntime; here a send always has room.                         *)

Send(queue, event) == IF event = "None" THEN queue ELSE Append(queue, event)

\* The next event: what its action does up to the first await.
Receive ==
  /\ task = "receive" /\ events # <<>> /\ job.left = 0
  /\ StepRecord(Head(events))
  /\ LET action == ActionFor(state, Head(events))
         report == Send(Tail(events), SuccessEvent(action))
         accepted == /\ ValidateManifest(manifest)
                     /\ ValidateAntiRollback(manifest, MinimumSvn)
     IN \/ /\ action = "HoldPlatform"
           /\ mux' = "rot" /\ running' = FALSE /\ events' = report
           /\ UNCHANGED <<task, image>>
        \/ /\ action = "VerifyImages" /\ manifest.images # <<>> /\ accepted
           /\ task' = "verify" /\ image' = 1 /\ events' = Tail(events)
           /\ UNCHANGED <<mux, running>>
        \/ /\ action = "VerifyImages" /\ manifest.images # <<>> /\ ~accepted
           /\ events' = Append(Tail(events), "VerificationFailed")
           /\ UNCHANGED <<task, image, mux, running>>
        \/ /\ action = "ReleasePlatform"
           /\ task' = "reset_filter" /\ events' = Tail(events)
           /\ UNCHANGED <<image, mux, running>>
        \/ /\ action \notin {"HoldPlatform", "ReleasePlatform"}
           /\ action = "VerifyImages" => manifest.images = <<>>
           /\ events' = report
           /\ UNCHANGED <<task, image, mux, running>>
  /\ UNCHANGED <<fixed, genuine, monitor, good, writer, alarms, bare>>

VerificationEnds(event) ==
  /\ events' = Append(events, event) /\ task' = "receive"
  /\ image' = 0 /\ genuine' = FALSE

\* verify_task before its first await.
Readable(descriptor) ==
  /\ descriptor.size \in 1..ImageBuf
  /\ DigestLen(descriptor.hash) <= DigestBuf
  /\ descriptor.material # <<>>
  /\ descriptor.material.digest = DigestLen(descriptor.hash)
  /\ Usable(slots, "Active", descriptor.offset, descriptor.size)

\* With the mux on the target the bus of the AST1060 reads anything.
ReadImage ==
  /\ task = "verify"
  /\ \/ /\ Readable(manifest.images[image])
        /\ genuine' \in IF mux = "rot" THEN {CellsOf(image) \subseteq good} ELSE BOOLEAN
        /\ task' = "digest"
        /\ UNCHANGED <<events, image>>
     \/ ~Readable(manifest.images[image]) /\ VerificationEnds("VerificationFailed")
  /\ UNCHANGED <<machineVars, fixed, mux, running, monitor, good, writer, alarms, bare>>

\* The hash engine answers, or fails.
Digest ==
  /\ task = "digest"
  /\ \/ genuine /\ task' = "signature" /\ UNCHANGED <<events, verifier>>
     \/ VerificationEnds("VerificationFailed")
  /\ UNCHANGED <<machineVars, fixed, mux, running, monitor, good, writer, alarms, bare>>

ModulusLen(signature) ==
  CASE signature = "Rsa2048" -> 256 [] signature = "Rsa3072" -> 384
    [] signature = "Rsa4096" -> 512

\* verify_ecdsa_p384 and verify_rsa go on to the engine.
SignatureFits(descriptor) ==
  LET material == descriptor.material
  IN IF descriptor.signature = "EcdsaP384"
     THEN material.digest = 48 /\ material.signature = 96 /\ material.key = 96
     ELSE /\ material.signature = ModulusLen(descriptor.signature)
          /\ material.key > ModulusLen(descriptor.signature)

Signature ==
  /\ task = "signature"
  /\ \/ /\ SignatureFits(manifest.images[image])
        /\ IF image < Len(manifest.images)
           THEN /\ image' = image + 1 /\ genuine' = FALSE /\ task' = "verify"
                /\ UNCHANGED events
           ELSE VerificationEnds("VerificationPassed")
     \/ VerificationEnds("VerificationFailed")
  /\ UNCHANGED <<machineVars, fixed, mux, running, monitor, good, writer, alarms, bare>>

\* apply_ast1060_spi_policy, first half: each monitor is reset, and passes all.
ResetFilter ==
  /\ task = "reset_filter"
  /\ task' = "program_filter"
  /\ enabled' = FALSE /\ table' = {}
  /\ bare' = (bare \/ (running /\ mux = "target"))
  /\ UNCHANGED <<machineVars, fixed, events, verifier, mux, running, good, writer, alarms>>

ProgramFilter ==
  /\ task = "program_filter"
  /\ task' = "hand_over"
  /\ table' = Policy(manifest).write_disable
  /\ enabled' = Policy(manifest).provisioned
  /\ UNCHANGED <<machineVars, fixed, events, verifier, mux, running, good, writer,
                 alarms, bare>>

\* release_bootmcu_from_reset: flash is reset, the muxes turn, then the lines rise.
HandOver ==
  /\ task = "hand_over"
  /\ task' = "raise" /\ mux' = "target"
  /\ UNCHANGED <<machineVars, fixed, events, verifier, running, monitor, good, writer,
                 alarms, bare>>

Raise ==
  /\ task = "raise"
  /\ task' = "receive" /\ running' = TRUE
  /\ events' = Send(events, SuccessEvent("ReleasePlatform"))
  /\ UNCHANGED <<machineVars, fixed, verifier, mux, monitor, good, writer, alarms, bare>>

MainTask ==
  Receive \/ ReadImage \/ Digest \/ Signature \/ ResetFilter \/ ProgramFilter
    \/ HandOver \/ Raise

----------------------------------------------------------------------------
\* The target changes flash; a command on an image destroys it.
TargetCommand ==
  /\ running /\ mux = "target"
  /\ \E ce \in Devices, command \in Commands :
       /\ Passes(enabled, table, command)
       /\ good' = good \ ({ce} \X command)
  /\ UNCHANGED <<machineVars, fixed, events, task, verifier, mux, running, monitor,
                 writer, alarms, bare>>

Alarm ==
  /\ alarms < MaxAlarms
  /\ alarms' = alarms + 1
  /\ \E event \in {"WatchdogTimeout", "ResetDetected"} : events' = Append(events, event)
  /\ UNCHANGED <<machineVars, fixed, task, verifier, mux, running, monitor, good,
                 writer, bare>>

Next == FlashBackend \/ MainTask \/ TargetCommand \/ Alarm

Spec == Init /\ [][Next]_flashVars

----------------------------------------------------------------------------
\* Regions that the filter keeps from the target, as far as its table reaches.
ReadOnly(k) ==
  \E r \in DOMAIN manifest.regions :
    /\ "write" \notin manifest.regions[r].permissions
    /\ ContainsImage(manifest.regions[r], manifest.images[k])
    /\ End(manifest.images[k]) <= TableBlocks * Block

(* While the target runs, every image of the manifest is acceptable, and     *)
(* those in read-only regions still hold what was verified, whatever the     *)
(* target sends to flash and however often alarms make main_task release it  *)
(* again.  It takes the checks of verify.rs, the table of filter.rs and the   *)
(* order of the release together.  Left out, because the code does not       *)
(* promise it: slots that do not begin with their device, for which the      *)
(* filter protects other addresses than were verified, and what follows a    *)
(* release that resets the filter under a running target.                    *)
VerifiedImagesStayIntact ==
  running /\ ~bare =>
    \A k \in DOMAIN manifest.images :
      /\ ValidateManifest(manifest) /\ manifest.images[k].svn >= MinimumSvn
      /\ Mapping(k) # 0 /\ manifest.images[k].material # <<>>
      /\ ReadOnly(k) /\ slots[Mapping(k)].offset = 0 => CellsOf(k) \subseteq good

(* A write that ends well has changed the bytes it was asked to and no       *)
(* others, on the way too, and an erase the sector that holds its offset,    *)
(* for slots that begin at a sector: the page loop of write computes page    *)
(* ends from the offset in the slot, not from the address in the device.     *)
BackendIsExact ==
  job.map # 0 /\ slots[job.map].offset % Sector = 0 =>
    job.done \subseteq job.want /\ (job.left = 0 => job.done = job.want)
=============================================================================
