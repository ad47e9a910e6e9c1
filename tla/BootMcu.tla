------------------------------ MODULE BootMcu ------------------------------
(***************************************************************************)
(* The boot flow of the AST2700 BootMCU, app-rot/src/bin/                   *)
(* rot_ast2700_bootmcu.rs: hardware bring-up, the gates of Caliptra, the    *)
(* loading of the payloads with its retries, and the release of the other   *)
(* cores.  A reset may come at any point and leaves DRAM as it was.  The    *)
(* results of the hardware (calibration, OTP, Caliptra, DMA, eMMC) are free.*)
(***************************************************************************)
EXTENDS Naturals, Sequences, FiniteSets

CONSTANTS
  Attempts,    \* PAYLOAD_LOAD_ATTEMPTS (3 in the source)
  MaxResets    \* bound: resets of the board

ASSUME BootAssumption == Attempts \in Nat \ {0} /\ MaxResets \in Nat

M4 == {"ssp", "tsp"}
Core == M4 \cup {"a35"}
\* The parts of a payload that verify_payload compares: its first and its last
\* 16 bytes.
Part == {"head", "tail"}

VARIABLES
  pc,         \* where main stands
  hw,         \* the stepping: "A2", or "A1" for every other
  media,      \* BootMode: "nor", "emmc" or "other"
  secure,     \* the strap of secure_boot_enabled
  present,    \* the payloads whose first 16 bytes in flash are not blank
  rt,         \* Caliptra::is_rdy_for_rt
  accepted,   \* what Caliptra has accepted since its reset
  cert,       \* IDEVID_CERT is stored
  dram,       \* for each load window, the parts that are as in flash
  step,       \* load attempts made for the payload being loaded
  loaded,     \* ssp_loaded, tsp_loaded
  prepared,   \* cores whose entry and memory are set up
  running,    \* cores out of reset
  resets      \* resets so far

fixedVars == <<hw, media, secure>>
caliptraVars == <<accepted, cert>>
loadVars == <<dram, step, loaded>>
coreVars == <<prepared, running>>
bootVars == <<pc, hw, media, secure, present, rt, accepted, cert, dram, step,
              loaded, prepared, running, resets>>

\* The places where main can be; each stands for the statements up to the next.
Location == {"sli", "dram", "otp", "manifest", "idevid", "authorize", "copy",
             "header", "a35", "ssp", "tsp", "handover", "release", "enable",
             "serve", "halted"}

TypeOK ==
  /\ pc \in Location
  /\ hw \in {"A1", "A2"} /\ media \in {"nor", "emmc", "other"}
  /\ secure \in BOOLEAN
  /\ present \subseteq Core
  /\ rt \in BOOLEAN
  /\ accepted \subseteq {"manifest", "idevid", "a35"} /\ cert \in BOOLEAN
  /\ dram \in [Core -> SUBSET Part]
  /\ step \in 0..(2 * Attempts)
  /\ loaded \subseteq M4 /\ prepared \subseteq Core /\ running \subseteq Core
  /\ resets \in 0..MaxResets

Init ==
  /\ pc = "sli"
  /\ hw \in {"A1", "A2"} /\ media \in {"nor", "emmc", "other"}
  /\ secure \in BOOLEAN
  /\ present \in SUBSET Core
  /\ rt = FALSE /\ accepted = {} /\ cert = FALSE
  /\ dram = [w \in Core |-> {}]
  /\ step = 0 /\ loaded = {} /\ prepared = {} /\ running = {}
  /\ resets = 0

----------------------------------------------------------------------------
(* Bring-up and the gates.  A failing gate halts a secure board and is      *)
(* passed over on any other.                                                *)

At(here, there) == pc = here /\ pc' = there
\* Faulty variant: a failed step never stops the boot.
GateLeftOpen(ok, there) == there
\* A failed step stops the boot only if secure boot is on.
Gate(ok, there) == IF ok \/ ~secure THEN there ELSE "halted"

\* sli::init_r and sdrammc::init: a failure halts every board.
SliInit ==
  /\ pc = "sli"
  /\ pc' \in {"dram", "halted"}
  /\ UNCHANGED <<fixedVars, present, rt, caliptraVars, loadVars, coreVars, resets>>
DramInit ==
  /\ pc = "dram"
  /\ pc' \in {"otp", "halted"}
  /\ UNCHANGED <<fixedVars, present, rt, caliptraVars, loadVars, coreVars, resets>>

OtpInit ==
  /\ pc = "otp"
  /\ \E ok \in BOOLEAN : pc' = Gate(ok, "manifest")
  /\ UNCHANGED <<fixedVars, present, rt, caliptraVars, loadVars, coreVars, resets>>

\* What an attempt that Caliptra's runtime must serve can come to: never a
\* success before it is ready.
Outcomes == IF rt THEN BOOLEAN ELSE {FALSE}

\* The SoC manifest is looked up in flash and given to Caliptra.
SetAuthManifest ==
  /\ pc = "manifest"
  /\ \E ok \in Outcomes :
       /\ accepted' = IF ok THEN accepted \cup {"manifest"} ELSE accepted
       /\ pc' = Gate(ok, "idevid")
  /\ UNCHANGED <<fixedVars, present, rt, cert, loadVars, coreVars, resets>>

\* The steps of populate_idevid; any of them may fail, and a device without
\* an IDEVID fails at the first.
IdevidSteps == <<"tag", "length", "tbs", "signature", "get", "populate">>
PopulateIdevid ==
  /\ pc = "idevid"
  /\ \E passed \in 0..Len(IdevidSteps) :
       LET ok == passed = Len(IdevidSteps)
       IN /\ passed > 0 => rt
          /\ accepted' = IF ok THEN accepted \cup {"idevid"} ELSE accepted
          /\ cert' = (cert \/ ok)
          /\ pc' = Gate(ok, IF hw = "A2" THEN "authorize" ELSE "header")
  /\ UNCHANGED <<fixedVars, present, rt, loadVars, coreVars, resets>>

----------------------------------------------------------------------------
(* The CA35 payload on the A2 stepping, load_ca35_payload_a2: Caliptra      *)
(* answers for the load window before the payload is copied into it.        *)

AuthorizeA2 ==
  /\ pc = "authorize"
  /\ \/ /\ pc' = "halted"                       \* no container, or no image
        /\ UNCHANGED accepted
     \/ \E ok \in Outcomes :
          /\ accepted' = IF ok THEN accepted \cup {"a35"} ELSE accepted
          /\ pc' = Gate(ok, "copy")
  /\ UNCHANGED <<fixedVars, present, rt, cert, loadVars, coreVars, resets>>

\* The boot header in front of the payload decides: invalid, plain or
\* compressed.
RejectA2 ==
  /\ At("copy", "halted")
  /\ UNCHANGED <<fixedVars, present, rt, caliptraVars, loadVars, coreVars, resets>>
\* Word copy of a plain payload; nothing is compared afterwards.
CopyA2 ==
  /\ At("copy", "ssp")
  /\ \E written \in SUBSET Part : dram' = [dram EXCEPT !["a35"] = written]
  /\ UNCHANGED <<fixedVars, present, rt, caliptraVars, step, loaded, coreVars, resets>>
\* A compressed payload is staged, by DMA or else by word copy, and decoded;
\* only the decoder may still object.
DecompressA2 ==
  /\ pc = "copy"
  /\ \E written \in SUBSET Part : dram' = [dram EXCEPT !["a35"] = written]
  /\ pc' \in {"ssp", "halted"}
  /\ UNCHANGED <<fixedVars, present, rt, caliptraVars, step, loaded, coreVars, resets>>

----------------------------------------------------------------------------
(* The raw payloads.                                                        *)

\* read_a35_entry_addr: the boot header is read from SPI flash whatever the
\* medium.
ReadEntry ==
  /\ pc = "header"
  /\ pc' \in {"a35", "halted"}
  /\ UNCHANGED <<fixedVars, present, rt, caliptraVars, loadVars, coreVars, resets>>

\* Faulty variant: a payload that fails is tried for ever.
DoneTryingAgain(w, ok) ==
  /\ pc' = CASE w = "a35" -> IF ok THEN "ssp" ELSE "halted"
             [] w = "ssp" -> IF ok THEN "tsp" ELSE "ssp"
             [] w = "tsp" -> "handover"
  /\ loaded' = IF ok THEN loaded \cup ({w} \cap M4) ELSE loaded
  /\ step' = 0
\* Where main goes when payload w is loaded, or is not: the CA35 must be.
Done(w, ok) ==
  /\ pc' = CASE w = "a35" -> IF ok THEN "ssp" ELSE "halted"
             [] w = "ssp" -> "tsp"
             [] w = "tsp" -> "handover"
  /\ loaded' = IF ok THEN loaded \cup ({w} \cap M4) ELSE loaded
  /\ step' = 0

\* Faulty variant: only the first bytes are compared.
VerifyHeadOnly(w, window) == "head" \in window /\ w \in present
\* verify_payload: both ends are as in flash, and the first is not blank.
VerifyPayload(w, window) == window = Part /\ w \in present

\* load_payload_word_copy_first for the CA35, load_payload for the others: in
\* each attempt of these a DMA that may refuse, then a word copy.
ByDma(w) == w \in M4 /\ step % 2 = 0
\* Faulty variant: one attempt too many.
StepsForOneMore(w) == IF w \in M4 THEN 2 * (Attempts + 1) ELSE Attempts + 1
StepsFor(w) == IF w \in M4 THEN 2 * Attempts ELSE Attempts

LoadFromNor(w) ==
  /\ pc = w /\ media = "nor"
  /\ \E window \in SUBSET Part, refused \in BOOLEAN :
       /\ refused => ByDma(w)
       /\ dram' = [dram EXCEPT ![w] = window]
       /\ \/ /\ ~refused /\ VerifyPayload(w, window)
             /\ Done(w, TRUE)
          \/ /\ refused \/ ~VerifyPayload(w, window)
             /\ IF step + 1 = StepsFor(w)
                THEN Done(w, FALSE)
                ELSE step' = step + 1 /\ UNCHANGED <<pc, loaded>>
  /\ UNCHANGED <<fixedVars, present, rt, caliptraVars, coreVars, resets>>

\* eMMC: the result of the copy decides, and nothing is compared.
LoadFromEmmc(w) ==
  /\ pc = w /\ media = "emmc"
  /\ \/ dram' = [dram EXCEPT ![w] = Part] /\ Done(w, TRUE)
     \/ \E window \in SUBSET Part :
          dram' = [dram EXCEPT ![w] = window] /\ Done(w, FALSE)
  /\ UNCHANGED <<fixedVars, present, rt, caliptraVars, coreVars, resets>>

LoadFromOther(w) ==
  /\ pc = w /\ media = "other"
  /\ Done(w, FALSE)
  /\ UNCHANGED <<fixedVars, present, rt, caliptraVars, dram, coreVars, resets>>

----------------------------------------------------------------------------
(* The release: memory and entry points first, then the CA35, then the M4s. *)

Handover ==
  /\ At("handover", "release")
  /\ prepared' = {"a35"} \cup loaded
  /\ UNCHANGED <<fixedVars, present, rt, caliptraVars, loadVars, running, resets>>
\* Faulty variant: what failed to load is loaded again afterwards.
ReleaseCa35ThenReload ==
  /\ At("release", IF loaded = M4 THEN "enable" ELSE "ssp")
  /\ running' = running \cup {"a35"}
  /\ UNCHANGED <<fixedVars, present, rt, caliptraVars, loadVars, prepared, resets>>
ReleaseCa35 ==
  /\ At("release", "enable")
  /\ running' = running \cup {"a35"}
  /\ UNCHANGED <<fixedVars, present, rt, caliptraVars, loadVars, prepared, resets>>
EnableM4 ==
  /\ At("enable", "serve")
  /\ running' = running \cup loaded
  /\ UNCHANGED <<fixedVars, present, rt, caliptraVars, loadVars, prepared, resets>>

----------------------------------------------------------------------------
(* The environment.                                                         *)

CaliptraReady ==
  /\ ~rt /\ rt' = TRUE
  /\ UNCHANGED <<pc, fixedVars, present, caliptraVars, loadVars, coreVars, resets>>

\* A reset, after which flash holds the payloads "stored".  It may have been
\* rewritten, and then DRAM holds nothing of it.
Reset(stored) ==
  /\ resets < MaxResets
  /\ resets' = resets + 1
  /\ pc' = "sli"
  /\ rt' = FALSE /\ accepted' = {} /\ cert' = FALSE
  /\ step' = 0 /\ loaded' = {} /\ prepared' = {} /\ running' = {}
  /\ present' = stored
  /\ \/ stored = present /\ UNCHANGED dram
     \/ dram' = [w \in Core |-> {}]
  /\ UNCHANGED fixedVars

Load == \E w \in Core : LoadFromNor(w) \/ LoadFromEmmc(w) \/ LoadFromOther(w)
Main ==
  \/ SliInit \/ DramInit \/ OtpInit \/ SetAuthManifest \/ PopulateIdevid
  \/ AuthorizeA2 \/ RejectA2 \/ CopyA2 \/ DecompressA2 \/ ReadEntry \/ Load
  \/ Handover \/ ReleaseCa35 \/ EnableM4

BootNext == Main \/ CaliptraReady \/ \E stored \in SUBSET Core : Reset(stored)
BootSpec == Init /\ [][BootNext]_bootVars

----------------------------------------------------------------------------
(* Properties.                                                              *)

\* Secure boot: a core runs only after each gate of this very boot has been
\* passed, although the three read Caliptra's readiness for themselves and a
\* reset may have come at any point.
SecureReleaseIsGated ==
  (secure /\ running # {}) =>
     /\ {"manifest", "idevid"} \subseteq accepted /\ cert
     /\ hw = "A2" => "a35" \in accepted

\* A core that was loaded from NOR flash runs on a payload that both ends of
\* its window agree with, and none runs on a window whose load failed or was
\* never made since the reset.
RunningCoresAreLoaded ==
  /\ running \subseteq prepared
  /\ prepared \subseteq loaded \cup {"a35"}
  /\ \A w \in running :
       (hw = "A1" \/ w \in M4) =>
          /\ media = "nor" => dram[w] = Part /\ w \in present
          /\ media = "emmc" => dram[w] = Part
          /\ media # "other"

\* Once a core may run, the BootMCU leaves every load window alone until the
\* next reset: what was verified is what runs.
WindowsAreLeftAlone ==
  [][running # {} /\ resets' = resets => UNCHANGED <<dram, prepared>>]_bootVars
=============================================================================
