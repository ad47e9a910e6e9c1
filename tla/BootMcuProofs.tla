--------------------------- MODULE BootMcuProofs ---------------------------
(***************************************************************************)
(* What the BootMCU promises about a boot, for every number of attempts and *)
(* of resets.  The inductive invariant says which gates lie behind each     *)
(* place of main, and which windows hold their payload there.               *)
(* The board of Ast2700 keeps to it, runs what the image tool was given and *)
(* answers the CA35 in order.                                               *)
(***************************************************************************)
EXTENDS Ast2700, SequenceTheorems, TLAPS

\* The places behind each gate, for a main that has not halted.
Release == {"release", "enable", "serve"}
BeforeLoads == {"sli", "dram", "otp", "manifest", "idevid", "authorize", "copy", "header", "a35"}
BehindA35 == {"ssp", "tsp", "handover"} \cup Release
BehindIdevid == {"authorize", "copy", "header", "a35"} \cup BehindA35
BehindManifest == {"idevid"} \cup BehindIdevid

\* What Caliptra has accepted of a secure board that has come so far.
GatesPassed ==
  /\ secure /\ pc \in BehindManifest => "manifest" \in accepted
  /\ secure /\ pc \in BehindIdevid => "idevid" \in accepted /\ cert
  /\ secure /\ hw = "A2" /\ pc \in {"copy"} \cup BehindA35 => "a35" \in accepted

\* Each stepping keeps to its own way of loading the CA35, and each payload to
\* its attempts.
Stepping ==
  /\ pc \in {"authorize", "copy"} => hw = "A2"
  /\ pc \in {"header", "a35"} => hw = "A1"
  /\ IF pc \in Core THEN step < StepsFor(pc) ELSE step = 0

\* The window of payload w is as its load left it when it succeeded.
Sound(w) ==
  /\ media = "nor" => VerifyPayload(w, dram[w])
  /\ media = "emmc" => dram[w] = Part
  /\ media # "other"

\* No load touches the window of a payload that is loaded already.
WindowsSound ==
  /\ \A w \in loaded : Sound(w)
  /\ hw = "A1" /\ pc \in BehindA35 => Sound("a35")
  /\ pc \in BeforeLoads \cup {"ssp"} => loaded = {}
  /\ pc = "tsp" => loaded \subseteq {"ssp"}

\* Cores are prepared from what is loaded, and run when they are prepared.
ReleaseInOrder ==
  /\ IF pc \in Release THEN prepared = {"a35"} \cup loaded ELSE prepared = {}
  /\ running \subseteq prepared
  /\ running # {} => pc \in {"enable", "serve"}

IInv == TypeOK /\ GatesPassed /\ Stepping /\ WindowsSound /\ ReleaseInOrder

USE DEF Location, Core, M4, Part, Release, BeforeLoads, BehindA35, BehindIdevid,
        BehindManifest

LEMMA InitIInv == Init => IInv
<1> SUFFICES ASSUME Init PROVE IInv
  OBVIOUS
<1>1. TypeOK
  <2>1. step \in 0..(2 * Attempts) /\ resets \in 0..MaxResets
    BY BootAssumption DEF Init
  <2>2. dram \in [Core -> SUBSET Part]
    BY Zenon DEF Init
  <2> QED
    BY <2>1, <2>2 DEF Init, TypeOK
<1>2. GatesPassed /\ Stepping
  BY BootAssumption DEF Init, GatesPassed, Stepping, StepsFor
<1>3. WindowsSound /\ ReleaseInOrder
  BY DEF Init, WindowsSound, ReleaseInOrder
<1> QED
  BY <1>1, <1>2, <1>3 DEF IInv

LEMMA SliInitIInv == IInv /\ SliInit => IInv'
<1> SUFFICES ASSUME IInv, SliInit PROVE IInv'
  OBVIOUS
<1> USE DEF IInv, SliInit, fixedVars, caliptraVars, loadVars, coreVars
<1>1. TypeOK'
  BY DEF TypeOK
<1>2. GatesPassed' /\ Stepping'
  BY BootAssumption DEF TypeOK, GatesPassed, Stepping, StepsFor
<1>3. WindowsSound'
  BY DEF TypeOK, Stepping, WindowsSound, Sound, VerifyPayload, ReleaseInOrder
<1>4. ReleaseInOrder'
  BY DEF TypeOK, ReleaseInOrder
<1> QED
  BY <1>1, <1>2, <1>3, <1>4

LEMMA DramInitIInv == IInv /\ DramInit => IInv'
<1> SUFFICES ASSUME IInv, DramInit PROVE IInv'
  OBVIOUS
<1> USE DEF IInv, DramInit, fixedVars, caliptraVars, loadVars, coreVars
<1>1. TypeOK'
  BY DEF TypeOK
<1>2. GatesPassed' /\ Stepping'
  BY BootAssumption DEF TypeOK, GatesPassed, Stepping, StepsFor
<1>3. WindowsSound'
  BY DEF TypeOK, Stepping, WindowsSound, Sound, VerifyPayload, ReleaseInOrder
<1>4. ReleaseInOrder'
  BY DEF TypeOK, ReleaseInOrder
<1> QED
  BY <1>1, <1>2, <1>3, <1>4

LEMMA OtpInitIInv == IInv /\ OtpInit => IInv'
<1> SUFFICES ASSUME IInv, OtpInit PROVE IInv'
  OBVIOUS
<1> USE DEF IInv, OtpInit, fixedVars, caliptraVars, loadVars, coreVars, Gate
<1>1. TypeOK'
  BY DEF TypeOK
<1>2. GatesPassed' /\ Stepping'
  BY BootAssumption DEF TypeOK, GatesPassed, Stepping, StepsFor
<1>3. WindowsSound'
  BY DEF TypeOK, Stepping, WindowsSound, Sound, VerifyPayload, ReleaseInOrder
<1>4. ReleaseInOrder'
  BY DEF TypeOK, ReleaseInOrder
<1> QED
  BY <1>1, <1>2, <1>3, <1>4

LEMMA SetAuthManifestIInv == IInv /\ SetAuthManifest => IInv'
<1> SUFFICES ASSUME IInv, SetAuthManifest PROVE IInv'
  OBVIOUS
<1> USE DEF IInv, SetAuthManifest, fixedVars, caliptraVars, loadVars, coreVars, Gate, Outcomes
<1>1. TypeOK'
  BY DEF TypeOK
<1>2. GatesPassed' /\ Stepping'
  BY BootAssumption DEF TypeOK, GatesPassed, Stepping, StepsFor
<1>3. WindowsSound'
  BY DEF TypeOK, Stepping, WindowsSound, Sound, VerifyPayload, ReleaseInOrder
<1>4. ReleaseInOrder'
  BY DEF TypeOK, ReleaseInOrder
<1> QED
  BY <1>1, <1>2, <1>3, <1>4

LEMMA PopulateIdevidIInv == IInv /\ PopulateIdevid => IInv'
<1> SUFFICES ASSUME IInv, PopulateIdevid PROVE IInv'
  OBVIOUS
<1> USE DEF IInv, PopulateIdevid, fixedVars, caliptraVars, loadVars, coreVars, Gate, IdevidSteps
<1>1. TypeOK'
  BY DEF TypeOK
<1>2. GatesPassed' /\ Stepping'
  BY BootAssumption DEF TypeOK, GatesPassed, Stepping, StepsFor
<1>3. WindowsSound'
  BY DEF TypeOK, Stepping, WindowsSound, Sound, VerifyPayload, ReleaseInOrder
<1>4. ReleaseInOrder'
  BY DEF TypeOK, ReleaseInOrder
<1> QED
  BY <1>1, <1>2, <1>3, <1>4

LEMMA AuthorizeA2IInv == IInv /\ AuthorizeA2 => IInv'
<1> SUFFICES ASSUME IInv, AuthorizeA2 PROVE IInv'
  OBVIOUS
<1> USE DEF IInv, AuthorizeA2, fixedVars, caliptraVars, loadVars, coreVars, Gate, Outcomes
<1>1. TypeOK'
  BY DEF TypeOK
<1>2. GatesPassed' /\ Stepping'
  BY BootAssumption DEF TypeOK, GatesPassed, Stepping, StepsFor
<1>3. WindowsSound'
  BY DEF TypeOK, Stepping, WindowsSound, Sound, VerifyPayload, ReleaseInOrder
<1>4. ReleaseInOrder'
  BY DEF TypeOK, ReleaseInOrder
<1> QED
  BY <1>1, <1>2, <1>3, <1>4

LEMMA RejectA2IInv == IInv /\ RejectA2 => IInv'
<1> SUFFICES ASSUME IInv, RejectA2 PROVE IInv'
  OBVIOUS
<1> USE DEF IInv, RejectA2, fixedVars, caliptraVars, loadVars, coreVars, At
<1>1. TypeOK'
  BY DEF TypeOK
<1>2. GatesPassed' /\ Stepping'
  BY BootAssumption DEF TypeOK, GatesPassed, Stepping, StepsFor
<1>3. WindowsSound'
  BY DEF TypeOK, Stepping, WindowsSound, Sound, VerifyPayload, ReleaseInOrder
<1>4. ReleaseInOrder'
  BY DEF TypeOK, ReleaseInOrder
<1> QED
  BY <1>1, <1>2, <1>3, <1>4

LEMMA CopyA2IInv == IInv /\ CopyA2 => IInv'
<1> SUFFICES ASSUME IInv, CopyA2 PROVE IInv'
  OBVIOUS
<1> USE DEF IInv, CopyA2, fixedVars, caliptraVars, loadVars, coreVars, At
<1>1. TypeOK'
  BY DEF TypeOK
<1>2. GatesPassed' /\ Stepping'
  BY BootAssumption DEF TypeOK, GatesPassed, Stepping, StepsFor
<1>3. WindowsSound'
  BY DEF TypeOK, Stepping, WindowsSound, Sound, VerifyPayload, ReleaseInOrder
<1>4. ReleaseInOrder'
  BY DEF TypeOK, ReleaseInOrder
<1> QED
  BY <1>1, <1>2, <1>3, <1>4

LEMMA DecompressA2IInv == IInv /\ DecompressA2 => IInv'
<1> SUFFICES ASSUME IInv, DecompressA2 PROVE IInv'
  OBVIOUS
<1> USE DEF IInv, DecompressA2, fixedVars, caliptraVars, loadVars, coreVars
<1>1. TypeOK'
  BY DEF TypeOK
<1>2. GatesPassed' /\ Stepping'
  BY BootAssumption DEF TypeOK, GatesPassed, Stepping, StepsFor
<1>3. WindowsSound'
  BY DEF TypeOK, Stepping, WindowsSound, Sound, VerifyPayload, ReleaseInOrder
<1>4. ReleaseInOrder'
  BY DEF TypeOK, ReleaseInOrder
<1> QED
  BY <1>1, <1>2, <1>3, <1>4

LEMMA ReadEntryIInv == IInv /\ ReadEntry => IInv'
<1> SUFFICES ASSUME IInv, ReadEntry PROVE IInv'
  OBVIOUS
<1> USE DEF IInv, ReadEntry, fixedVars, caliptraVars, loadVars, coreVars
<1>1. TypeOK'
  BY DEF TypeOK
<1>2. GatesPassed' /\ Stepping'
  BY BootAssumption DEF TypeOK, GatesPassed, Stepping, StepsFor
<1>3. WindowsSound'
  BY DEF TypeOK, Stepping, WindowsSound, Sound, VerifyPayload, ReleaseInOrder
<1>4. ReleaseInOrder'
  BY DEF TypeOK, ReleaseInOrder
<1> QED
  BY <1>1, <1>2, <1>3, <1>4

LEMMA HandoverIInv == IInv /\ Handover => IInv'
<1> SUFFICES ASSUME IInv, Handover PROVE IInv'
  OBVIOUS
<1> USE DEF IInv, Handover, fixedVars, caliptraVars, loadVars, coreVars, At
<1>1. TypeOK'
  BY DEF TypeOK
<1>2. GatesPassed' /\ Stepping'
  BY BootAssumption DEF TypeOK, GatesPassed, Stepping, StepsFor
<1>3. WindowsSound'
  BY DEF TypeOK, Stepping, WindowsSound, Sound, VerifyPayload, ReleaseInOrder
<1>4. ReleaseInOrder'
  BY DEF TypeOK, ReleaseInOrder
<1> QED
  BY <1>1, <1>2, <1>3, <1>4

LEMMA ReleaseCa35IInv == IInv /\ ReleaseCa35 => IInv'
<1> SUFFICES ASSUME IInv, ReleaseCa35 PROVE IInv'
  OBVIOUS
<1> USE DEF IInv, ReleaseCa35, fixedVars, caliptraVars, loadVars, coreVars, At
<1>1. TypeOK'
  BY DEF TypeOK
<1>2. GatesPassed' /\ Stepping'
  BY BootAssumption DEF TypeOK, GatesPassed, Stepping, StepsFor
<1>3. WindowsSound'
  BY DEF TypeOK, Stepping, WindowsSound, Sound, VerifyPayload, ReleaseInOrder
<1>4. ReleaseInOrder'
  BY DEF TypeOK, ReleaseInOrder
<1> QED
  BY <1>1, <1>2, <1>3, <1>4

LEMMA EnableM4IInv == IInv /\ EnableM4 => IInv'
<1> SUFFICES ASSUME IInv, EnableM4 PROVE IInv'
  OBVIOUS
<1> USE DEF IInv, EnableM4, fixedVars, caliptraVars, loadVars, coreVars, At
<1>1. TypeOK'
  BY DEF TypeOK
<1>2. GatesPassed' /\ Stepping'
  BY BootAssumption DEF TypeOK, GatesPassed, Stepping, StepsFor
<1>3. WindowsSound'
  BY DEF TypeOK, Stepping, WindowsSound, Sound, VerifyPayload, ReleaseInOrder
<1>4. ReleaseInOrder'
  BY DEF TypeOK, ReleaseInOrder
<1> QED
  BY <1>1, <1>2, <1>3, <1>4

LEMMA CaliptraReadyIInv == IInv /\ CaliptraReady => IInv'
<1> SUFFICES ASSUME IInv, CaliptraReady PROVE IInv'
  OBVIOUS
<1> USE DEF IInv, CaliptraReady, fixedVars, caliptraVars, loadVars, coreVars
<1>1. TypeOK'
  BY DEF TypeOK
<1>2. GatesPassed' /\ Stepping'
  BY BootAssumption DEF TypeOK, GatesPassed, Stepping, StepsFor
<1>3. WindowsSound'
  BY DEF TypeOK, Stepping, WindowsSound, Sound, VerifyPayload, ReleaseInOrder
<1>4. ReleaseInOrder'
  BY DEF TypeOK, ReleaseInOrder
<1> QED
  BY <1>1, <1>2, <1>3, <1>4

LEMMA LoadFromNorIInv ==
  ASSUME IInv, NEW w \in Core, LoadFromNor(w)
  PROVE  IInv'
<1> USE BootAssumption DEF IInv, LoadFromNor, Done, VerifyPayload, ByDma, StepsFor, fixedVars,
           caliptraVars, coreVars
<1>1. TypeOK'
  BY BootAssumption DEF TypeOK, Stepping, StepsFor
<1>2. GatesPassed' /\ Stepping'
  BY BootAssumption DEF TypeOK, GatesPassed, Stepping, StepsFor
<1>3. WindowsSound'
  BY DEF TypeOK, Stepping, WindowsSound, Sound
<1>4. ReleaseInOrder'
  BY DEF TypeOK, ReleaseInOrder
<1> QED
  BY <1>1, <1>2, <1>3, <1>4

LEMMA LoadFromEmmcIInv ==
  ASSUME IInv, NEW w \in Core, LoadFromEmmc(w) \/ LoadFromOther(w)
  PROVE  IInv'
<1> USE DEF IInv, LoadFromEmmc, LoadFromOther, Done, fixedVars, caliptraVars, coreVars
<1>1. TypeOK'
  BY BootAssumption DEF TypeOK, Stepping, StepsFor
<1>2. GatesPassed' /\ Stepping'
  BY BootAssumption DEF TypeOK, GatesPassed, Stepping, StepsFor
<1>3. WindowsSound'
  BY DEF TypeOK, Stepping, WindowsSound, Sound
<1>4. ReleaseInOrder'
  BY DEF TypeOK, ReleaseInOrder
<1> QED
  BY <1>1, <1>2, <1>3, <1>4

LEMMA ResetIInv ==
  ASSUME IInv, NEW stored \in SUBSET Core, Reset(stored)
  PROVE  IInv'
<1> USE DEF IInv, Reset, fixedVars
<1>1. TypeOK'
  <2>1. dram' \in [Core -> SUBSET Part]
    BY Zenon DEF TypeOK
  <2>2. /\ present' \subseteq Core /\ UNCHANGED <<hw, media, secure>>
        /\ resets' \in 0..MaxResets
    BY BootAssumption DEF TypeOK
  <2>3. step' \in 0..(2 * Attempts)
    BY BootAssumption
  <2>4. /\ pc' = "sli" /\ rt' = FALSE /\ accepted' = {} /\ cert' = FALSE
        /\ loaded' = {} /\ prepared' = {} /\ running' = {}
    OBVIOUS
  <2> QED
    BY <2>1, <2>2, <2>3, <2>4 DEF TypeOK
<1>2. GatesPassed' /\ Stepping'
  BY BootAssumption DEF TypeOK, GatesPassed, Stepping, StepsFor
<1>3. WindowsSound' /\ ReleaseInOrder'
  BY DEF WindowsSound, ReleaseInOrder
<1> QED
  BY <1>1, <1>2, <1>3

LEMMA BootNextIInv == IInv /\ [BootNext]_bootVars => IInv'
<1> SUFFICES ASSUME IInv, [BootNext]_bootVars PROVE IInv'
  OBVIOUS
<1>1. CASE Main
  BY <1>1, SliInitIInv, DramInitIInv, OtpInitIInv, SetAuthManifestIInv, PopulateIdevidIInv,
     AuthorizeA2IInv, RejectA2IInv, CopyA2IInv, DecompressA2IInv, ReadEntryIInv,
     LoadFromNorIInv, LoadFromEmmcIInv, HandoverIInv, ReleaseCa35IInv, EnableM4IInv
     DEF Main, Load
<1>2. CASE CaliptraReady
  BY <1>2, CaliptraReadyIInv
<1>3. CASE \E stored \in SUBSET Core : Reset(stored)
  BY <1>3, ResetIInv
<1>4. CASE UNCHANGED bootVars
  BY <1>4 DEF bootVars, IInv, TypeOK, GatesPassed, Stepping, WindowsSound, Sound,
     VerifyPayload, ReleaseInOrder, StepsFor
<1> QED
  BY <1>1, <1>2, <1>3, <1>4 DEF BootNext

LEMMA IInvImplies == IInv => TypeOK /\ SecureReleaseIsGated /\ RunningCoresAreLoaded
<1> SUFFICES ASSUME IInv PROVE TypeOK /\ SecureReleaseIsGated /\ RunningCoresAreLoaded
  OBVIOUS
<1>1. TypeOK
  BY DEF IInv
<1>2. SecureReleaseIsGated
  BY DEF IInv, TypeOK, GatesPassed, ReleaseInOrder, SecureReleaseIsGated
<1>3. RunningCoresAreLoaded
  BY DEF IInv, TypeOK, WindowsSound, Sound, VerifyPayload, ReleaseInOrder,
     RunningCoresAreLoaded
<1> QED
  BY <1>1, <1>2, <1>3

\* While a core runs main only enables the others and serves.
LEMMA WindowsAreLeft ==
  IInv /\ [BootNext]_bootVars =>
    (running # {} /\ resets' = resets => UNCHANGED <<dram, prepared>>)
<1> SUFFICES ASSUME IInv, [BootNext]_bootVars, running # {}, resets' = resets
             PROVE  UNCHANGED <<dram, prepared>>
  OBVIOUS
<1>1. pc \in {"enable", "serve"} /\ resets \in Nat
  BY BootAssumption DEF IInv, TypeOK, ReleaseInOrder
<1>2. CASE Main
  BY <1>1, <1>2 DEF Main, SliInit, DramInit, OtpInit, SetAuthManifest, PopulateIdevid,
     AuthorizeA2, RejectA2, CopyA2, DecompressA2, ReadEntry, Load, LoadFromNor,
     LoadFromEmmc, LoadFromOther, Handover, ReleaseCa35, EnableM4, At, loadVars
<1>3. CASE CaliptraReady
  BY <1>3 DEF CaliptraReady, loadVars, coreVars
<1>4. CASE \E stored \in SUBSET Core : Reset(stored)
  BY <1>1, <1>4 DEF Reset
<1>5. CASE UNCHANGED bootVars
  BY <1>5 DEF bootVars
<1> QED
  BY <1>2, <1>3, <1>4, <1>5 DEF BootNext

\* The invariants of a boot, for a BootMCU in any surroundings that keep to its
\* next-state relation.
THEOREM BootIsGated ==
  BootSpec => [](TypeOK /\ SecureReleaseIsGated /\ RunningCoresAreLoaded)
<1>1. BootSpec => []IInv
  BY InitIInv, BootNextIInv, PTL DEF BootSpec
<1> QED
  BY <1>1, IInvImplies, PTL

\* No window is written once a core may run.
THEOREM BootLeavesWindows ==
  BootSpec => WindowsAreLeftAlone
<1>1. BootSpec => []IInv
  BY InitIInv, BootNextIInv, PTL DEF BootSpec
<1>2. IInv /\ [BootNext]_bootVars =>
        [running # {} /\ resets' = resets => UNCHANGED <<dram, prepared>>]_bootVars
  BY WindowsAreLeft
<1> QED
  BY <1>1, <1>2, PTL DEF BootSpec, WindowsAreLeftAlone

-----------------------------------------------------------------------------
(* The board keeps to the boot flow: whatever the image tool puts in flash  *)
(* and whatever the CA35 sends, what is proved of BootMcu holds of it.      *)

LEMMA BoardInitBoots == BoardInit => Init
  BY DEF BoardInit

LEMMA NotBlankInCore ==
  ASSUME NEW b \in Images
  PROVE  NotBlank[b] \in SUBSET Core
  BY DEF NotBlank

LEMMA BoardNextBoots == [Next]_boardVars => [BootNext]_bootVars
<1> SUFFICES ASSUME [Next]_boardVars PROVE [BootNext]_bootVars
  OBVIOUS
<1>1. CASE Boots
  BY <1>1 DEF Boots, BootNext
<1>2. CASE Warms
  BY <1>2 DEF Warms, BootNext
<1>3. CASE PowerCycle
  <2>1. PICK b \in Images : Reset(NotBlank[b])
    BY <1>3 DEF PowerCycle
  <2>2. NotBlank[b] \in SUBSET Core
    BY NotBlankInCore
  <2> QED
    BY <2>1, <2>2 DEF BootNext
<1>4. CASE Serve \/ Ca35Sends \/ Ca35Receives
  BY <1>4 DEF Serve, Ca35Sends, Ca35Receives
<1>5. CASE UNCHANGED boardVars
  BY <1>5 DEF boardVars
<1> QED
  BY <1>1, <1>2, <1>3, <1>4, <1>5 DEF Next

\* A secure board releases no core before every gate of that boot is passed,
\* and no board runs a core on a window whose load did not succeed.
THEOREM BoardReleaseIsGated ==
  Spec => [](TypeOK /\ SecureReleaseIsGated /\ RunningCoresAreLoaded)
<1>1. Spec => BootSpec
  BY BoardInitBoots, BoardNextBoots, PTL DEF Spec, BootSpec
<1> QED
  BY <1>1, BootIsGated

\* While a core runs, the board leaves every load window alone until a reset.
THEOREM BoardLeavesWindows == Spec => WindowsAreLeftAlone
<1>1. Spec => BootSpec
  BY BoardInitBoots, BoardNextBoots, PTL DEF Spec, BootSpec
<1> QED
  BY <1>1, BootLeavesWindows

(* Each variable of the boot stays in its range on the board.               *)
THEOREM BoardTypeCorrect == Spec => []TypeOK
BY BoardReleaseIsGated, PTL

-----------------------------------------------------------------------------
(* The image tool and the BootMCU agree: what flash holds where a payload   *)
(* of the core belongs is that payload, byte for byte.                      *)

LEMMA Triple ==
  ASSUME NEW S, NEW a \in S, NEW b \in S, NEW c \in S
  PROVE  /\ <<a, b, c>> \in Seq(S) /\ Len(<<a, b, c>>) = 3
         /\ <<a, b, c>>[1] = a /\ <<a, b, c>>[2] = b /\ <<a, b, c>>[3] = c
OBVIOUS

LEMMA Quadruple ==
  ASSUME NEW S, NEW a \in S, NEW b \in S, NEW c \in S, NEW d \in S
  PROVE  /\ <<a, b, c, d>> \in Seq(S) /\ Len(<<a, b, c, d>>) = 4
         /\ <<a, b, c, d>>[1] = a /\ <<a, b, c, d>>[2] = b
         /\ <<a, b, c, d>>[3] = c /\ <<a, b, c, d>>[4] = d
OBVIOUS

LEMMA Joined ==
  ASSUME NEW S, NEW x \in Seq(S), NEW y \in Seq(S), NEW z \in Seq(S)
  PROVE  /\ DOMAIN (x \o y \o z) = 1..(Len(x) + Len(y) + Len(z))
         /\ \A k \in 1..Len(x) : (x \o y \o z)[k] = x[k]
         /\ \A k \in 1..Len(y) : (x \o y \o z)[Len(x) + k] = y[k]
         /\ \A k \in 1..Len(z) : (x \o y \o z)[Len(x) + Len(y) + k] = z[k]
<1> DEFINE u == x \o y
<1>1. u \in Seq(S) /\ Len(u) = Len(x) + Len(y)
  BY ConcatProperties
<1>2. \A k \in 1..(Len(x) + Len(y)) : u[k] = IF k <= Len(x) THEN x[k] ELSE y[k - Len(x)]
  BY ConcatProperties
<1>3. Len(x) \in Nat /\ Len(y) \in Nat /\ Len(z) \in Nat
  OBVIOUS
<1> HIDE DEF u
<1>4. u \o z \in Seq(S) /\ Len(u \o z) = Len(u) + Len(z)
  BY <1>1, ConcatProperties
<1>5. \A k \in 1..(Len(u) + Len(z)) :
        (u \o z)[k] = IF k <= Len(u) THEN u[k] ELSE z[k - Len(u)]
  BY <1>1, ConcatProperties
<1>6. \A k \in 1..Len(x) : (u \o z)[k] = x[k]
  BY <1>1, <1>2, <1>3, <1>5
<1>7. \A k \in 1..Len(y) : (u \o z)[Len(x) + k] = y[k]
  <2> TAKE k \in 1..Len(y)
  <2>1. /\ Len(x) + k \in 1..(Len(u) + Len(z)) /\ Len(x) + k <= Len(u)
        /\ Len(x) + k \in 1..(Len(x) + Len(y))
        /\ ~(Len(x) + k <= Len(x)) /\ (Len(x) + k) - Len(x) = k
    BY <1>1, <1>3
  <2> QED
    BY <1>2, <1>5, <2>1
<1>8. \A k \in 1..Len(z) : (u \o z)[(Len(x) + Len(y)) + k] = z[k]
  <2> TAKE k \in 1..Len(z)
  <2> DEFINE m == Len(x) + Len(y)
  <2>1. m + k \in 1..(Len(u) + Len(z)) /\ ~(m + k <= Len(u)) /\ (m + k) - Len(u) = k
    BY <1>1, <1>3
  <2> HIDE DEF m
  <2>2. (u \o z)[m + k] = z[k]
    BY <1>5, <2>1
  <2> QED
    BY <2>2 DEF m
<1>9. DOMAIN (u \o z) = 1..(Len(x) + Len(y) + Len(z))
  BY <1>1, <1>3, <1>4
<1> QED
  BY <1>6, <1>7, <1>8, <1>9 DEF u

\* Where the copies of an image are in the sequence of all copies.
HeaderExtent(b) == Extent("header", HeaderOffset, IF HasHeader(b) THEN HeaderSize ELSE 0)
Place(b, w) ==
  (3 + Len(b.prebuilts)) + (CASE w = "a35" -> 1 [] w = "ssp" -> 2 [] w = "tsp" -> 3)

LEMMA CopiesAre ==
  ASSUME NEW b, b.prebuilts \in Seq(Nat)
  PROVE  /\ \A w \in Core : /\ Place(b, w) \in DOMAIN Copies(b)
                          /\ Copies(b)[Place(b, w)] = PayloadExtent(b, w)
         /\ \A k \in DOMAIN Copies(b) :
              \/ Copies(b)[k] \in {Extent("caliptra", 0, b.caliptra),
                                  Extent("asth", AsthOffset, AsthSize),
                                  Extent("fmc", FmcOffset, b.fmc), HeaderExtent(b)}
              \/ \E j \in DOMAIN b.prebuilts : Copies(b)[k] = PlacePrebuilts(b)[j]
              \/ \E w \in Core : k = Place(b, w)
         /\ \A k \in DOMAIN Copies(b) :
              \/ k \in 1..(3 + Len(b.prebuilts))
              \/ Copies(b)[k] = HeaderExtent(b)
              \/ \E w \in Core : k = Place(b, w)
<1> DEFINE n == Len(b.prebuilts)
           c1 == Extent("caliptra", 0, b.caliptra)
           c2 == Extent("asth", AsthOffset, AsthSize)
           c3 == Extent("fmc", FmcOffset, b.fmc)
           p1 == PayloadExtent(b, "a35")
           p2 == PayloadExtent(b, "ssp")
           p3 == PayloadExtent(b, "tsp")
           h == HeaderExtent(b)
           y == PlacePrebuilts(b)
           S == {c1, c2, c3, p1, p2, p3, h} \cup {y[k] : k \in 1..n}
           x == <<c1, c2, c3>>
           z == <<p1, p2, p3, h>>
           all == Copies(b)
<1>1. n \in Nat /\ DOMAIN b.prebuilts = 1..n
  OBVIOUS
<1>2. all = x \o y \o z
  BY DEF Copies, HeaderExtent
<1>3. y \in Seq(S) /\ Len(y) = n
  <2>1. DOMAIN y = 1..n
    BY <1>1 DEF PlacePrebuilts
  <2>2. y = [k \in 1..n |-> y[k]]
    BY <1>1 DEF PlacePrebuilts
  <2> HIDE DEF y, n
  <2>3. y \in [1..n -> S]
    BY <2>1, <2>2
  <2> HIDE DEF S
  <2> QED
    BY <1>1, <2>1, <2>3
<1>4. c1 \in S /\ c2 \in S /\ c3 \in S /\ p1 \in S /\ p2 \in S /\ p3 \in S /\ h \in S
  OBVIOUS
<1> HIDE DEF S, c1, c2, c3, p1, p2, p3, h, y, n, all
<1>5. x \in Seq(S) /\ Len(x) = 3 /\ x[1] = c1 /\ x[2] = c2 /\ x[3] = c3
  BY <1>4, Triple
<1>6. /\ z \in Seq(S) /\ Len(z) = 4 /\ z[1] = p1 /\ z[2] = p2 /\ z[3] = p3 /\ z[4] = h
  BY <1>4, Quadruple
<1> HIDE DEF x, z
<1>7. /\ DOMAIN all = 1..(3 + n + 4)
      /\ \A k \in 1..3 : all[k] = x[k]
      /\ \A k \in 1..n : all[3 + k] = y[k]
      /\ \A k \in 1..4 : all[(3 + n) + k] = z[k]
  <2>1. x \in Seq(S) /\ y \in Seq(S) /\ z \in Seq(S)
    BY <1>3, <1>5, <1>6
  <2>2. Len(x) = 3 /\ Len(y) = n /\ Len(z) = 4
    BY <1>3, <1>5, <1>6
  <2>3. /\ DOMAIN all = 1..(Len(x) + Len(y) + Len(z))
        /\ \A k \in 1..Len(x) : all[k] = x[k]
        /\ \A k \in 1..Len(y) : all[Len(x) + k] = y[k]
        /\ \A k \in 1..Len(z) : all[Len(x) + Len(y) + k] = z[k]
    BY <1>2, <2>1, Joined
  <2> QED
    BY <2>2, <2>3
<1>8. /\ all[(3 + n) + 1] = p1 /\ all[(3 + n) + 2] = p2
      /\ all[(3 + n) + 3] = p3 /\ all[(3 + n) + 4] = h
  BY <1>6, <1>7
<1>9. /\ Place(b, "a35") = (3 + n) + 1 /\ Place(b, "ssp") = (3 + n) + 2
      /\ Place(b, "tsp") = (3 + n) + 3
  BY DEF Place, n
<1>10. ASSUME NEW w \in Core
       PROVE  Place(b, w) \in DOMAIN all /\ all[Place(b, w)] = PayloadExtent(b, w)
  <2>1. (3 + n) + 1 \in DOMAIN all /\ (3 + n) + 2 \in DOMAIN all /\ (3 + n) + 3 \in DOMAIN all
    BY <1>1, <1>7
  <2>2. w = "a35" \/ w = "ssp" \/ w = "tsp"
    OBVIOUS
  <2> QED
    BY <1>8, <1>9, <2>1, <2>2 DEF p1, p2, p3
<1>11. ASSUME NEW k \in DOMAIN all
       PROVE  /\ \/ all[k] \in {c1, c2, c3, h}
                 \/ \E j \in DOMAIN b.prebuilts : all[k] = y[j]
                 \/ \E w \in Core : k = Place(b, w)
              /\ k \in 1..(3 + n) \/ all[k] = h \/ \E w \in Core : k = Place(b, w)
  <2>1. CASE k \in 1..3
    <3>1. (k = 1 \/ k = 2 \/ k = 3) /\ k \in 1..(3 + n)
      BY <1>1, <2>1
    <3>2. all[k] \in {c1, c2, c3}
      BY <1>5, <1>7, <3>1
    <3> QED
      BY <3>1, <3>2
  <2>2. CASE k - 3 \in 1..n
    <3>0. k \in Nat
      BY <1>1, <1>7
    <3>1. k = 3 + (k - 3) /\ k \in 1..(3 + n)
      BY <1>1, <2>2, <3>0
    <3>2. all[k] = y[k - 3]
      BY <1>7, <2>2, <3>1
    <3> QED
      BY <1>1, <2>2, <3>1, <3>2
  <2>3. CASE k \in {(3 + n) + 1, (3 + n) + 2, (3 + n) + 3, (3 + n) + 4}
    BY <1>8, <1>9, <2>3
  <2>4. k \in 1..3 \/ k - 3 \in 1..n
        \/ k \in {(3 + n) + 1, (3 + n) + 2, (3 + n) + 3, (3 + n) + 4}
    <3>1. k \in 1..(3 + n + 4)
      BY <1>7
    <3> QED
      BY <1>1, <3>1
  <2> QED
    BY <2>1, <2>2, <2>3, <2>4
<1>12. ASSUME NEW k \in DOMAIN all
       PROVE  \/ all[k] \in {c1, c2, c3, h}
              \/ \E j \in DOMAIN b.prebuilts : all[k] = y[j]
              \/ \E w \in Core : k = Place(b, w)
  BY <1>11
<1>13. ASSUME NEW k \in DOMAIN all
       PROVE  k \in 1..(3 + n) \/ all[k] = h \/ \E w \in Core : k = Place(b, w)
  BY <1>11
<1> QED
  BY <1>10, <1>12, <1>13 DEF all, c1, c2, c3, h, y, n

LEMMA Numbers ==
  ASSUME NEW b \in Images
  PROVE  /\ b.caliptra \in Nat /\ b.fmc \in Nat /\ b.prebuilts \in Seq(Nat)
         /\ AsthOffset \in Nat /\ AsthSize \in Nat /\ HeaderOffset \in Nat
         /\ HeaderSize \in Nat /\ FmcOffset = AsthOffset + AsthSize
<1>1. b \in Builds
  BY DEF Images
<1> QED
  BY <1>1, BuildAssumption, LayoutAssumption DEF FmcOffset

LEMMA Offsets ==
  ASSUME NEW b \in Images, NEW w \in Core
  PROVE  /\ b.payload[w] \in Nat /\ PayloadOffset[w] \in Nat
         /\ FlashOffset[w] = PayloadOffset[w]
         /\ FmcOffset <= PayloadOffset[w]
         /\ HeaderOffset + HeaderSize <= PayloadOffset[w]
         /\ w \in Given(b) <=> b.payload[w] > 0
<1>1. b \in Builds
  BY DEF Images
<1>2. b.payload \in [Core -> Nat]
  BY <1>1, BuildAssumption
<1>3. w \in Payloads
  BY DEF Payloads
<1>4. /\ PayloadOffset[w] \in Nat /\ FmcOffset <= PayloadOffset[w]
      /\ HeaderOffset + HeaderSize <= PayloadOffset[w]
  BY <1>3, LayoutAssumption
<1>5. FlashOffset[w] = PayloadOffset[w]
  BY WindowAssumption
<1>6. w \in Given(b) <=> b.payload[w] > 0
  BY <1>3 DEF Given
<1> QED
  BY <1>2, <1>4, <1>5, <1>6

LEMMA GivenInCore ==
  ASSUME NEW b, NEW p \in Given(b)
  PROVE  p \in Core
BY DEF Given, Payloads

\* Above the boot header there is nothing but payloads.
LEMMA OnlyPayloadsAbove ==
  ASSUME NEW b \in Images, BelowHeader(b), NEW w \in Core,
         NEW a \in Nat, PayloadOffset[w] <= a,
         NEW k \in DOMAIN Copies(b), Copies(b)[k].at <= a, a < Copies(b)[k].end
  PROVE  \E p \in Given(b) : /\ k = Place(b, p)
                             /\ PayloadOffset[p] <= a
                             /\ a < PayloadOffset[p] + b.payload[p]
<1>0. /\ b.caliptra \in Nat /\ b.fmc \in Nat /\ b.prebuilts \in Seq(Nat)
      /\ AsthOffset \in Nat /\ AsthSize \in Nat /\ HeaderOffset \in Nat /\ HeaderSize \in Nat
      /\ FmcOffset = AsthOffset + AsthSize
      /\ PayloadOffset[w] \in Nat /\ FmcOffset <= PayloadOffset[w]
      /\ HeaderOffset + HeaderSize <= PayloadOffset[w]
  BY Numbers, Offsets
<1>1. b.caliptra <= AsthOffset
  BY DEF Images, Accepted
<1>2. Copies(b)[k] # Extent("caliptra", 0, b.caliptra)
  BY <1>0, <1>1 DEF Extent
<1>3. Copies(b)[k] # Extent("asth", AsthOffset, AsthSize)
  BY <1>0 DEF Extent
<1>4. Copies(b)[k] # Extent("fmc", FmcOffset, b.fmc)
  BY <1>0 DEF Extent, BelowHeader
<1>5. Copies(b)[k] # HeaderExtent(b)
  BY <1>0 DEF Extent, HeaderExtent
<1>6. ~\E j \in DOMAIN b.prebuilts : Copies(b)[k] = PlacePrebuilts(b)[j]
  <2> SUFFICES ASSUME NEW j \in DOMAIN b.prebuilts, Copies(b)[k] = PlacePrebuilts(b)[j]
               PROVE  FALSE
    OBVIOUS
  <2>1. Copies(b)[k].end \in 0..HeaderOffset
    BY DEF BelowHeader
  <2> QED
    BY <1>0, <2>1
<1>7. PICK p \in Core : k = Place(b, p)
  BY <1>0, <1>2, <1>3, <1>4, <1>5, <1>6, CopiesAre
<1>8. Copies(b)[k] = PayloadExtent(b, p)
  BY <1>0, <1>7, CopiesAre
<1>9. PayloadOffset[p] <= a /\ a < PayloadOffset[p] + b.payload[p]
  BY <1>8 DEF PayloadExtent, Extent
<1>10. p \in Given(b)
  BY <1>9, Offsets
<1> QED
  BY <1>7, <1>9, <1>10

LEMMA StoredIsWhole ==
  ASSUME NEW b \in Images, NEW w \in Core, w \in NotBlank[b]
  PROVE  w \in Runnable[b]
<1> DEFINE Over(a) == {k \in DOMAIN Copies(b) : Copies(b)[k].at <= a /\ a < Copies(b)[k].end}
<1>0. /\ b.prebuilts \in Seq(Nat) /\ b.payload[w] \in Nat /\ PayloadOffset[w] \in Nat
      /\ FlashOffset[w] = PayloadOffset[w]
  BY Numbers, Offsets
<1>1. ASSUME NEW p \in Given(b)
      PROVE  /\ p \in Core /\ b.payload[p] \in Nat /\ PayloadOffset[p] \in Nat
             /\ FlashOffset[p] = PayloadOffset[p] /\ b.payload[p] > 0
  <2>1. p \in Core
    BY GivenInCore
  <2> QED
    BY <2>1, Offsets
<1>2. CASE b.payload[w] > 0
  <2>1. ASSUME NEW a \in FlashOffset[w]..(FlashOffset[w] + b.payload[w] - 1)
        PROVE  Owner(b, a) = w
    <3>1. /\ a \in Nat /\ PayloadOffset[w] <= a /\ a < PayloadOffset[w] + b.payload[w]
      BY <1>0
    <3>2. Place(b, w) \in DOMAIN Copies(b) /\ Copies(b)[Place(b, w)] = PayloadExtent(b, w)
      BY <1>0, CopiesAre
    <3>3. Place(b, w) \in Over(a)
      BY <3>1, <3>2 DEF PayloadExtent, Extent
    <3>4. Place(b, w) \in Nat /\ Place(b, w) > 3 + Len(b.prebuilts)
      BY <1>0 DEF Place
    <3>5. ASSUME NEW k \in Over(a) PROVE k \in Nat /\ k <= Place(b, w)
      <4>1. /\ k \in DOMAIN Copies(b) /\ Copies(b)[k].at <= a /\ a < Copies(b)[k].end
            /\ Len(b.prebuilts) \in Nat
        BY <1>0
      <4>2. CASE k \in 1..(3 + Len(b.prebuilts))
        BY <3>4, <4>1, <4>2
      <4>3. Copies(b)[k] # HeaderExtent(b)
        <5>1. HeaderOffset + HeaderSize <= a
          BY <1>0, <3>1, Numbers, Offsets
        <5> QED
          BY <3>1, <4>1, <5>1, Numbers DEF HeaderExtent, Extent
      <4>4. ASSUME NEW p \in Core, k = Place(b, p)
            PROVE  k = Place(b, w)
        <5>0. Copies(b)[k] = PayloadExtent(b, p)
          BY <1>0, <4>4, CopiesAre
        <5>1. /\ PayloadOffset[p] <= a /\ a < PayloadOffset[p] + b.payload[p]
              /\ b.payload[p] \in Nat /\ PayloadOffset[p] \in Nat
          BY <4>1, <4>4, <5>0, Offsets DEF PayloadExtent, Extent
        <5>2. CASE p # w
          <6>1. p \in Given(b) /\ w \in Given(b)
            BY <1>2, <3>1, <5>1, Offsets
          <6>2. ~Overlap(PayloadExtent(b, p), PayloadExtent(b, w))
            BY <5>2, <6>1 DEF Images, Accepted
          <6>3. /\ PayloadOffset[p] < PayloadOffset[w] + b.payload[w]
                /\ PayloadOffset[w] < PayloadOffset[p] + b.payload[p]
            BY <1>0, <3>1, <5>1
          <6> QED
            BY <6>2, <6>3 DEF Overlap, PayloadExtent, Extent
        <5> QED
          BY <4>4, <5>2
      <4> QED
        BY <1>0, <3>4, <4>1, <4>2, <4>3, <4>4, CopiesAre
    <3>7. Max(Over(a)) = Place(b, w)
      <4> DEFINE S == Over(a)
                 m == Place(b, w)
      <4>1. m \in S /\ m \in Nat /\ \A k \in S : k \in Nat /\ k <= m
        BY <3>3, <3>4, <3>5
      <4> HIDE DEF S, m
      <4>2. \A x \in S : (\A y \in S : x >= y) => x = m
        BY <4>1
      <4>3. \A y \in S : m >= y
        BY <4>1
      <4>4. Max(S) = m
        BY <4>1, <4>2, <4>3 DEF Max
      <4> QED
        BY <4>4 DEF S, m
    <3>8. Owner(b, a) = Copies(b)[Place(b, w)].name
      BY <3>3, <3>7 DEF Owner
    <3> QED
      BY <3>2, <3>8 DEF PayloadExtent, Extent
  <2> QED
    BY <1>2, <2>1 DEF Runnable
<1>3. CASE ~(b.payload[w] > 0) /\ BelowHeader(b)
  <2>1. Owner(b, FlashOffset[w]) # "erased"
    BY DEF NotBlank
  <2>2. PICK k \in DOMAIN Copies(b) :
          Copies(b)[k].at <= FlashOffset[w] /\ FlashOffset[w] < Copies(b)[k].end
    BY <2>1 DEF Owner
  <2>3. PICK p \in Given(b) : /\ PayloadOffset[p] <= FlashOffset[w]
                             /\ FlashOffset[w] < PayloadOffset[p] + b.payload[p]
    BY <1>0, <1>3, <2>2, OnlyPayloadsAbove
  <2>4. /\ p \in Core /\ p # w /\ b.payload[p] \in Nat /\ PayloadOffset[p] \in Nat
        /\ FlashOffset[p] = PayloadOffset[p]
    BY <1>1, <1>3
  <2>5. /\ WindowSize[p] \in Nat \ {0} /\ WindowSize[w] \in Nat \ {0}
        /\ \/ FlashOffset[p] + WindowSize[p] <= FlashOffset[w]
           \/ FlashOffset[w] + WindowSize[w] <= FlashOffset[p]
    BY <2>4, WindowAssumption
  <2>6. b.payload[p] > WindowSize[p]
    BY <1>0, <2>3, <2>4, <2>5
  <2>7. Overlap(PayloadExtent(b, p), Extent(w, FlashOffset[w], 1))
    BY <1>0, <2>3, <2>4 DEF Overlap, PayloadExtent, Extent
  <2> QED
    BY <1>3, <2>6, <2>7 DEF Runnable
<1>4. CASE ~(b.payload[w] > 0) /\ ~BelowHeader(b)
  BY <1>4 DEF Runnable
<1> QED
  BY <1>2, <1>3, <1>4

\* What is known of flash is what the tool has put there.
BuildInv == build \in Images /\ present = NotBlank[build]

LEMMA BuildNext ==
  ASSUME BuildInv, [Next]_boardVars
  PROVE  BuildInv'
<1>1. CASE Boots
  <2>1. UNCHANGED present
    BY <1>1 DEF Boots, Main, SliInit, DramInit, OtpInit, SetAuthManifest, PopulateIdevid,
       AuthorizeA2, RejectA2, CopyA2, DecompressA2, ReadEntry, Load, LoadFromNor,
       LoadFromEmmc, LoadFromOther, Handover, ReleaseCa35, EnableM4
  <2> QED
    BY <1>1, <2>1 DEF Boots, BuildInv
<1>2. CASE Warms
  BY <1>2 DEF Warms, CaliptraReady, BuildInv
<1>3. CASE PowerCycle
  BY <1>3 DEF PowerCycle, Reset, BuildInv
<1>4. CASE Serve \/ Ca35Sends \/ Ca35Receives
  BY <1>4 DEF Serve, Ca35Sends, Ca35Receives, bootVars, BuildInv
<1>5. CASE UNCHANGED boardVars
  BY <1>5 DEF boardVars, bootVars, BuildInv
<1> QED
  BY <1>1, <1>2, <1>3, <1>4, <1>5 DEF Next

(* Of every image that the tool builds, and whatever fails or is tried again:*)
(* a core that was given a file, and runs on a raw payload from NOR flash (an *)
(* M4, or the CA35 of an A1), runs on a load with both ends as in flash,     *)
(* where every byte of it is that file's.  A core without a file runs only   *)
(* where another file was accepted that is longer than its own place.        *)
THEOREM BuiltIsRun == Spec => []RunsWhatWasBuilt
<1>1. BoardInit => BuildInv
  BY DEF BoardInit, BuildInv
<1>2. BuildInv /\ [Next]_boardVars => BuildInv'
  BY BuildNext
<1>3. BuildInv /\ TypeOK /\ RunningCoresAreLoaded => RunsWhatWasBuilt
  <2> SUFFICES ASSUME BuildInv, TypeOK, RunningCoresAreLoaded, media = "nor",
                      NEW w \in running \cap (IF hw = "A1" THEN Core ELSE M4)
               PROVE  dram[w] = Part /\ w \in Runnable[build]
    BY DEF RunsWhatWasBuilt
  <2>1. w \in Core /\ (hw = "A1" \/ w \in M4)
    OBVIOUS
  <2>2. dram[w] = Part /\ w \in present
    BY <2>1 DEF RunningCoresAreLoaded
  <2> QED
    BY <2>1, <2>2, StoredIsWhole DEF BuildInv
<1> QED
  BY <1>1, <1>2, <1>3, BoardReleaseIsGated, PTL DEF Spec

-----------------------------------------------------------------------------
(* The IPC loop.  Ids rise in both directions, so they say which request a  *)
(* reply belongs to: the next frame to serve is either the oldest request   *)
(* that has no reply in the mailbox, or one that gets none.                 *)

Message == [id : Nat, frame : Frames]
Asking == [id : Nat, env : UNION {r.asks : r \in Requests}]
Sent == [id : Nat, frame : UNION {h.reply : h \in Handled}]
Unanswered == (Len(outbox) + 1)..Len(open)

MailTyped ==
  /\ queue = <<>> /\ asked \in Nat
  /\ inbox \in Seq(Message) /\ open \in Seq(Asking) /\ outbox \in Seq(Sent)
IdsRise ==
  /\ \A j \in 1..Len(inbox) : inbox[j].id < asked
  /\ \A k \in 1..Len(open) : open[k].id < asked
  /\ \A i, j \in 1..Len(inbox) : i < j => inbox[i].id < inbox[j].id
  /\ \A i, j \in 1..Len(open) : i < j => open[i].id < open[j].id
\* What the CA35 waits for and has no reply yet is on its way to the BootMCU.
OpenIsPending ==
  \A k \in Unanswered : \E j \in 1..Len(inbox) : inbox[j].id = open[k].id
\* What is on its way is waited for, unless it asks for nothing.
PendingIsOpen ==
  /\ \A j \in 1..Len(inbox) : \A env \in Served(inbox[j].frame) :
       \E k \in Unanswered : open[k].id = inbox[j].id /\ open[k].env = env
  /\ \A j \in 1..Len(inbox) : Served(inbox[j].frame) = None =>
       \A k \in 1..Len(open) : open[k].id # inbox[j].id
OrderInv == MailTyped /\ IdsRise /\ OpenIsPending /\ PendingIsOpen /\ RepliesInOrder

LEMMA TheOne ==
  ASSUME NEW x
  PROVE  The(Some(x)) = x
BY DEF The, Some

\* A frame of the CA35 is served once or not at all.
LEMMA ServedIs ==
  ASSUME CodecAgrees(Requests), NEW r \in Requests
  PROVE  /\ Served(r.frame) = r.asks
         /\ r.asks = None \/ \E env : r.asks = Some(env)
BY RequestAssumption DEF CodecAgrees

LEMMA NoReply ==
  ASSUME NEW frame, NEW board, Served(frame) = None
  PROVE  HandleIpc(frame, board) = None
<1>1. CASE frame[1] \notin 1..MaxEnvelopeLen
  BY <1>1 DEF HandleIpc
<1>2. CASE frame[1] \in 1..MaxEnvelopeLen
  <2>1. \A env \in FromFrame(frame) : Reply(env, board) = None
    BY <1>2 DEF Served, Reply, None
  <2> QED
    BY <1>2, <2>1 DEF HandleIpc, None
<1> QED
  BY <1>1, <1>2

\* What the BootMCU says to a request, in an envelope.
LEMMA ReplyAnswers ==
  ASSUME NEW board \in Boards, NEW env, env.payload.kind \in {"ping", "get_rot_status"}
  PROVE  \E reply : Reply(env, board) = Some(reply) /\ Answers(board, env, reply)
<1>1. CASE env.payload.kind = "ping"
  BY <1>1 DEF Reply, Answers, Envelope
<1>2. CASE env.payload.kind = "get_rot_status"
  <2> DEFINE status == RotStatusOf(board)
  <2>1. Reply(env, board) = Some(Envelope(env.seq, RotStatus(status)))
    BY <1>2 DEF Reply
  <2>2. board = [board EXCEPT !.rt = board.rt] /\ board.rt \in BOOLEAN
    BY DEF Boards
  <2>3. status \in {RotStatusOf([board EXCEPT !.rt = ready]) : ready \in BOOLEAN}
    BY <2>2
  <2>4. status.rt = board.rt
    BY DEF RotStatusOf
  <2> HIDE DEF status
  <2>5. Answers(board, env, Envelope(env.seq, RotStatus(status)))
    BY <1>2, <2>3, <2>4 DEF Answers, Envelope, RotStatus, Payload
  <2> QED
    BY <2>1, <2>5
<1> QED
  BY <1>1, <1>2

\* And in a frame.
LEMMA FrameAnswers ==
  ASSUME CodecAgrees(Requests), NEW board \in Boards, NEW r \in Requests, NEW env \in r.asks
  PROVE  \E frame : /\ HandleIpc(r.frame, board) = Some(frame)
                    /\ \E reply \in FromFrame(frame) : Answers(board, env, reply)
<1>1. /\ Served(r.frame) = Some(env)
      /\ env.payload.kind \in {"ping", "get_rot_status"}
      /\ r.frame[1] \in 1..MaxEnvelopeLen
  BY ServedIs DEF Served, Some, None
<1>2. PICK reply : Reply(env, board) = Some(reply) /\ Answers(board, env, reply)
  BY <1>1, ReplyAnswers
<1>3. PICK bytes \in Encode(reply, MaxEnvelopeLen) : FromFrame(ToFrame(bytes)) = {reply}
  BY <1>2 DEF CodecAgrees, Some
<1>4. Encode(reply, MaxEnvelopeLen) = {bytes}
  BY <1>3 DEF Encode
<1>5. /\ env \in FromFrame(r.frame)
      /\ \A other \in FromFrame(r.frame) \ {env} : Reply(other, board) = None
  <2>1. \A other \in FromFrame(r.frame) \ {env} :
          other.payload.kind \notin {"ping", "get_rot_status"}
    BY <1>1 DEF Served, Some
  <2> QED
    BY <1>1, <2>1 DEF Served, Some, Reply
<1>6. HandleIpc(r.frame, board) = Some(ToFrame(bytes))
  BY <1>1, <1>2, <1>4, <1>5 DEF HandleIpc, Some, None
<1> QED
  BY <1>2, <1>3, <1>6

LEMMA StillAnswers ==
  ASSUME NEW rev, NEW sb, NEW before \in BOOLEAN, NEW after \in BOOLEAN, before => after,
         NEW request, NEW reply,
         Answers([hw |-> rev, secure |-> sb, rt |-> before], request, reply)
  PROVE  Answers([hw |-> rev, secure |-> sb, rt |-> after], request, reply)
<1> DEFINE old == [hw |-> rev, secure |-> sb, rt |-> before]
           new == [hw |-> rev, secure |-> sb, rt |-> after]
<1>1. \A ready \in BOOLEAN : [old EXCEPT !.rt = ready] = [new EXCEPT !.rt = ready]
  OBVIOUS
<1>2. old.rt => new.rt
  OBVIOUS
<1>3. Answers(old, request, reply)
  OBVIOUS
<1> HIDE DEF old, new
<1>4. {RotStatusOf([old EXCEPT !.rt = ready]) : ready \in BOOLEAN}
        = {RotStatusOf([new EXCEPT !.rt = ready]) : ready \in BOOLEAN}
  <2>1. \A ready \in BOOLEAN : RotStatusOf([old EXCEPT !.rt = ready])
                                 = RotStatusOf([new EXCEPT !.rt = ready])
    BY <1>1, Zenon
  <2> QED
    BY <2>1
<1>5. Answers(new, request, reply)
  <2>1. CASE request.payload.kind = "ping"
    BY <1>3, <2>1 DEF Answers
  <2>2. CASE request.payload.kind # "ping"
    <3>1. /\ reply.payload.value \in {RotStatusOf([old EXCEPT !.rt = ready]) : ready \in BOOLEAN}
          /\ reply.payload.value.rt => old.rt
      BY <1>3, <2>2, Zenon DEF Answers
    <3>2. /\ reply.payload.value \in {RotStatusOf([new EXCEPT !.rt = ready]) : ready \in BOOLEAN}
          /\ reply.payload.value.rt => new.rt
      BY <1>2, <1>4, <3>1, Zenon
    <3>3. /\ reply.seq = request.seq /\ request.payload.kind = "get_rot_status"
          /\ reply.payload.kind = "rot_status"
      BY <1>3, <2>2, Zenon DEF Answers
    <3> QED
      BY <3>2, <3>3, Zenon DEF Answers
  <2> QED
    BY <2>1, <2>2
<1> QED
  BY <1>5 DEF new

\* The boot and Caliptra leave the mail alone.
LEMMA BootKeepsOrder ==
  ASSUME OrderInv, UNCHANGED <<ipcVars, hw, secure>>, rt \in BOOLEAN, rt' \in BOOLEAN,
         rt => rt'
  PROVE  OrderInv'
<1>1. MailTyped' /\ IdsRise' /\ OpenIsPending' /\ PendingIsOpen'
  <2>1. UNCHANGED <<inbox, outbox, queue, asked, open, Unanswered>>
    BY DEF ipcVars, Unanswered
  <2>2. MailTyped'
    BY <2>1 DEF OrderInv, MailTyped
  <2>3. IdsRise'
    BY <2>1 DEF OrderInv, IdsRise
  <2>4. OpenIsPending'
    BY <2>1 DEF OrderInv, OpenIsPending
  <2>5. PendingIsOpen'
    BY <2>1 DEF OrderInv, PendingIsOpen
  <2> QED
    BY <2>2, <2>3, <2>4, <2>5
<1>2. \A request, reply :
        Answers(ThisBoard, request, reply) => Answers(ThisBoard', request, reply)
  BY StillAnswers DEF ThisBoard
<1>3. RepliesInOrder'
  <2>1. RepliesInOrder /\ open' = open /\ outbox' = outbox
    BY DEF OrderInv, ipcVars
  <2> QED
    BY <1>2, <2>1 DEF RepliesInOrder
<1> QED
  BY <1>1, <1>3 DEF OrderInv

LEMMA NoMail ==
  ASSUME inbox = <<>>, outbox = <<>>, queue = <<>>, asked = 0, open = <<>>
  PROVE  OrderInv
<1>1. \A S : <<>> \in Seq(S)
  OBVIOUS
<1>2. Len(inbox) = 0 /\ Len(open) = 0 /\ DOMAIN outbox = {} /\ Len(outbox) = 0
  OBVIOUS
<1> QED
  BY <1>1, <1>2 DEF OrderInv, MailTyped, IdsRise, OpenIsPending, PendingIsOpen,
     RepliesInOrder, Unanswered

LEMMA NoMailNext ==
  ASSUME inbox' = <<>>, outbox' = <<>>, queue' = <<>>, asked' = 0, open' = <<>>
  PROVE  OrderInv'
<1>1. \A S : <<>> \in Seq(S)
  OBVIOUS
<1>2. Len(inbox') = 0 /\ Len(open') = 0 /\ DOMAIN outbox' = {} /\ Len(outbox') = 0
  OBVIOUS
<1> QED
  BY <1>1, <1>2 DEF OrderInv, MailTyped, IdsRise, OpenIsPending, PendingIsOpen,
     RepliesInOrder, Unanswered

\* A sequence of ids that rise goes on with one that no entry has.
LEMMA RisesOn ==
  ASSUME NEW s, NEW t, NEW n \in Nat, Len(s) \in Nat, Len(t) = Len(s) + 1,
         \A j \in 1..Len(s) : t[j] = s[j], \A j \in 1..Len(s) : s[j].id \in Nat,
         \A j \in 1..Len(s) : s[j].id < n, t[Len(s) + 1].id = n,
         \A i, j \in 1..Len(s) : i < j => s[i].id < s[j].id
  PROVE  /\ \A j \in 1..Len(t) : t[j].id < n + 1
         /\ \A i, j \in 1..Len(t) : i < j => t[i].id < t[j].id
<1> DEFINE N == Len(s)
<1>1. N \in Nat /\ Len(t) = N + 1
  OBVIOUS
<1>2. /\ \A j \in 1..N : t[j] = s[j] /\ s[j].id \in Nat /\ s[j].id < n
      /\ t[N + 1].id = n
      /\ \A i, j \in 1..N : i < j => s[i].id < s[j].id
  OBVIOUS
<1> HIDE DEF N
<1>3. \A j \in 1..(N + 1) : j \in 1..N \/ j = N + 1
  BY <1>1
<1>4. \A j \in 1..(N + 1) : t[j].id < n + 1
  BY <1>2, <1>3
<1>5. \A i, j \in 1..(N + 1) : i < j => t[i].id < t[j].id
  <2> SUFFICES ASSUME NEW i \in 1..(N + 1), NEW j \in 1..(N + 1), i < j
               PROVE  t[i].id < t[j].id
    OBVIOUS
  <2>1. i \in 1..N
    BY <1>1
  <2>2. CASE j = N + 1
    BY <1>2, <2>1, <2>2
  <2>3. CASE j \in 1..N
    BY <1>2, <2>1, <2>3
  <2> QED
    BY <1>3, <2>2, <2>3
<1> QED
  BY <1>1, <1>4, <1>5

LEMMA SendKeepsOrder ==
  ASSUME CodecAgrees(Requests), OrderInv, Ca35Sends
  PROVE  OrderInv'
<1>1. PICK r \in Requests :
        /\ inbox' = Append(inbox, [id |-> asked, frame |-> r.frame])
        /\ open' = IF r.asks = None THEN open
                   ELSE Append(open, [id |-> asked, env |-> The(r.asks)])
  BY DEF Ca35Sends
<1>2. asked' = asked + 1 /\ UNCHANGED <<bootVars, build, outbox, queue>>
  BY DEF Ca35Sends
<1>3. /\ queue = <<>> /\ asked \in Nat
      /\ inbox \in Seq(Message) /\ open \in Seq(Asking) /\ outbox \in Seq(Sent)
  BY DEF OrderInv, MailTyped
<1> DEFINE message == [id |-> asked, frame |-> r.frame]
<1>4. message \in Message /\ message.id = asked /\ message.frame = r.frame
  BY <1>3 DEF Message, Frames
<1> HIDE DEF message
<1>5. /\ inbox' \in Seq(Message) /\ Len(inbox') = Len(inbox) + 1
      /\ \A j \in 1..Len(inbox) : inbox'[j] = inbox[j]
      /\ inbox'[Len(inbox) + 1] = message
  BY <1>1, <1>3, <1>4, AppendProperties DEF message
<1>6. Len(inbox) \in Nat /\ Len(open) \in Nat /\ Len(outbox) \in Nat
  BY <1>3
<1>7. \A j \in 1..Len(inbox') : j \in 1..Len(inbox) \/ j = Len(inbox) + 1
  BY <1>5, <1>6
<1>8. /\ \A j \in 1..Len(inbox) : inbox[j].id \in Nat
      /\ \A k \in 1..Len(open) : open[k].id \in Nat
  <2>1. \A j \in 1..Len(inbox) : inbox[j] \in Message
    BY <1>3
  <2>2. \A k \in 1..Len(open) : open[k] \in Asking
    BY <1>3
  <2> QED
    BY <2>1, <2>2 DEF Message, Asking
<1>9. /\ \A j \in 1..Len(inbox') : inbox'[j].id < asked'
      /\ \A i, j \in 1..Len(inbox') : i < j => inbox'[i].id < inbox'[j].id
  BY <1>2, <1>3, <1>4, <1>5, <1>6, <1>8, RisesOn DEF OrderInv, IdsRise
<1>10. CASE r.asks = None
  <2>1. open' = open
    BY <1>1, <1>10
  <2>2. Served(message.frame) = None
    BY <1>4, <1>10, ServedIs
  <2>3. MailTyped'
    BY <1>2, <1>3, <1>5, <2>1 DEF MailTyped
  <2>4. IdsRise'
    BY <1>2, <1>3, <1>8, <1>9, <2>1 DEF OrderInv, IdsRise
  <2>5. OpenIsPending'
    BY <1>2, <1>5, <1>6, <2>1 DEF OrderInv, OpenIsPending, Unanswered
  <2>6. PendingIsOpen'
    <3>1. ASSUME NEW j \in 1..Len(inbox'), NEW e \in Served(inbox'[j].frame)
          PROVE  \E k \in Unanswered : open[k].id = inbox'[j].id /\ open[k].env = e
      <4>1. j \in 1..Len(inbox) /\ inbox'[j] = inbox[j]
        BY <1>5, <1>7, <2>2, <3>1 DEF None
      <4>2. e \in Served(inbox[j].frame)
        BY <3>1, <4>1
      <4>3. PendingIsOpen
        BY DEF OrderInv
      <4>4. \E k \in Unanswered : open[k].id = inbox[j].id /\ open[k].env = e
        BY <4>1, <4>2, <4>3 DEF PendingIsOpen
      <4> QED
        BY <4>1, <4>4
    <3>2. ASSUME NEW j \in 1..Len(inbox'), Served(inbox'[j].frame) = None,
                 NEW k \in 1..Len(open)
          PROVE  open[k].id # inbox'[j].id
      <4>1. CASE j = Len(inbox) + 1
        BY <1>3, <1>4, <1>5, <1>8, <4>1 DEF OrderInv, IdsRise
      <4>2. CASE j \in 1..Len(inbox)
        BY <1>5, <3>2, <4>2 DEF OrderInv, PendingIsOpen
      <4> QED
        BY <1>7, <4>1, <4>2
    <3>3. Unanswered' = Unanswered
      BY <1>2, <2>1 DEF Unanswered
    <3>4. \A j \in 1..Len(inbox') : \A env \in Served(inbox'[j].frame) :
            \E k \in Unanswered' : open'[k].id = inbox'[j].id /\ open'[k].env = env
      BY <2>1, <3>1, <3>3
    <3>5. \A j \in 1..Len(inbox') : Served(inbox'[j].frame) = None =>
            \A k \in 1..Len(open') : open'[k].id # inbox'[j].id
      BY <2>1, <3>2
    <3> QED
      BY <3>4, <3>5, Zenon DEF PendingIsOpen
  <2>7. RepliesInOrder'
    BY <1>2, <2>1 DEF OrderInv, RepliesInOrder, ThisBoard, bootVars, fixedVars, caliptraVars
  <2> QED
    BY <2>3, <2>4, <2>5, <2>6, <2>7 DEF OrderInv
<1>11. CASE r.asks # None
  <2>1. PICK env : r.asks = Some(env)
    BY <1>11, ServedIs
  <2>2. The(r.asks) = env /\ Served(message.frame) = {env}
    BY <1>4, <2>1, ServedIs, TheOne DEF Some
  <2> DEFINE asking == [id |-> asked, env |-> env]
  <2>3. asking \in Asking /\ asking.id = asked /\ asking.env = env
    BY <1>3, <2>1 DEF Asking, Some
  <2> HIDE DEF asking
  <2>4. /\ open' \in Seq(Asking) /\ Len(open') = Len(open) + 1
        /\ \A k \in 1..Len(open) : open'[k] = open[k]
        /\ open'[Len(open) + 1] = asking
    BY <1>1, <1>3, <1>11, <2>2, <2>3, AppendProperties DEF asking
  <2>5. \A k \in 1..Len(open') : k \in 1..Len(open) \/ k = Len(open) + 1
    BY <1>6, <2>4
  <2>6. Len(outbox) <= Len(open)
    BY DEF OrderInv, RepliesInOrder
  <2>7. MailTyped'
    BY <1>2, <1>3, <1>5, <2>4 DEF MailTyped
  <2>8. IdsRise'
    <3>1. /\ \A k \in 1..Len(open') : open'[k].id < asked'
          /\ \A i, j \in 1..Len(open') : i < j => open'[i].id < open'[j].id
      BY <1>2, <1>3, <1>6, <1>8, <2>3, <2>4, RisesOn DEF OrderInv, IdsRise
    <3> QED
      BY <1>9, <3>1 DEF IdsRise
  <2>9. OpenIsPending'
    <3> SUFFICES ASSUME NEW k \in (Len(outbox) + 1)..Len(open')
                 PROVE  \E j \in 1..Len(inbox') : inbox'[j].id = open'[k].id
      BY <1>2 DEF OpenIsPending, Unanswered
    <3>1. CASE k = Len(open) + 1
      BY <1>4, <1>5, <1>6, <2>3, <2>4, <3>1
    <3>2. CASE k \in (Len(outbox) + 1)..Len(open)
      <4>1. PICK j \in 1..Len(inbox) : inbox[j].id = open[k].id
        BY <3>2 DEF OrderInv, OpenIsPending, Unanswered
      <4>2. inbox'[j] = inbox[j] /\ j \in 1..Len(inbox') /\ open'[k] = open[k]
        BY <1>5, <1>6, <2>4, <3>2, <4>1
      <4> QED
        BY <4>1, <4>2
    <3> QED
      BY <1>6, <2>4, <3>1, <3>2
  <2>10. PendingIsOpen'
    <3>1. ASSUME NEW j \in 1..Len(inbox'), NEW e \in Served(inbox'[j].frame)
          PROVE  \E k \in (Len(outbox) + 1)..Len(open') :
                   open'[k].id = inbox'[j].id /\ open'[k].env = e
      <4>1. CASE j = Len(inbox) + 1
        BY <1>4, <1>5, <1>6, <2>2, <2>3, <2>4, <2>6, <3>1, <4>1
      <4>2. CASE j \in 1..Len(inbox)
        <5>1. inbox'[j] = inbox[j]
          BY <1>5, <4>2
        <5>2. PICK k \in Unanswered : open[k].id = inbox[j].id /\ open[k].env = e
          BY <3>1, <4>2, <5>1 DEF OrderInv, PendingIsOpen
        <5>3. k \in 1..Len(open) /\ k \in (Len(outbox) + 1)..Len(open')
          BY <1>6, <2>4 DEF Unanswered
        <5> QED
          BY <2>4, <5>1, <5>2, <5>3
      <4> QED
        BY <1>7, <4>1, <4>2
    <3>2. ASSUME NEW j \in 1..Len(inbox'), Served(inbox'[j].frame) = None
          PROVE  \A k \in 1..Len(open') : open'[k].id # inbox'[j].id
      <4>1. j \in 1..Len(inbox)
        BY <1>5, <1>7, <2>2, <3>2 DEF None
      <4>2. inbox'[j] = inbox[j] /\ inbox[j].id < asked
        BY <1>5, <4>1 DEF OrderInv, IdsRise
      <4> QED
        <5> TAKE k \in 1..Len(open')
        <5>1. CASE k = Len(open) + 1
          BY <1>3, <1>8, <2>3, <2>4, <4>1, <4>2, <5>1
        <5>2. CASE k \in 1..Len(open)
          BY <2>4, <3>2, <4>1, <4>2, <5>2 DEF OrderInv, PendingIsOpen
        <5> QED
          BY <2>5, <5>1, <5>2
    <3> QED
      BY <1>2, <3>1, <3>2 DEF PendingIsOpen, Unanswered
  <2>11. RepliesInOrder'
    <3>1. ThisBoard' = ThisBoard /\ outbox' = outbox
      BY <1>2 DEF ThisBoard, bootVars, fixedVars, caliptraVars
    <3>2. DOMAIN outbox \subseteq 1..Len(open)
      BY <1>3, <1>6, <2>6
    <3> QED
      BY <1>6, <2>4, <3>1, <3>2 DEF OrderInv, RepliesInOrder
  <2> QED
    BY <2>7, <2>8, <2>9, <2>10, <2>11 DEF OrderInv
<1> QED
  BY <1>10, <1>11

\* The entries of what is left of a mailbox.
LEMMA Shift ==
  ASSUME NEW S, NEW s \in Seq(S), s # <<>>
  PROVE  /\ Len(s) \in Nat \ {0} /\ Tail(s) \in Seq(S) /\ Len(Tail(s)) = Len(s) - 1
         /\ Head(s) = s[1] /\ s[1] \in S
         /\ \A k \in 1..(Len(s) - 1) : Tail(s)[k] = s[k + 1] /\ k + 1 \in 1..Len(s)
<1>1. Tail(s) \in Seq(S) /\ Len(Tail(s)) = Len(s) - 1 /\ Head(s) \in S
  BY HeadTailProperties
<1>2. \A k \in 1..Len(Tail(s)) : Tail(s)[k] = s[k + 1]
  BY HeadTailProperties
<1>3. Len(s) \in Nat \ {0} /\ Head(s) = s[1]
  OBVIOUS
<1> QED
  BY <1>1, <1>2, <1>3

LEMMA ReceiveKeepsOrder ==
  ASSUME OrderInv, Ca35Receives
  PROVE  OrderInv'
<1>1. /\ queue = <<>> /\ asked \in Nat /\ outbox # <<>> /\ open # <<>>
      /\ inbox \in Seq(Message) /\ open \in Seq(Asking) /\ outbox \in Seq(Sent)
  BY DEF OrderInv, MailTyped, Ca35Receives
<1>2. /\ outbox' = Tail(outbox) /\ open' = Tail(open)
      /\ UNCHANGED <<inbox, queue, asked>> /\ ThisBoard' = ThisBoard
  BY DEF Ca35Receives, ThisBoard, bootVars
<1>3. /\ Len(open) \in Nat \ {0} /\ Len(open') = Len(open) - 1 /\ open' \in Seq(Asking)
      /\ \A k \in 1..(Len(open) - 1) : open'[k] = open[k + 1] /\ k + 1 \in 1..Len(open)
  BY <1>1, <1>2, Shift
<1>4. /\ Len(outbox) \in Nat \ {0} /\ Len(outbox') = Len(outbox) - 1
      /\ outbox' \in Seq(Sent)
      /\ \A k \in 1..(Len(outbox) - 1) :
           outbox'[k] = outbox[k + 1] /\ k + 1 \in 1..Len(outbox)
  BY <1>1, <1>2, Shift
<1>5. MailTyped'
  BY <1>1, <1>2, <1>3, <1>4 DEF MailTyped
<1>6. IdsRise'
  <2>1. IdsRise
    BY DEF OrderInv
  <2>2. \A k \in 1..Len(open') : open'[k].id < asked
    BY <1>3, <2>1 DEF IdsRise
  <2>3. \A i, j \in 1..Len(open') : i < j => open'[i].id < open'[j].id
    <3> TAKE i, j \in 1..Len(open')
    <3>1. /\ open'[i] = open[i + 1] /\ i + 1 \in 1..Len(open)
          /\ open'[j] = open[j + 1] /\ j + 1 \in 1..Len(open)
      BY <1>3
    <3>2. i < j => i + 1 < j + 1
      OBVIOUS
    <3> QED
      BY <2>1, <3>1, <3>2 DEF IdsRise
  <2> QED
    BY <1>2, <2>1, <2>2, <2>3 DEF IdsRise
<1>7. /\ \A k \in (Len(outbox') + 1)..Len(open') : k + 1 \in Unanswered /\ k \in 1..Len(open')
      /\ \A k \in Unanswered : k - 1 \in (Len(outbox') + 1)..Len(open') /\ open'[k - 1] = open[k]
  <2>1. \A k \in Unanswered : k - 1 \in 1..(Len(open) - 1) /\ (k - 1) + 1 = k
    BY <1>3, <1>4 DEF Unanswered
  <2> QED
    BY <1>3, <1>4, <2>1 DEF Unanswered
<1>8. OpenIsPending'
  <2> SUFFICES ASSUME NEW k \in (Len(outbox') + 1)..Len(open')
               PROVE  \E j \in 1..Len(inbox) : inbox[j].id = open'[k].id
    BY <1>2 DEF OpenIsPending, Unanswered
  <2>1. open'[k] = open[k + 1] /\ k + 1 \in Unanswered
    BY <1>3, <1>7
  <2> QED
    BY <2>1 DEF OrderInv, OpenIsPending
<1>9. PendingIsOpen'
  <2>1. Unanswered' = (Len(outbox') + 1)..Len(open') /\ inbox' = inbox
    BY <1>2 DEF Unanswered
  <2>2. ASSUME NEW j \in 1..Len(inbox'), NEW env \in Served(inbox'[j].frame)
        PROVE  \E k \in Unanswered' : open'[k].id = inbox'[j].id /\ open'[k].env = env
    <3>1. PICK k \in Unanswered : open[k].id = inbox[j].id /\ open[k].env = env
      BY <2>1, <2>2 DEF OrderInv, PendingIsOpen
    <3>2. k - 1 \in Unanswered' /\ open'[k - 1] = open[k]
      BY <1>7, <2>1, <3>1
    <3> QED
      BY <2>1, <3>1, <3>2
  <2>3. ASSUME NEW j \in 1..Len(inbox'), Served(inbox'[j].frame) = None,
               NEW k \in 1..Len(open')
        PROVE  open'[k].id # inbox'[j].id
    <3>1. open'[k] = open[k + 1] /\ k + 1 \in 1..Len(open)
      BY <1>3
    <3> QED
      BY <2>1, <2>3, <3>1 DEF OrderInv, PendingIsOpen
  <2> QED
    BY <2>2, <2>3, Zenon DEF PendingIsOpen
<1>10. RepliesInOrder'
  <2>1. RepliesInOrder
    BY DEF OrderInv
  <2>2. Len(outbox') <= Len(open')
    BY <1>3, <1>4, <2>1 DEF RepliesInOrder
  <2>3. \A k \in 1..Len(outbox) :
          /\ outbox[k].id = open[k].id
          /\ \E reply \in FromFrame(outbox[k].frame) :
               Answers(ThisBoard, open[k].env, reply)
    BY <1>1, <2>1 DEF RepliesInOrder
  <2>4. ASSUME NEW k \in 1..Len(outbox')
        PROVE  /\ outbox'[k] = outbox[k + 1] /\ k + 1 \in 1..Len(outbox)
               /\ open'[k] = open[k + 1]
    BY <1>3, <1>4, <2>2
  <2>5. DOMAIN outbox' = 1..Len(outbox')
    BY <1>4
  <2>6. \A k \in DOMAIN outbox' :
          /\ outbox'[k].id = open'[k].id
          /\ \E reply \in FromFrame(outbox'[k].frame) :
               Answers(ThisBoard, open'[k].env, reply)
    BY <2>3, <2>4, <2>5
  <2> QED
    BY <1>2, <2>2, <2>6 DEF RepliesInOrder
<1> QED
  BY <1>5, <1>6, <1>8, <1>9, <1>10 DEF OrderInv

\* Nothing stays in the queue from one turn to the next, so a turn serves what
\* it has received.
LEMMA ServeIs ==
  ASSUME MailTyped, Serve
  PROVE  /\ inbox # <<>> /\ inbox' = Tail(inbox) /\ queue' = <<>>
         /\ UNCHANGED <<asked, open>> /\ ThisBoard' = ThisBoard
         /\ HandleIpc(Head(inbox).frame, ThisBoard) \subseteq UNION {h.reply : h \in Handled}
         /\ outbox' = IF HandleIpc(Head(inbox).frame, ThisBoard) = None THEN outbox
                      ELSE Append(outbox,
                             [id |-> Head(inbox).id,
                              frame |-> The(HandleIpc(Head(inbox).frame, ThisBoard))])
<1>1. inbox # <<>> /\ queue = <<>>
  BY DEF MailTyped, Serve
<1>2. Enqueue(queue, Head(inbox)) = <<Head(inbox)>>
  BY <1>1, QueueAssumption DEF Enqueue
<1>3. Head(<<Head(inbox)>>) = Head(inbox) /\ Tail(<<Head(inbox)>>) = <<>>
  OBVIOUS
<1>4. PICK h \in Handled :
        /\ h.board = ThisBoard /\ h.frame = Head(inbox).frame
        /\ outbox' = IF h.reply = None THEN outbox
                     ELSE Append(outbox, [id |-> Head(inbox).id, frame |-> The(h.reply)])
  BY <1>1, <1>2, <1>3 DEF Serve
<1>5. h.reply = HandleIpc(Head(inbox).frame, ThisBoard)
  BY <1>4 DEF Handled
<1> QED
  BY <1>1, <1>2, <1>3, <1>4, <1>5 DEF Serve, ThisBoard, bootVars

LEMMA ServeKeepsOrder ==
  ASSUME CodecAgrees(Requests), TypeOK, OrderInv, Serve
  PROVE  OrderInv'
<1> DEFINE head == inbox[1]
           n == Len(outbox) + 1
<1>1. /\ queue = <<>> /\ asked \in Nat
      /\ inbox \in Seq(Message) /\ open \in Seq(Asking) /\ outbox \in Seq(Sent)
  BY DEF OrderInv, MailTyped
<1>2. /\ inbox # <<>> /\ inbox' = Tail(inbox) /\ queue' = <<>>
      /\ asked' = asked /\ open' = open /\ ThisBoard' = ThisBoard
  BY ServeIs DEF OrderInv
<1>3. /\ Len(inbox) \in Nat \ {0} /\ Len(inbox') = Len(inbox) - 1
      /\ inbox' \in Seq(Message) /\ Head(inbox) = head /\ head \in Message
      /\ \A j \in 1..(Len(inbox) - 1) : inbox'[j] = inbox[j + 1] /\ j + 1 \in 1..Len(inbox)
  BY <1>1, <1>2, Shift
<1>4. Len(open) \in Nat /\ Len(outbox) \in Nat
  BY <1>1
<1>5. /\ \A j \in 1..Len(inbox) : inbox[j].id \in Nat
      /\ \A k \in 1..Len(open) : open[k].id \in Nat
  <2>1. \A j \in 1..Len(inbox) : inbox[j] \in Message
    BY <1>1
  <2>2. \A k \in 1..Len(open) : open[k] \in Asking
    BY <1>1
  <2> QED
    BY <2>1, <2>2 DEF Message, Asking
<1>6. PICK r \in Requests : head.frame = r.frame
  BY <1>3 DEF Message, Frames
<1>7. ThisBoard \in Boards
  BY DEF ThisBoard, Boards, TypeOK
<1>8. IdsRise /\ OpenIsPending /\ PendingIsOpen /\ RepliesInOrder
  BY DEF OrderInv
<1>9. IdsRise'
  <2>1. \A j \in 1..Len(inbox') : inbox'[j].id < asked
    BY <1>3, <1>8 DEF IdsRise
  <2>2. \A i, j \in 1..Len(inbox') : i < j => inbox'[i].id < inbox'[j].id
    <3> TAKE i, j \in 1..Len(inbox')
    <3>1. /\ inbox'[i] = inbox[i + 1] /\ i + 1 \in 1..Len(inbox)
          /\ inbox'[j] = inbox[j + 1] /\ j + 1 \in 1..Len(inbox)
      BY <1>3
    <3>2. i < j => i + 1 < j + 1
      OBVIOUS
    <3> QED
      BY <1>8, <3>1, <3>2 DEF IdsRise
  <2> QED
    BY <1>2, <1>8, <2>1, <2>2 DEF IdsRise
\* What is left of the mailbox is what it held but its head.
<1>10. \A j \in 1..Len(inbox) :
         j # 1 => j - 1 \in 1..Len(inbox') /\ inbox'[j - 1] = inbox[j]
  <2> TAKE j \in 1..Len(inbox)
  <2>1. j # 1 => j - 1 \in 1..(Len(inbox) - 1) /\ (j - 1) + 1 = j
    BY <1>3
  <2> QED
    BY <1>3, <2>1
<1>11. \A j \in 1..Len(inbox') : inbox'[j] = inbox[j + 1] /\ j + 1 \in 1..Len(inbox)
                                 /\ inbox[1].id < inbox'[j].id
  <2> TAKE j \in 1..Len(inbox')
  <2>1. inbox'[j] = inbox[j + 1] /\ j + 1 \in 1..Len(inbox) /\ 1 \in 1..Len(inbox) /\ 1 < j + 1
    BY <1>3
  <2> QED
    BY <1>8, <2>1 DEF IdsRise
<1>12. 1 \in 1..Len(inbox)
  BY <1>3
<1>13. ASSUME NEW j \in 1..Len(inbox'), NEW e \in Served(inbox'[j].frame)
       PROVE  \E k \in Unanswered : open[k].id = inbox'[j].id /\ open[k].env = e
  <2>1. inbox'[j] = inbox[j + 1] /\ j + 1 \in 1..Len(inbox)
    BY <1>11
  <2>2. e \in Served(inbox[j + 1].frame)
    BY <1>13, <2>1
  <2>3. \E k \in Unanswered : open[k].id = inbox[j + 1].id /\ open[k].env = e
    BY <1>8, <2>1, <2>2 DEF PendingIsOpen
  <2> QED
    BY <2>1, <2>3
<1>14. ASSUME NEW j \in 1..Len(inbox'), Served(inbox'[j].frame) = None
       PROVE  \A k \in 1..Len(open) : open[k].id # inbox'[j].id
  <2>1. inbox'[j] = inbox[j + 1] /\ j + 1 \in 1..Len(inbox)
    BY <1>11
  <2>2. Served(inbox[j + 1].frame) = None
    BY <1>14, <2>1
  <2> QED
    BY <1>8, <2>1, <2>2 DEF PendingIsOpen
<1>15. CASE r.asks = None
  <2>1. Served(head.frame) = None
    BY <1>6, <1>15, ServedIs
  <2>2. outbox' = outbox
    BY <1>3, <2>1, NoReply, ServeIs DEF OrderInv
  <2>3. MailTyped'
    BY <1>1, <1>2, <1>3, <2>2 DEF MailTyped
  <2>4. OpenIsPending'
    <3> SUFFICES ASSUME NEW k \in Unanswered
                 PROVE  \E j \in 1..Len(inbox') : inbox'[j].id = open[k].id
      BY <1>2, <2>2 DEF OpenIsPending, Unanswered
    <3>1. PICK j \in 1..Len(inbox) : inbox[j].id = open[k].id
      BY <1>8 DEF OpenIsPending
    <3>2. k \in 1..Len(open)
      BY <1>4 DEF Unanswered
    <3>3. j # 1
      BY <1>8, <1>12, <2>1, <3>1, <3>2 DEF PendingIsOpen
    <3> QED
      BY <1>10, <3>1, <3>3
  <2>5. PendingIsOpen'
    BY <1>2, <1>13, <1>14, <2>2 DEF PendingIsOpen, Unanswered
  <2>6. RepliesInOrder'
    BY <1>2, <1>8, <2>2 DEF RepliesInOrder
  <2> QED
    BY <1>9, <2>3, <2>4, <2>5, <2>6 DEF OrderInv
<1>16. CASE r.asks # None
  <2>1. PICK env : r.asks = Some(env)
    BY <1>16, ServedIs
  <2>2. env \in r.asks /\ env \in Served(head.frame)
    BY <1>6, <2>1, ServedIs DEF Some
  <2>3. PICK frame :
          /\ HandleIpc(head.frame, ThisBoard) = Some(frame)
          /\ \E reply \in FromFrame(frame) : Answers(ThisBoard, env, reply)
    BY <1>6, <1>7, <2>2, FrameAnswers
  <2> DEFINE sent == [id |-> head.id, frame |-> frame]
  <2>4. frame \in UNION {h.reply : h \in Handled}
    BY <1>3, <2>3, ServeIs DEF OrderInv, Some
  <2>5. sent \in Sent /\ sent.id = head.id /\ sent.frame = frame
    BY <1>3, <2>4 DEF Sent, Message
  <2>6. Some(frame) # None /\ The(Some(frame)) = frame
    BY TheOne DEF Some, None
  <2>7. outbox' = Append(outbox, sent)
    BY <1>3, <2>3, <2>6, ServeIs DEF OrderInv
  <2> HIDE DEF sent
  <2>8. /\ outbox' \in Seq(Sent) /\ Len(outbox') = n
        /\ \A k \in 1..Len(outbox) : outbox'[k] = outbox[k]
        /\ outbox'[n] = sent
    BY <1>1, <2>5, <2>7, AppendProperties
  \* The request of the head is the first that has no reply.
  <2>9. PICK k \in Unanswered : open[k].id = head.id /\ open[k].env = env
    BY <1>8, <1>12, <2>2 DEF PendingIsOpen
  <2>10. n \in Unanswered /\ n \in 1..Len(open) /\ k \in 1..Len(open) /\ n <= k
    BY <1>4 DEF Unanswered
  <2>11. k = n
    <3>1. PICK j \in 1..Len(inbox) : inbox[j].id = open[n].id
      BY <1>8, <2>10 DEF OpenIsPending
    <3>2. head.id <= inbox[j].id
      <4>1. CASE j = 1
        BY <1>5, <4>1
      <4>2. CASE j # 1
        <5>1. 1 < j
          BY <1>3, <4>2
        <5> QED
          BY <1>5, <1>8, <1>12, <5>1 DEF IdsRise
      <4> QED
        BY <4>1, <4>2
    <3>3. n < k => open[n].id < open[k].id
      BY <1>8, <2>10 DEF IdsRise
    <3>4. open[n].id \in Nat /\ open[k].id \in Nat
      BY <1>5, <2>10
    <3>5. ~(n < k)
      BY <2>9, <3>1, <3>2, <3>3, <3>4
    <3> QED
      BY <1>4, <2>10, <3>5
  <2> HIDE DEF n
  <2>12. n = Len(outbox) + 1
    BY DEF n
  <2>13. MailTyped'
    BY <1>1, <1>2, <1>3, <2>8 DEF MailTyped
  <2>14. OpenIsPending'
    <3> SUFFICES ASSUME NEW i \in (n + 1)..Len(open)
                 PROVE  \E j \in 1..Len(inbox') : inbox'[j].id = open[i].id
      BY <1>2, <2>8 DEF OpenIsPending, Unanswered
    <3>1. i \in Unanswered /\ i \in 1..Len(open) /\ n < i
      BY <1>4, <2>12 DEF Unanswered
    <3>2. PICK j \in 1..Len(inbox) : inbox[j].id = open[i].id
      BY <1>8, <3>1 DEF OpenIsPending
    <3>3. open[n].id < open[i].id
      BY <1>8, <2>10, <3>1 DEF IdsRise
    <3>4. j # 1
      BY <1>5, <2>9, <2>10, <2>11, <3>2, <3>3
    <3> QED
      BY <1>10, <3>2, <3>4
  <2>15. PendingIsOpen'
    <3>1. ASSUME NEW j \in 1..Len(inbox'), NEW e \in Served(inbox'[j].frame)
          PROVE  \E i \in (n + 1)..Len(open) : open[i].id = inbox'[j].id /\ open[i].env = e
      <4>1. head.id < inbox'[j].id
        BY <1>11
      <4>2. PICK i \in Unanswered : open[i].id = inbox'[j].id /\ open[i].env = e
        BY <1>13, <3>1
      <4>3. i # n
        BY <1>5, <1>12, <2>9, <2>11, <4>1, <4>2
      <4>4. i \in (n + 1)..Len(open)
        BY <1>4, <2>12, <4>3 DEF Unanswered
      <4> QED
        BY <4>2, <4>4
    <3> QED
      <4>1. Unanswered' = (n + 1)..Len(open) /\ open' = open
        BY <1>2, <2>8 DEF Unanswered
      <4>2. \A j \in 1..Len(inbox') : \A e \in Served(inbox'[j].frame) :
              \E i \in Unanswered' : open'[i].id = inbox'[j].id /\ open'[i].env = e
        BY <3>1, <4>1
      <4>3. \A j \in 1..Len(inbox') : Served(inbox'[j].frame) = None =>
              \A i \in 1..Len(open') : open'[i].id # inbox'[j].id
        BY <1>14, <4>1
      <4> QED
        BY <4>2, <4>3, Zenon DEF PendingIsOpen
  <2>16. RepliesInOrder'
    <3>1. DOMAIN outbox = 1..Len(outbox) /\ DOMAIN outbox' = 1..n
      BY <1>1, <2>8
    <3>2. \A i \in 1..n : i \in 1..Len(outbox) \/ i = n
      BY <1>4, <2>12
    <3>3. \A i \in 1..Len(outbox) :
            /\ outbox'[i].id = open[i].id
            /\ \E reply \in FromFrame(outbox'[i].frame) :
                 Answers(ThisBoard, open[i].env, reply)
      BY <1>8, <2>8, <3>1 DEF RepliesInOrder
    <3>4. /\ outbox'[n].id = open[n].id
          /\ \E reply \in FromFrame(outbox'[n].frame) :
               Answers(ThisBoard, open[n].env, reply)
      BY <2>3, <2>5, <2>8, <2>9, <2>11
    <3>5. Len(outbox') <= Len(open)
      BY <1>4, <2>8, <2>10
    <3>6. \A i \in DOMAIN outbox' :
            /\ outbox'[i].id = open[i].id
            /\ \E reply \in FromFrame(outbox'[i].frame) :
                 Answers(ThisBoard, open[i].env, reply)
      BY <3>1, <3>2, <3>3, <3>4
    <3> QED
      BY <1>2, <3>5, <3>6 DEF RepliesInOrder
  <2> QED
    BY <1>9, <2>13, <2>14, <2>15, <2>16 DEF OrderInv
<1> QED
  BY <1>15, <1>16

LEMMA OrderNext ==
  ASSUME CodecAgrees(Requests), TypeOK, TypeOK', OrderInv, [Next]_boardVars
  PROVE  OrderInv'
<1>1. CASE Boots
  <2>1. UNCHANGED <<hw, secure, rt>>
    BY <1>1 DEF Boots, Main, SliInit, DramInit, OtpInit, SetAuthManifest, PopulateIdevid,
       AuthorizeA2, RejectA2, CopyA2, DecompressA2, ReadEntry, Load, LoadFromNor,
       LoadFromEmmc, LoadFromOther, Handover, ReleaseCa35, EnableM4, fixedVars
  <2> QED
    BY <1>1, <2>1, BootKeepsOrder DEF Boots, TypeOK
<1>2. CASE Warms
  BY <1>2, BootKeepsOrder DEF Warms, CaliptraReady, fixedVars, TypeOK
<1>3. CASE PowerCycle
  <2>1. /\ inbox' = <<>> /\ outbox' = <<>> /\ queue' = <<>> /\ asked' = 0 /\ open' = <<>>
    BY <1>3 DEF PowerCycle
  <2> QED
    BY <2>1, NoMailNext
<1>4. CASE Serve
  BY <1>4, ServeKeepsOrder
<1>5. CASE Ca35Sends
  BY <1>5, SendKeepsOrder
<1>6. CASE Ca35Receives
  BY <1>6, ReceiveKeepsOrder
<1>7. CASE UNCHANGED boardVars
  BY <1>7, BootKeepsOrder DEF boardVars, bootVars, TypeOK
<1> QED
  BY <1>1, <1>2, <1>3, <1>4, <1>5, <1>6, <1>7 DEF Next

(* The CA35 gets the replies in the order of its requests, each with the id *)
(* and the sequence number of its own, for any number of requests and of    *)
(* ill-formed frames between them and any length of the queue, provided     *)
(* that the codec agrees on the frames and the mailbox, of any number of    *)
(* slots, keeps its messages and their order.                               *)
THEOREM RepliesComeInOrder ==
  ASSUME CodecAgrees(Requests)
  PROVE  Spec => []RepliesInOrder
<1>1. BoardInit => OrderInv
  BY NoMail DEF BoardInit
<1>2. TypeOK /\ TypeOK' /\ OrderInv /\ [Next]_boardVars => OrderInv'
  BY OrderNext
<1>3. OrderInv => RepliesInOrder
  BY DEF OrderInv
<1> QED
  BY <1>1, <1>2, <1>3, BoardTypeCorrect, PTL DEF Spec
=============================================================================
