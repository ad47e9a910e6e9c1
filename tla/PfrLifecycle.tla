---------------------------- MODULE PfrLifecycle ----------------------------
(***************************************************************************)
(* What the Root of Trust promises of a platform, without machine, channel  *)
(* or hardware: firmware is released only on a passed verification, begun   *)
(* after the latest recovery, and every recovery leads through another one. *)
(***************************************************************************)
VARIABLES
  phase,      \* where the platform is in its life
  assurance   \* the outcome of the latest verification, "none" until it ends

lifecycleVars == <<phase, assurance>>

Phase == {"off", "held", "verifying", "releasing", "released", "recovering"}

LInit ==
  /\ phase = "off"
  /\ assurance = "none"

Hold ==
  /\ phase = "off"
  /\ phase' = "held"
  /\ UNCHANGED assurance

StartVerification ==
  /\ phase \in {"held", "recovering"}
  /\ phase' = "verifying"
  /\ assurance' = "none"

\* Without a manifest there is nothing to verify: the platform is trusted.
WaiveVerification ==
  /\ phase \in {"held", "recovering"}
  /\ phase' = "verifying"
  /\ assurance' = "passed"

FinishVerification ==
  /\ phase = "verifying"
  /\ assurance = "none"
  /\ assurance' \in {"passed", "failed"}
  /\ UNCHANGED phase

BeginRelease ==
  /\ phase = "verifying"
  /\ assurance = "passed"
  /\ phase' = "releasing"
  /\ UNCHANGED assurance

FinishRelease ==
  /\ phase = "releasing"
  /\ phase' = "released"
  /\ UNCHANGED assurance

\* Possible at any time once the platform is held.
Recover ==
  /\ phase \in Phase \ {"off", "recovering"}
  /\ phase' = "recovering"
  /\ UNCHANGED assurance

LNext ==
  \/ Hold \/ StartVerification \/ WaiveVerification \/ FinishVerification
  \/ BeginRelease \/ FinishRelease \/ Recover

LSpec == LInit /\ [][LNext]_lifecycleVars
=============================================================================
