----------------------------- MODULE PfrMachine -----------------------------
(***************************************************************************)
(* The PFR state machine of app-rot/src/pfr/mod.rs: pure logic, one call    *)
(* per event.  NextState, NextReason and ActionFor are the match of         *)
(* Machine::step_record; StepRecord is the call.  Component tags and status *)
(* codes of an EventRecord influence nothing and are left out.              *)
(***************************************************************************)
VARIABLES
  state,            \* Machine.state
  recovery_reason   \* Machine.recovery_reason; "None" is Option::None

machineVars == <<state, recovery_reason>>

State == {"Init", "TMinus1", "Verify", "Release", "Monitor", "Recover",
          "Lockdown"}

\* The events that report the success of the machine's own actions.
SuccessEvents == {"PlatformHeld", "VerificationPassed", "ReleaseComplete",
                  "RecoveryComplete"}

\* The events on which the machine calls enter_recovery, whatever its state.
RecoveryTriggers == {"VerificationFailed", "ResetDetected", "WatchdogTimeout"}

Event == {"Boot", "RecoveryFailed"} \cup SuccessEvents \cup RecoveryTriggers

RecoveryReason == RecoveryTriggers \cup {"RecoveryFailed"}

Action == {"None", "HoldPlatform", "VerifyImages", "ReleasePlatform",
           "StartMonitoring", "RecoverImages", "Lockdown"}

\* The arms of the match that name both a state and an event.
Advances(s, e) ==
  <<s, e>> \in {<<"Init", "Boot">>, <<"TMinus1", "PlatformHeld">>,
                <<"Verify", "VerificationPassed">>,
                <<"Release", "ReleaseComplete">>,
                <<"Recover", "RecoveryComplete">>}

\* Faulty variant: recovered firmware is released without being verified again.
SuccessorSkippingReverification(s) ==
  CASE s = "Init"                  -> "TMinus1"
    [] s = "TMinus1"               -> "Verify"
    [] s \in {"Verify", "Recover"} -> "Release"
    [] s = "Release"               -> "Monitor"
    [] OTHER                       -> s

Successor(s) ==
  CASE s = "Init"                   -> "TMinus1"
    [] s \in {"TMinus1", "Recover"} -> "Verify"
    [] s = "Verify"                 -> "Release"
    [] s = "Release"                -> "Monitor"
    [] OTHER                        -> s

EntryAction(s) ==
  CASE s = "TMinus1" -> "HoldPlatform"
    [] s = "Verify"  -> "VerifyImages"
    [] s = "Release" -> "ReleasePlatform"
    [] s = "Monitor" -> "StartMonitoring"
    [] OTHER         -> "None"

NextState(s, e) ==
  CASE Advances(s, e)          -> Successor(s)
    [] e = "RecoveryFailed"    -> "Lockdown"
    [] e \in RecoveryTriggers  -> "Recover"
    [] OTHER                   -> s

\* Faulty variant: the reason outlives the recovery it explains.
NextReasonNeverCleared(s, r, e) ==
  IF e \in RecoveryTriggers \cup {"RecoveryFailed"} THEN e ELSE r

NextReason(s, r, e) ==
  CASE s = "Recover" /\ e = "RecoveryComplete"      -> "None"
    [] e \in RecoveryTriggers \cup {"RecoveryFailed"} -> e
    [] OTHER                                         -> r

ActionFor(s, e) ==
  CASE Advances(s, e)          -> EntryAction(Successor(s))
    [] e = "RecoveryFailed"    -> "Lockdown"
    [] e \in RecoveryTriggers  -> "RecoverImages"
    [] OTHER                   -> "None"

\* Faulty variant: the end of a recovery is reported to nobody.
SuccessEventWithoutRecovery(a) ==
  CASE a = "HoldPlatform"    -> "PlatformHeld"
    [] a = "VerifyImages"    -> "VerificationPassed"
    [] a = "ReleasePlatform" -> "ReleaseComplete"
    [] OTHER                 -> "None"

\* Runtime::success_event: the event that reports an action done.
SuccessEvent(a) ==
  CASE a = "HoldPlatform"    -> "PlatformHeld"
    [] a = "VerifyImages"    -> "VerificationPassed"
    [] a = "ReleasePlatform" -> "ReleaseComplete"
    [] a = "RecoverImages"   -> "RecoveryComplete"
    [] OTHER                 -> "None"

MachineInit ==
  /\ state = "Init"
  /\ recovery_reason = "None"

StepRecord(e) ==
  /\ state' = NextState(state, e)
  /\ recovery_reason' = NextReason(state, recovery_reason, e)

-----------------------------------------------------------------------------
\* The machine as a library: a caller may offer any event at any time.
MachineSpec ==
  /\ MachineInit
  /\ [][\E e \in Event : StepRecord(e)]_machineVars

MachineTypeOK ==
  /\ state \in State
  /\ recovery_reason \in RecoveryReason \cup {"None"}

(* A reason is recorded exactly while the machine recovers or is locked     *)
(* down: enter_recovery and RecoveryFailed set it, RecoveryComplete clears  *)
(* it, and no other arm may leave a stale one behind.                       *)
ReasonMatchesState ==
  (recovery_reason # "None") <=> (state \in {"Recover", "Lockdown"})

(* "Lockdown: Terminal state when all recovery attempts are exhausted"      *)
(* (pfr/mod.rs:17) and "All other combinations (including Lockdown + any    *)
(* event) are no-ops" (pfr/mod.rs:248): no event leaves Lockdown.           *)
LockdownIsTerminal ==
  [][state = "Lockdown" => state' = "Lockdown"]_machineVars
=============================================================================
