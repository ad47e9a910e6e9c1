--------------------------- MODULE PfrRefinement ----------------------------
(***************************************************************************)
(* The runtime of rot_ast1060.rs implements the platform lifecycle: the     *)
(* states of its machine are the phases, the verdict is the assurance.      *)
(***************************************************************************)
EXTENDS PfrRuntime

PhaseOf(s) ==
  CASE s = "Init"    -> "off"
    [] s = "TMinus1" -> "held"
    [] s = "Verify"  -> "verifying"
    [] s = "Release" -> "releasing"
    [] s = "Monitor" -> "released"
    [] s = "Recover" -> "recovering"

Lifecycle == INSTANCE PfrLifecycle
               WITH phase <- PhaseOf(state), assurance <- verdict

(* Every behaviour of the main task, whatever arrives in its channel, is a  *)
(* lifecycle: no interleaving of reports and triggers makes it skip the     *)
(* verification that a release rests on.                                    *)
ImplementsLifecycle == Lifecycle!LSpec
=============================================================================
