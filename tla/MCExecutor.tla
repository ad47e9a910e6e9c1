----------------------------- MODULE MCExecutor -----------------------------
(***************************************************************************)
(* Instances of the executor for TLC.                                       *)
(***************************************************************************)
EXTENDS Executor
=============================================================================
