----------------------------- MODULE MCMboxRecv -----------------------------
(***************************************************************************)
(* Instances of the receive path for TLC.                                   *)
(***************************************************************************)
EXTENDS MboxRecv
=============================================================================
