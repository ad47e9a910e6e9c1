----------------------------- MODULE MCMboxSend -----------------------------
(***************************************************************************)
(* Instances of the send path for TLC.                                      *)
(***************************************************************************)
EXTENDS MboxSend
=============================================================================
