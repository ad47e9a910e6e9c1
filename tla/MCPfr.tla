------------------------------- MODULE MCPfr --------------------------------
(***************************************************************************)
(* Instances of the PFR runtime for TLC.                                    *)
(***************************************************************************)
EXTENDS PfrRefinement
=============================================================================
