----------------------------- MODULE MCRlRuntime -----------------------------
(***************************************************************************)
(* Instances of RlRuntime for TLC.                                         *)
(***************************************************************************)
EXTENDS RlRuntime
=============================================================================
