------------------------------ MODULE MCEnvStart ------------------------------
(***************************************************************************)
(* Instances of EnvStart for TLC.                                          *)
(***************************************************************************)
EXTENDS EnvStart
=============================================================================
