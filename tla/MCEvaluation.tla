----------------------------- MODULE MCEvaluation -----------------------------
(***************************************************************************)
(* Instances of Evaluation for TLC.                                        *)
(***************************************************************************)
EXTENDS Evaluation
=============================================================================
