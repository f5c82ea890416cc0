----------------------------- MODULE MCEnvControl -----------------------------
(***************************************************************************)
(* Instances of EnvControl for TLC.                                        *)
(***************************************************************************)
EXTENDS EnvControl, TLC

ControlSymmetry == Permutations(Trainers)
=============================================================================
