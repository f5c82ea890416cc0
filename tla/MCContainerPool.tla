--------------------------- MODULE MCContainerPool ---------------------------
(***************************************************************************)
(* Instances of ContainerPool for TLC.                                     *)
(***************************************************************************)
EXTENDS ContainerPool
=============================================================================
