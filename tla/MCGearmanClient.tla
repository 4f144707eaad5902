-------------------------- MODULE MCGearmanClient --------------------------
(***************************************************************************)
(* Small instances of GearmanClient for TLC.                               *)
(***************************************************************************)
EXTENDS ClientRefinement, TLC

ClientSymmetry == Permutations(Clients) \cup Permutations(Functions)
=============================================================================
