-------------------------- MODULE MCShutdownTiming --------------------------
(***************************************************************************)
(* Small instances of ShutdownTiming for TLC.                              *)
(***************************************************************************)
EXTENDS ShutdownTiming, TLC

ThreadSymmetry == Permutations(Threads)
=============================================================================
