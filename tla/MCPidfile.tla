----------------------------- MODULE MCPidfile -----------------------------
(***************************************************************************)
(* A small instance of Pidfile for TLC.                                    *)
(***************************************************************************)
EXTENDS Pidfile, TLC

InstanceSymmetry == Permutations(Instances)
=============================================================================
