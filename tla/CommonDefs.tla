----------------------------- MODULE CommonDefs -----------------------------
(***************************************************************************)
(* What the modules share (common-defs.h): the names of the pools.         *)
(***************************************************************************)
CONSTANT Pools    \* pool names, the keys of pools_list
=============================================================================
