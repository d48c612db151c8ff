---------------------------- MODULE MCWorkerPool ----------------------------
(***************************************************************************)
(* Instances of WorkerPool for TLC.                                        *)
(***************************************************************************)
EXTENDS WorkerPool, TLC

CONSTANTS s1, s2, o1, o2

MCSymmetry == Permutations(Shards) \cup Permutations(Ops)
==============================================================================
