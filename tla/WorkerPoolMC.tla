---------------------------- MODULE WorkerPoolMC ----------------------------
(***************************************************************************)
(* Instances of WorkerPool for TLC.                                        *)
(***************************************************************************)
EXTENDS WorkerPool, TLC

\* Callers are interchangeable, and so are worker ids and killers.
Symmetry == Permutations(Workers) \cup Permutations(Callers) \cup Permutations(Killers)
=============================================================================
