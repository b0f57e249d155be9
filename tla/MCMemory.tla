------------------------------- MODULE MCMemory ------------------------------
(* Instances of Memory for TLC.  Processes and region ids are              *)
(* interchangeable: only MCMemoryWild, which checks a liveness property,   *)
(* does without this symmetry.                                             *)
EXTENDS Memory, TLC

CONSTANTS p1, p2, r1, r2

Symmetry == Permutations(Procs) \cup Permutations(Rgids)
==============================================================================
