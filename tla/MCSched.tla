------------------------------- MODULE MCSched -------------------------------
(* An instance of Sched for TLC: a process long enough to exhaust the      *)
(* slots of the upper level, another beside it, one on the lower, and      *)
(* lists of two entries, so that the list of running processes overflows.  *)
EXTENDS Sched, TLC

CONSTANTS p1, p2, p3

MCPrio == p1 :> 0 @@ p2 :> 0 @@ p3 :> 1
(* The two processes of the upper level are interchangeable.               *)
Symmetry == Permutations({p1, p2})
MCSize == p1 :> 1 @@ p2 :> 1 @@ p3 :> 2
==============================================================================
