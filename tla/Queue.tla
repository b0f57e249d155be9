-------------------------------- MODULE Queue --------------------------------
(***************************************************************************)
(* queue.c: the fixed-size array queue behind every list of the scheduler, *)
(* as operators on sequences.  MAX_QUEUE_SIZE is a constant, so that small *)
(* instances reach the full queue.                                         *)
(***************************************************************************)
EXTENDS Integers, Sequences

CONSTANTS Procs,          \* process control blocks
          Prio,           \* Prio[p]: proc->prio
          MaxQueueSize    \* MAX_QUEUE_SIZE

ASSUME QueueAssumption == /\ MaxQueueSize \in Nat \ {0}
                          /\ Prio \in [Procs -> Nat]

(* The shift that closes the gap at position i.                            *)
CloseGap(q, i) == [j \in 1..Len(q) - 1 |-> IF j < i THEN q[j] ELSE q[j + 1]]

(* A full queue refuses the element; only a line on stdout says so.        *)
enqueue(q, p) == IF Len(q) >= MaxQueueSize THEN q ELSE Append(q, p)

(* Position of the element dequeue picks: the first of smallest prio.      *)
MaxIndex(q) == CHOOSE i \in 1..Len(q) :
                 \A j \in 1..Len(q) : \/ Prio[q[i]] < Prio[q[j]]
                                      \/ Prio[q[i]] = Prio[q[j]] /\ i <= j

Dequeued(q) == q[MaxIndex(q)]
(* Mutant: drops the last element, whichever was picked.                   *)
AfterDequeue_Last(q) == CloseGap(q, Len(q))
AfterDequeue(q) == CloseGap(q, MaxIndex(q))

Holds(q, p) == \E i \in 1..Len(q) : q[i] = p

(* Mutant: drops the head, wherever p is.                                  *)
remove_proc_Head(q, p) == IF Holds(q, p) THEN Tail(q) ELSE q

(* Removes the first occurrence of p, if there is one.                     *)
remove_proc(q, p) ==
    IF Holds(q, p)
    THEN CloseGap(q, CHOOSE i \in 1..Len(q) :
                       q[i] = p /\ \A j \in 1..i - 1 : q[j] # p)
    ELSE q
==============================================================================
