------------------------------- MODULE RunQueue -------------------------------
(***************************************************************************)
(* What the scheduler promises its callers: a line of processes for each   *)
(* priority level, served from the front.  Which level is served, and for  *)
(* how long, is the scheduler's business; a line that is full turns a      *)
(* process away for good; a process that left does not come back.          *)
(***************************************************************************)
EXTENDS Integers, Sequences

CONSTANTS Procs, Levels, Level, Room   \* Level[p]: the line of p; Room of each line

VARIABLES line,      \* the waiting processes of each level
          running,   \* the processes handed out
          arrived    \* the processes ever added

runQueueVars == <<line, running, arrived>>

Init == line = [i \in Levels |-> << >>] /\ running = {} /\ arrived = {}

Joined(p) == [line EXCEPT ![Level[p]] = IF Len(@) < Room THEN Append(@, p) ELSE @]

Arrive(p) == /\ p \in Procs \ arrived
             /\ UNCHANGED running
             /\ arrived' = arrived \cup {p}
             /\ line' = Joined(p)

Dispatch(i) == /\ line[i] # << >>
               /\ running' = running \cup {Head(line[i])}
               /\ line' = [line EXCEPT ![i] = Tail(@)]
               /\ UNCHANGED arrived

Yield(p) == /\ p \in running
            /\ running' = running \ {p}
            /\ line' = Joined(p)
            /\ UNCHANGED arrived

End(p) == p \in running /\ running' = running \ {p} /\ UNCHANGED <<line, arrived>>

(* A waiting process is taken out of its line; the others keep their order.*)
Kill(i) == /\ line[i] # << >>
           /\ UNCHANGED <<running, arrived>>
           /\ \E k \in 1..Len(line[i]) :
                line' = [line EXCEPT ![i] = [j \in 1..Len(@) - 1 |->
                           IF j < k THEN @[j] ELSE @[j + 1]]]

Next == \/ \E p \in Procs : Arrive(p) \/ Yield(p) \/ End(p)
        \/ \E i \in Levels : Dispatch(i) \/ Kill(i)

Spec == Init /\ [][Next]_runQueueVars
==============================================================================
