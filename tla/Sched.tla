-------------------------------- MODULE Sched --------------------------------
(***************************************************************************)
(* sched.c and the part of sys_killall.c that works on its data: the       *)
(* multi-level queue with a slot budget per priority, the list of running  *)
(* processes, and the pointers in each process control block that say      *)
(* which of them the process is in.                                        *)
(*                                                                         *)
(* One action is one critical section of queue_lock, or one access made    *)
(* without it.  The actions are those of Kernel.tla, whose threads call    *)
(* them in the order of the code; here any thread may call them at any     *)
(* time, as long as it does so for a process it was given (`held`, kept by *)
(* SchedNext alone), so that what holds here holds whatever the timing.    *)
(***************************************************************************)
EXTENDS Queue

CONSTANTS MaxPrio,        \* MAX_PRIO
          time_slot,      \* the time_slot of the configuration file
          Size,           \* Size[p]: p->code->size
          None            \* the NULL process

ASSUME SchedAssumption == /\ MaxPrio \in Nat \ {0}
                          /\ time_slot \in Nat \ {0}
                          /\ Prio \in [Procs -> 0..MaxPrio - 1]
                          /\ Size \in [Procs -> Nat \ {0}]
                          /\ None \notin Procs

VARIABLES mlq_ready_queue, running_list, slot, reset_slot,
          queue_lock,      \* "free", or "killall" for the syscall that keeps it
          pc, quantum,     \* pcb: pc and time_slot
          ready_queue,     \* pcb: ready_queue, NULL or set
          on_running_list, \* pcb: running_list, NULL or set
          life,            \* pcb: allocation state
          held             \* processes the CPUs have got and not given back

queueVars == <<mlq_ready_queue, running_list>>
slotVars  == <<slot, reset_slot>>
ptrVars   == <<ready_queue, on_running_list>>
schedVars == <<mlq_ready_queue, running_list, slot, reset_slot, queue_lock, pc,
               quantum, ready_queue, on_running_list, life, held>>

Prios == 0..MaxPrio - 1
Pointers == {"NULL", "set"}
Lives == {"unloaded", "loaded", "admitted", "freed"}
(* Mutant: a slot too many for each level.                                 *)
FullSlots_OneMore == [i \in Prios |-> MaxPrio - i + 1]
FullSlots == [i \in Prios |-> MaxPrio - i]
Least(a, b) == IF a < b THEN a ELSE b

SchedInit ==
    /\ mlq_ready_queue = [i \in Prios |-> << >>]
    /\ running_list = << >>
    /\ slot = FullSlots
    /\ reset_slot = 0
    /\ queue_lock = "free"
    /\ pc = [p \in Procs |-> 0]
    /\ quantum = [p \in Procs |-> 0]
    /\ ready_queue = [p \in Procs |-> "NULL"]
    /\ on_running_list = [p \in Procs |-> "NULL"]
    /\ life = [p \in Procs |-> "unloaded"]
    /\ held = {}

(***************************************************************************)
(* load and add_proc.  load does not set proc->running_list: the field is  *)
(* what malloc left there, in particular the value it had in a pcb that    *)
(* was freed before.                                                       *)
(***************************************************************************)
Garbage == {"NULL"} \cup {on_running_list[q] : q \in {r \in Procs : life[r] = "freed"}}

Load(p) ==
    /\ life[p] = "unloaded"
    /\ life' = [life EXCEPT ![p] = "loaded"]
    /\ pc' = [pc EXCEPT ![p] = 0]
    /\ \E g \in Garbage : on_running_list' = [on_running_list EXCEPT ![p] = g]
    /\ UNCHANGED <<queueVars, slotVars, queue_lock, quantum, ready_queue>>

AddProc(p) ==
    /\ queue_lock = "free" /\ life[p] = "loaded"
    /\ life' = [life EXCEPT ![p] = "admitted"]
    /\ ready_queue' = [ready_queue EXCEPT ![p] = "set"]
    /\ mlq_ready_queue' =
         [mlq_ready_queue EXCEPT ![Prio[p]] = enqueue(@, p)]
    /\ UNCHANGED <<running_list, slotVars, queue_lock, pc, quantum, on_running_list>>

(***************************************************************************)
(* get_proc.  The first level with a slot left and a process to run gives  *)
(* up that process; if there is none and slots were used since the last    *)
(* refill, the slots are refilled and the search is made once more.        *)
(***************************************************************************)
(* Mutant: a level that has one slot left is passed over.                  *)
Eligible_TwoLeft(sl) == {i \in Prios : sl[i] > 1 /\ mlq_ready_queue[i] # << >>}
Eligible(sl) == {i \in Prios : sl[i] # 0 /\ mlq_ready_queue[i] # << >>}
Highest(S) == CHOOSE i \in S : \A j \in S : i <= j

(* Mutant: the quantum is not cut to what is left of the budget.           *)
Grant_PastBudget(sl, i, p) == Least(Size[p] - pc[p], time_slot)
Grant(sl, i, p) == Least(Least(Size[p] - pc[p], sl[i]), time_slot)

DispatchFrom(sl, p) ==
    LET i == Highest(Eligible(sl)) IN
    /\ Eligible(sl) # {}
    /\ p = Dequeued(mlq_ready_queue[i])
    /\ mlq_ready_queue' = [mlq_ready_queue EXCEPT ![i] = AfterDequeue(@)]
    /\ slot' = [sl EXCEPT ![i] = @ - Grant(sl, i, p)]
    /\ quantum' = [quantum EXCEPT ![p] = Grant(sl, i, p)]
    /\ reset_slot' = 1
    /\ running_list' = enqueue(running_list, p)
    /\ on_running_list' = [on_running_list EXCEPT ![p] = "set"]

Refill == Eligible(slot) = {} /\ reset_slot = 1

GetProc(p) ==
    /\ queue_lock = "free"
    /\ \/ DispatchFrom(slot, p)
       \/ Refill /\ DispatchFrom(FullSlots, p)
    /\ UNCHANGED <<queue_lock, pc, ready_queue, life>>

GetNothing ==
    /\ queue_lock = "free"
    /\ Eligible(slot) = {}
    /\ Refill => Eligible(FullSlots) = {}
    /\ slot' = IF Refill THEN FullSlots ELSE slot
    /\ reset_slot' = 0
    /\ UNCHANGED <<queueVars, queue_lock, pc, quantum, ptrVars, life>>

(***************************************************************************)
(* What the owner of a process does to it: run writes back a program       *)
(* counter it read earlier, put_proc sets a pointer before it takes the    *)
(* lock, remove_pcb removes and frees.                                     *)
(***************************************************************************)
WritePc(p, v) ==
    /\ pc' = [pc EXCEPT ![p] = v]
    /\ UNCHANGED <<queueVars, slotVars, queue_lock, quantum, ptrVars, life>>

PutPointers(p) ==
    /\ ready_queue' = [ready_queue EXCEPT ![p] = "set"]
    /\ UNCHANGED <<queueVars, slotVars, queue_lock, pc, quantum, on_running_list, life>>

PutProc(p) ==
    /\ queue_lock = "free"
    /\ mlq_ready_queue' = [mlq_ready_queue EXCEPT ![Prio[p]] = enqueue(@, p)]
    /\ running_list' = remove_proc(running_list, p)
    /\ on_running_list' = [on_running_list EXCEPT ![p] = "NULL"]
    /\ UNCHANGED <<slotVars, queue_lock, pc, quantum, ready_queue, life>>

RemoveFromRunning(p) ==
    /\ queue_lock = "free"
    /\ running_list' = remove_proc(running_list, p)
    /\ UNCHANGED <<mlq_ready_queue, slotVars, queue_lock, pc, quantum, ptrVars, life>>

FreePcb(p) ==
    /\ life' = [life EXCEPT ![p] = "freed"]
    /\ UNCHANGED <<queueVars, slotVars, queue_lock, pc, quantum, ptrVars>>

(***************************************************************************)
(* killall: everything under queue_lock, in several steps.                 *)
(***************************************************************************)
KillLock ==
    /\ queue_lock = "free"
    /\ queue_lock' = "killall"
    /\ UNCHANGED <<queueVars, slotVars, pc, quantum, ptrVars, life>>

KillUnlock ==
    /\ queue_lock = "killall"
    /\ queue_lock' = "free"
    /\ UNCHANGED <<queueVars, slotVars, pc, quantum, ptrVars, life>>

(* A victim whose running_list is set: unlinked, then its pc, then its     *)
(* ready_queue pointer are overwritten under the eyes of its CPU.          *)
Listed(p) == Holds(running_list, p) \/ Holds(mlq_ready_queue[Prio[p]], p)

(* Mutant: the running victim is not unlinked.                             *)
KillUnlink_StaysListed(p) ==
    /\ queue_lock = "killall" /\ on_running_list[p] = "set" /\ Listed(p)
    /\ UNCHANGED <<queueVars, slotVars, queue_lock, pc, quantum, ptrVars, life>>

KillUnlink(p) ==
    /\ queue_lock = "killall" /\ on_running_list[p] = "set" /\ Listed(p)
    /\ running_list' = remove_proc(running_list, p)
    /\ UNCHANGED <<mlq_ready_queue, slotVars, queue_lock, pc, quantum, ptrVars, life>>

KillPc(p) ==
    /\ queue_lock = "killall" /\ on_running_list[p] = "set"
    /\ pc' = [pc EXCEPT ![p] = Size[p]]
    /\ UNCHANGED <<queueVars, slotVars, queue_lock, quantum, ptrVars, life>>

KillMark(p) ==
    /\ queue_lock = "killall" /\ on_running_list[p] = "set"
    /\ ready_queue' = [ready_queue EXCEPT ![p] = "NULL"]
    /\ UNCHANGED <<queueVars, slotVars, queue_lock, pc, quantum, on_running_list, life>>

(* Mutant: the ready victim is freed where it is.                          *)
KillReady_StaysQueued(p) ==
    /\ queue_lock = "killall" /\ on_running_list[p] = "NULL"
    /\ Holds(mlq_ready_queue[Prio[p]], p)
    /\ life' = [life EXCEPT ![p] = "freed"]
    /\ UNCHANGED <<queueVars, slotVars, queue_lock, pc, quantum, ptrVars>>

(* A victim whose running_list is NULL: remove_pcb under the same lock.    *)
KillReady(p) ==
    /\ queue_lock = "killall" /\ on_running_list[p] = "NULL"
    /\ Holds(mlq_ready_queue[Prio[p]], p)
    /\ mlq_ready_queue' = [mlq_ready_queue EXCEPT ![Prio[p]] = remove_proc(@, p)]
    /\ life' = [life EXCEPT ![p] = "freed"]
    /\ UNCHANGED <<running_list, slotVars, queue_lock, pc, quantum, ptrVars>>

(***************************************************************************)
(* Any number of threads using the scheduler in any order.  A process is   *)
(* given back only while its program counter is in its code or just behind *)
(* it (os.c:93 tests that before put_proc), and run advances it to at most *)
(* one position further.  The first group of steps is anybody's; the last  *)
(* is for whoever got the process, until it is put back or freed.          *)
(***************************************************************************)
SchedNext ==
    \/ /\ \/ GetNothing \/ KillLock \/ KillUnlock
          \/ \E p \in Procs : \/ Load(p) \/ AddProc(p)
                              \/ KillUnlink(p) \/ KillPc(p) \/ KillMark(p) \/ KillReady(p)
       /\ UNCHANGED held
    \/ \E p \in Procs : GetProc(p) /\ held' = held \cup {p}
    \/ \E p \in held :
         /\ \/ PutPointers(p) \/ RemoveFromRunning(p)
            \/ \E v \in 1..Size[p] + 1 : WritePc(p, v)
         /\ UNCHANGED held
    \/ \E p \in held :
         /\ \/ pc[p] <= Size[p] /\ PutProc(p)
            \/ FreePcb(p)
         /\ held' = held \ {p}

SchedSpec == SchedInit /\ [][SchedNext]_schedVars

-------------------------------------------------------------------------------
SchedTypeOK ==
    /\ mlq_ready_queue \in [Prios -> Seq(Procs)]
    /\ running_list \in Seq(Procs)
    /\ slot \in [Prios -> Nat]
    /\ reset_slot \in {0, 1}
    /\ queue_lock \in {"free", "killall"}
    /\ pc \in [Procs -> Nat]
    /\ quantum \in [Procs -> Nat]
    /\ ready_queue \in [Procs -> Pointers]
    /\ on_running_list \in [Procs -> Pointers]
    /\ life \in [Procs -> Lives]
    /\ held \subseteq Procs

(* A process is in one place at most: one CPU, or one entry of the ready   *)
(* queue of its priority; and a process that is not yet admitted or        *)
(* already freed is in neither, whatever put_proc, killall and remove_pcb  *)
(* do at the same time (no process runs on two CPUs, is dispatched after   *)
(* it was freed, or is freed twice).                                       *)
OnePlace ==
    /\ \A i \in Prios : \A j, k \in 1..Len(mlq_ready_queue[i]) :
          mlq_ready_queue[i][j] = mlq_ready_queue[i][k] => j = k
    /\ \A i \in Prios : \A j \in 1..Len(mlq_ready_queue[i]) :
          LET p == mlq_ready_queue[i][j] IN
            Prio[p] = i /\ p \notin held /\ life[p] = "admitted"
    /\ \A p \in held : life[p] = "admitted"

(* sched.c:49, "State representation prio = 0 .. MAX_PRIO, curr_slot =     *)
(* 0..(MAX_PRIO - prio)": a budget is never overdrawn, although what a     *)
(* process is granted is computed from a pc that killall may have moved.   *)
SlotsInRange == \A i \in Prios : slot[i] \in 0..MaxPrio - i

(* Dispatching, putting back and killing, with an array that is searched   *)
(* for its smallest prio, amount to lines served from the front: a process *)
(* is passed by nobody of its own priority.                                *)
RQ == INSTANCE RunQueue WITH Levels <- Prios, Level <- Prio, Room <- MaxQueueSize,
        line <- mlq_ready_queue, running <- held,
        arrived <- {p \in Procs : life[p] \in {"admitted", "freed"}}
ImplementsRunQueue == RQ!Spec

(* get_proc hands out nothing only when nothing is ready: the search that  *)
(* skips levels without slots, and the flag that suppresses the refill,    *)
(* never leave a CPU idle beside a waiting process.                        *)
WorkConserving ==
    [][GetNothing => \A i \in Prios : mlq_ready_queue[i] = << >>]_schedVars
==============================================================================
