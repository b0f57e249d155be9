---------------------------- MODULE KillallProofs ----------------------------
(***************************************************************************)
(* For every number of CPUs and processes, whatever the code of the        *)
(* processes and the timing of killall: what the list of running processes *)
(* and the ready queues hold while the threads change them.  Killall never *)
(* writes to a freed pcb; and, if the queues have room for every process,  *)
(* no process is lost and killall misses none.                             *)
(***************************************************************************)
EXTENDS KernelProofs, FiniteSetTheorems

(* MAX_QUEUE_SIZE (queue.h:6) is not smaller than num_processes: no list   *)
(* is ever full.                                                           *)
Room == NumProcs <= MaxQueueSize

(* No process of the workload calls killall.                               *)
NoKillall == \A i \in Instructions \cup {Calc} : Callee(i) # "sys_killall"

Running(p) == S!Holds(running_list, p)
Ready(p)   == S!Holds(mlq_ready_queue[Prio[p]], p)

Killing == {"kill_scan", "kill_pc", "kill_mark"}
Storing == {"kill_pc", "kill_mark"}
BeingKilled(p) == \E e \in CPUs : cpc[e] \in Storing /\ victim[e] = p

(***************************************************************************)
(* The invariant.  First what needs no room: the list of running processes *)
(* has no duplicates, which is why removing a process removes it for good; *)
(* the queue_lock belongs to the one CPU in killall; and the victim of     *)
(* killall, unless killall has marked it before, is not about to be freed. *)
(***************************************************************************)
RunningOnce == /\ SP!Distinct(running_list)
               /\ \A p \in Procs : Running(p) => p \in HeldByCPUs \/ life[p] = "freed"

Mutex == /\ \A c \in CPUs : cpc[c] \in Killing => queue_lock = "killall"
         /\ \A c, e \in CPUs : cpc[c] \in Killing /\ cpc[e] \in Killing => c = e

Freeing == \A c \in CPUs :
    /\ cpc[c] = "free" /\ ready_queue[proc[c]] = "set" => ~Running(proc[c])
    /\ cpc[c] \in {"remove", "remove_lock", "free"} => Finished(proc[c])
    /\ cpc[c] \in {"detach", "exit"} => proc[c] = None

Victim == \A c \in CPUs :
    cpc[c] \in Storing /\ ready_queue[victim[c]] = "set" =>
       /\ life[victim[c]] = "admitted"
       /\ \A e \in CPUs : cpc[e] = "free" => proc[e] # victim[c]

Lists == RunningOnce /\ Mutex /\ Freeing /\ Victim

(* With room, a process is on a CPU or in its queue from its admission on, *)
(* and a process on a CPU is in the list of running processes unless       *)
(* killall took it out: then killall has marked it, or is about to.        *)
Listing == {"loop", "slot", "recheck", "run", "fetch", "pc_read", "pc_write", "kill_lock",
            "kill_scan", "kill_pc", "kill_mark", "ran", "remove", "remove_lock", "put"}

Listed == \A c \in CPUs : proc[c] # None /\ cpc[c] \in Listing =>
    Running(proc[c]) \/ ready_queue[proc[c]] = "NULL" \/ BeingKilled(proc[c])

RoomInv == Room => NoProcessLost /\ Listed

(* What a CPU executes is an instruction of the workload.                  *)
Fetched == /\ ins \in [CPUs -> Instructions \cup {Calc, None}]
           /\ \A c \in CPUs : cpc[c] \in {"pc_read", "pc_write"}
                                 => ins[c] \in Instructions \cup {Calc}

(* Without killall, no mark is ever set.                                   *)
Unmarked ==
    /\ \A c \in CPUs : /\ cpc[c] \notin Killing \cup {"kill_lock"}
                       /\ Room /\ cpc[c] = "put_lock" => Running(proc[c])
    /\ \A p \in Procs : /\ life[p] = "admitted" => ready_queue[p] = "set"
                        /\ Running(p) => p \in HeldByCPUs

ListInv == KInv /\ Lists /\ RoomInv

-------------------------------------------------------------------------------
(* The operators on lists are those of the instance proved about.          *)
LEMMA SameLists ==
    /\ \A q, p : S!Holds(q, p) <=> SP!Holds(q, p)
    /\ \A q, p : S!enqueue(q, p) = SP!enqueue(q, p)
    /\ \A q, p : S!remove_proc(q, p) = SP!remove_proc(q, p)
    /\ \A p : S!KillReady(p) <=> SP!KillReady(p)
  BY DEF S!Holds, SP!Holds, S!enqueue, SP!enqueue, S!remove_proc, SP!remove_proc,
         S!CloseGap, SP!CloseGap, S!KillReady, SP!KillReady, S!slotVars, SP!slotVars,
         S!ptrVars, SP!ptrVars

(* A list without duplicates that lacks a process has room for it.         *)
LEMMA HasRoom ==
    ASSUME Room, NEW q \in Seq(Procs), SP!Distinct(q), NEW p \in Procs, ~S!Holds(q, p)
    PROVE  Len(q) < MaxQueueSize
<1> DEFINE T == Procs \ {p}
           f == [i \in 1..Len(q) |-> q[i]]
<1>1. /\ NumProcs \in Nat \ {0} /\ MaxQueueSize \in Nat \ {0} /\ Len(q) \in Nat
  BY KernelAssumption
<1>2. IsFiniteSet(Procs) /\ Cardinality(Procs) = NumProcs
  <2>1. /\ IsFiniteSet(1..NumProcs)
        /\ Cardinality(1..NumProcs) = IF 1 > NumProcs THEN 0 ELSE NumProcs - 1 + 1
    <3>1. 1 \in Int /\ NumProcs \in Int
      BY <1>1
    <3> QED BY <3>1, FS_Interval, Zenon
  <2> QED BY <1>1, <2>1 DEF Procs
<1>3. IsFiniteSet(T) /\ Cardinality(T) = NumProcs - 1
  <2>1. IsFiniteSet(Procs \ {p}) /\ Cardinality(Procs \ {p}) = Cardinality(Procs) - 1
    BY <1>2, FS_RemoveElement
  <2> QED BY <1>2, <2>1
<1>4. f \in Injection(1..Len(q), T)
  <2>1. f \in [1..Len(q) -> T]
    BY DEF S!Holds
  <2>2. \A i, j \in 1..Len(q) : f[i] = f[j] => i = j
    BY DEF SP!Distinct
  <2> HIDE DEF f
  <2> QED BY <2>1, <2>2 DEF Injection, IsInjective
<1>5. Cardinality(1..Len(q)) <= Cardinality(T)
  <2> HIDE DEF f, T
  <2> QED BY <1>3, <1>4, FS_Injection, Zenon
<1>6. Cardinality(1..Len(q)) = Len(q)
  <2>1. Cardinality(1..Len(q)) = IF 1 > Len(q) THEN 0 ELSE Len(q) - 1 + 1
    <3>1. 1 \in Int /\ Len(q) \in Int
      BY <1>1
    <3> QED BY <3>1, FS_Interval, Zenon
  <2> QED BY <1>1, <2>1
<1>7. Len(q) <= NumProcs - 1
  BY <1>3, <1>5, <1>6
<1> HIDE DEF f, T
<1> QED BY <1>1, <1>7 DEF Room

(* What the earlier invariant says of places, in the words used here.      *)
LEMMA PlaceFacts ==
    ASSUME KInv
    PROVE  /\ cpc \in [CPUs -> CpuPcs] /\ proc \in [CPUs -> Procs \cup {None}]
           /\ victim \in [CPUs -> Procs \cup {None}]
           /\ running_list \in Seq(Procs) /\ life \in [Procs -> S!Lives]
           /\ ready_queue \in [Procs -> {"NULL", "set"}] /\ pc \in [Procs -> Nat]
           /\ \A p \in Procs : mlq_ready_queue[Prio[p]] \in Seq(Procs)
                               /\ SP!Distinct(mlq_ready_queue[Prio[p]])
           /\ \A c \in CPUs : proc[c] # None =>
                 proc[c] \in Procs /\ proc[c] \in HeldByCPUs /\ life[proc[c]] = "admitted"
           /\ \A p \in HeldByCPUs : p \in Procs /\ p # None /\ life[p] = "admitted"
                                    /\ ~Ready(p)
           /\ \A p \in Procs : Ready(p) => life[p] = "admitted" /\ p \notin HeldByCPUs
<1>1. SP!IInv /\ Threads
  BY DEF KInv
<1>2. Prio \in [Procs -> SP!Prios]
  BY KernelAssumption DEF SP!Prios
<1>3. /\ running_list \in Seq(Procs) /\ life \in [Procs -> S!Lives]
      /\ ready_queue \in [Procs -> {"NULL", "set"}] /\ pc \in [Procs -> Nat]
      /\ mlq_ready_queue \in [SP!Prios -> Seq(Procs)]
      /\ HeldByCPUs \subseteq Procs
  BY <1>1 DEF SP!IInv, SP!SchedTypeOK, SP!Lives, S!Lives, SP!Pointers
<1>4. /\ \A i \in SP!Prios : SP!Distinct(mlq_ready_queue[i])
      /\ \A i \in SP!Prios : \A p \in Procs : SP!Holds(mlq_ready_queue[i], p) =>
            p \notin HeldByCPUs /\ life[p] = "admitted"
      /\ \A p \in HeldByCPUs : life[p] = "admitted"
  BY <1>1 DEF SP!IInv, SP!Places
<1>5. \A p \in Procs : Ready(p) => life[p] = "admitted" /\ p \notin HeldByCPUs
  BY <1>2, <1>4, SameLists DEF Ready
<1>6. \A p \in HeldByCPUs : p \in Procs /\ p # None /\ life[p] = "admitted" /\ ~Ready(p)
  BY <1>3, <1>4, <1>5 DEF HeldByCPUs
<1>7. \A c \in CPUs : proc[c] # None =>
         proc[c] \in Procs /\ proc[c] \in HeldByCPUs /\ life[proc[c]] = "admitted"
  BY <1>1, <1>6, HeldFacts
<1> QED BY <1>1, <1>2, <1>3, <1>4, <1>5, <1>6, <1>7 DEF Threads, Locals

(* remove_proc takes p, and nobody else, off the list of running processes.*)
LEMMA Unlinked ==
    ASSUME ListInv, NEW p \in Procs, running_list' = S!remove_proc(running_list, p)
    PROVE  /\ SP!Distinct(running_list')
           /\ \A r \in Procs : Running(r)' <=> Running(r) /\ r # p
<1>1. running_list \in Seq(Procs) /\ SP!Distinct(running_list)
  BY PlaceFacts DEF ListInv, Lists, RunningOnce
<1>2. running_list' = SP!remove_proc(running_list, p)
  BY SameLists
<1> QED BY <1>1, <1>2, SameLists, SchedConstants, SP!RemoveKeeps DEF Running

(* While the lock is free nobody is in killall.                            *)
LEMMA LockFree ==
    ASSUME ListInv, queue_lock = "free"
    PROVE  \A c \in CPUs : cpc[c] \notin Killing
  BY DEF ListInv, Lists, Mutex

-------------------------------------------------------------------------------
(* A step of c that changes nothing but where c is.                        *)
LEMMA QuietStep ==
    ASSUME ListInv, NEW c \in CPUs, NEW y \in CpuPcs, cpc' = [cpc EXCEPT ![c] = y],
           UNCHANGED <<running_list, mlq_ready_queue, ready_queue, life, queue_lock, pc,
                       proc, victim>>,
           cpc[c] \notin Killing, y \notin Killing,
           proc[c] # None /\ y \in Listing => cpc[c] \in Listing,
           y = "free" => ready_queue[proc[c]] = "NULL",
           y \in {"remove", "remove_lock", "free"} => Finished(proc[c]),
           y \in {"detach", "exit"} => proc[c] = None
    PROVE  Lists' /\ RoomInv'
<1>1. /\ cpc \in [CPUs -> CpuPcs] /\ HeldByCPUs' = HeldByCPUs
      /\ \A p : Running(p)' <=> Running(p)
      /\ \A p : Ready(p)' <=> Ready(p)
      /\ \A p : Finished(p)' <=> Finished(p)
  BY PlaceFacts DEF ListInv, HeldByCPUs, Running, Ready, Finished
<1>2. cpc'[c] = y /\ \A e \in CPUs : e # c => cpc'[e] = cpc[e]
  BY <1>1
<1>3. RunningOnce' /\ Mutex'
  BY <1>1, <1>2 DEF ListInv, Lists, RunningOnce, Mutex
<1>4. Freeing'
  BY <1>1, <1>2 DEF ListInv, Lists, Freeing
<1>5. Victim'
  BY <1>2 DEF ListInv, Lists, Victim, Storing, Killing
<1>6. Room => NoProcessLost'
  BY <1>1 DEF ListInv, RoomInv, NoProcessLost, Ready
<1>7. \A p : BeingKilled(p) => BeingKilled(p)'
  BY <1>2 DEF BeingKilled, Storing, Killing
<1>8. Room => Listed'
  BY <1>1, <1>2, <1>7 DEF ListInv, RoomInv, Listed
<1> QED BY <1>3, <1>4, <1>5, <1>6, <1>8 DEF Lists, RoomInv

(* The steps of a CPU that touch no list.                                  *)
LEMMA PrivateLists ==
    ASSUME ListInv, NEW c \in CPUs,
           \/ NewSlot(c) \/ IdleStop(c) \/ IdleWait(c) \/ Check(c) \/ RemovePcb(c)
           \/ RecheckStop(c) \/ RecheckWait(c) \/ RecheckRun(c) \/ Detach(c)
           \/ RunCheck(c) \/ Fetch(c) \/ PcRead(c) \/ Ran(c)
    PROVE  Lists' /\ RoomInv'
<1>1. UNCHANGED <<running_list, mlq_ready_queue, ready_queue, life, queue_lock, pc,
                  proc, victim>>
  BY DEF NewSlot, IdleStop, IdleWait, Check, RemovePcb, RecheckStop, RecheckWait,
         RecheckRun, Detach, RunCheck, Fetch, PcRead, Ran, locals, sched
<1>2. /\ Holding /\ Freeing
      /\ \A p \in Procs : ready_queue[p] \in {"NULL", "set"}
      /\ \A e \in CPUs : proc[e] # None => proc[e] \in Procs
  BY PlaceFacts DEF ListInv, KInv, Threads, Lists
<1>3. \E y \in CpuPcs :
        /\ cpc' = [cpc EXCEPT ![c] = y]
        /\ cpc[c] \notin Killing /\ y \notin Killing
        /\ proc[c] # None /\ y \in Listing => cpc[c] \in Listing
        /\ y = "free" => ready_queue[proc[c]] = "NULL"
        /\ y \in {"remove", "remove_lock", "free"} => Finished(proc[c])
        /\ y \in {"detach", "exit"} => proc[c] = None
  <2>1. CASE Check(c)
    <3> DEFINE to == IF Finished(proc[c]) THEN "remove"
                     ELSE IF time_left[c] = 0 THEN "put" ELSE "recheck"
    <3>1. cpc[c] = "loop" /\ cpc' = [cpc EXCEPT ![c] = to]
      BY <2>1 DEF Check, Goto
    <3>2. to \in {"remove", "put", "recheck"} /\ (to = "remove" => Finished(proc[c]))
      OBVIOUS
    <3> HIDE DEF to
    <3> QED BY <3>1, <3>2 DEF CpuPcs, Killing, Listing
  <2>2. CASE RemovePcb(c)
    <3> DEFINE to == IF ready_queue[proc[c]] = "set" THEN "remove_lock" ELSE "free"
    <3>1. cpc[c] = "remove" /\ cpc' = [cpc EXCEPT ![c] = to] /\ proc[c] # None
      BY <1>2, <2>2 DEF RemovePcb, Goto, Holding, Working
    <3>2. to \in {"remove_lock", "free"} /\ (to = "free" => ready_queue[proc[c]] = "NULL")
      BY <1>2, <3>1
    <3>3. Finished(proc[c])
      BY <1>2, <3>1 DEF Freeing
    <3> HIDE DEF to
    <3> QED BY <3>1, <3>2, <3>3 DEF CpuPcs, Killing, Listing
  <2>3. CASE RunCheck(c)
    <3> DEFINE to == IF Finished(proc[c]) THEN "ran" ELSE "fetch"
    <3>1. cpc[c] = "run" /\ cpc' = [cpc EXCEPT ![c] = to]
      BY <2>3 DEF RunCheck, Goto
    <3>2. to \in {"ran", "fetch"}
      OBVIOUS
    <3> HIDE DEF to
    <3> QED BY <3>1, <3>2 DEF CpuPcs, Killing, Listing
  <2>4. CASE \/ NewSlot(c) \/ IdleStop(c) \/ IdleWait(c)
             \/ RecheckStop(c) \/ RecheckWait(c) \/ RecheckRun(c) \/ Detach(c)
             \/ Fetch(c) \/ PcRead(c) \/ Ran(c)
    BY <1>2, <2>4 DEF NewSlot, IdleStop, IdleWait, EndSlot, RecheckStop, RecheckWait,
       RecheckRun, Detach, Fetch, PcRead, Ran, Goto, Holding, Freeing, CpuPcs, Killing,
       Listing
  <2> QED BY <2>1, <2>2, <2>3, <2>4
<1> QED BY <1>1, <1>3, QuietStep

(* get_proc: the process leaves its queue for the list of running ones.    *)
LEMMA GetLists ==
    ASSUME ListInv, KInv', NEW c \in CPUs, IdleGet(c) \/ Get(c)
    PROVE  Lists' /\ RoomInv'
<1>1. /\ cpc[c] \in {"loop", "get"} /\ proc[c] = None /\ UNCHANGED victim
      /\ GetOrNone(c, "idle") \/ GetOrNone(c, "recheck")
  BY DEF IdleGet, Get, ListInv, KInv, Threads, Holding
<1>2. ASSUME NEW y \in {"idle", "recheck"}, UNCHANGED proc, S!GetNothing,
             cpc' = Local(cpc, c, y)
      PROVE  Lists' /\ RoomInv'
  <2>1. UNCHANGED <<running_list, mlq_ready_queue, ready_queue, life, queue_lock, pc,
                    proc, victim>>
    BY <1>1, <1>2 DEF S!GetNothing, S!queueVars, S!ptrVars
  <2>2. cpc' = [cpc EXCEPT ![c] = y] /\ y \in CpuPcs
    BY <1>2 DEF Local, CpuPcs
  <2> QED BY <1>1, <2>1, <2>2, QuietStep DEF Killing
<1>3. ASSUME NEW p \in Procs, proc' = Local(proc, c, p), S!GetProc(p),
             cpc' = Local(cpc, c, "recheck")
      PROVE  Lists' /\ RoomInv'
  <2>1. /\ queue_lock = "free" /\ UNCHANGED <<queue_lock, pc, ready_queue, life>>
        /\ SP!GetProc(p)
    BY <1>3, SameScheduler DEF S!GetProc
  <2>2. p \notin HeldByCPUs /\ life[p] = "admitted" /\ p # None
    BY <2>1, SchedConstants, SP!GotFacts DEF ListInv, KInv
  <2>3. running_list \in Seq(Procs) /\ SP!Distinct(running_list) /\ ~Running(p)
    BY <2>2, PlaceFacts DEF ListInv, Lists, RunningOnce
  <2>4. /\ SP!Distinct(running_list')
        /\ \A r \in Procs : Running(r)' => Running(r) \/ r = p
        /\ \A r \in Procs : Running(r) => Running(r)'
        /\ Len(running_list) < MaxQueueSize => Running(p)'
        /\ \A r \in Procs : r # p /\ Ready(r) => Ready(r)'
    BY <2>1, <2>3, SameLists, SchedConstants, SP!Dispatched DEF ListInv, KInv, Running, Ready
  <2>5. /\ cpc'[c] = "recheck" /\ proc'[c] = p
        /\ \A e \in CPUs : e # c => cpc'[e] = cpc[e] /\ proc'[e] = proc[e]
        /\ HeldByCPUs' = HeldByCPUs \cup {p}
    BY <1>1, <1>3, <2>2, PlaceFacts DEF ListInv, Local, HeldByCPUs
  <2>6. \A e \in CPUs : cpc[e] \notin Killing /\ cpc'[e] \notin Killing
    BY <2>1, <2>5, LockFree DEF Killing
  <2>7. \A e \in CPUs : e # c /\ proc[e] # None => proc[e] \in Procs /\ proc[e] # p
    BY <2>2, PlaceFacts DEF ListInv
  <2>8. RunningOnce' /\ Mutex'
    BY <2>1, <2>4, <2>5, <2>6 DEF ListInv, Lists, RunningOnce, Mutex
  <2>9. Freeing'
    <3>1. \A e \in CPUs : cpc[e] \in {"remove", "remove_lock", "free"} => proc[e] # None
      BY DEF ListInv, KInv, Threads, Holding, Working
    <3> QED BY <2>1, <2>4, <2>5, <2>7, <3>1 DEF ListInv, Lists, Freeing, Finished
  <2>10. Victim'
    BY <2>6 DEF Victim, Storing, Killing
  <2>11. Room => NoProcessLost'
    BY <2>1, <2>4, <2>5 DEF ListInv, RoomInv, NoProcessLost, Ready
  <2>12. Room => Listed'
    <3>1. Room => Running(p)'
      BY <2>3, <2>4, HasRoom DEF Running
    <3>2. \A q : ~BeingKilled(q)
      BY <2>6 DEF BeingKilled, Storing, Killing
    <3> QED BY <2>1, <2>4, <2>5, <2>7, <3>1, <3>2 DEF ListInv, RoomInv, Listed
  <2> QED BY <2>8, <2>9, <2>10, <2>11, <2>12 DEF Lists, RoomInv
<1> QED BY <1>1, <1>2, <1>3 DEF GetOrNone

(* remove_pcb takes a process that nobody else holds off the list, under   *)
(* the lock.                                                               *)
LEMMA RemoveLockedLists ==
    ASSUME ListInv, NEW c \in CPUs, RemoveLocked(c) PROVE Lists' /\ RoomInv'
<1> DEFINE p == proc[c]
<1>1. /\ cpc[c] = "remove_lock" /\ cpc' = [cpc EXCEPT ![c] = "free"]
      /\ queue_lock = "free" /\ running_list' = S!remove_proc(running_list, p)
      /\ UNCHANGED <<mlq_ready_queue, ready_queue, life, queue_lock, pc, proc, victim>>
  BY DEF RemoveLocked, Goto, locals, S!RemoveFromRunning, S!ptrVars
<1>2. p # None /\ p \in Procs
  BY <1>1, PlaceFacts DEF ListInv, KInv, Threads, Holding, Working
<1>3. /\ SP!Distinct(running_list')
      /\ \A r \in Procs : Running(r)' <=> Running(r) /\ r # p
  BY <1>1, <1>2, Unlinked
<1>4. /\ cpc'[c] = "free" /\ \A e \in CPUs : e # c => cpc'[e] = cpc[e]
      /\ HeldByCPUs' = HeldByCPUs
      /\ \A r : Ready(r)' <=> Ready(r)
      /\ \A r : Finished(r)' <=> Finished(r)
  BY <1>1, PlaceFacts DEF ListInv, HeldByCPUs, Ready, Finished
<1>5. \A e \in CPUs : cpc[e] \notin Killing /\ cpc'[e] \notin Killing
  BY <1>1, <1>4, LockFree DEF Killing
<1>6. \A e \in CPUs : proc[e] # None => proc[e] \in Procs /\ (e # c => proc[e] # p)
  BY <1>2, PlaceFacts DEF ListInv, KInv, Threads, OneCPU
<1>7. RunningOnce' /\ Mutex'
  BY <1>1, <1>3, <1>4, <1>5 DEF ListInv, Lists, RunningOnce, Mutex
<1>8. Freeing'
  <2>1. \A e \in CPUs : cpc[e] \in {"remove", "remove_lock", "free"} => proc[e] # None
    BY DEF ListInv, KInv, Threads, Holding, Working
  <2> QED BY <1>1, <1>2, <1>3, <1>4, <1>6, <2>1 DEF ListInv, Lists, Freeing
<1>9. Victim'
  BY <1>5 DEF Victim, Storing, Killing
<1>10. Room => NoProcessLost'
  BY <1>1, <1>4 DEF ListInv, RoomInv, NoProcessLost, Ready
<1>11. Room => Listed'
  <2>1. \A q : ~BeingKilled(q)
    BY <1>5 DEF BeingKilled, Storing, Killing
  <2> QED BY <1>1, <1>3, <1>4, <1>6, <2>1 DEF ListInv, RoomInv, Listed, Listing
<1> QED BY <1>7, <1>8, <1>9, <1>10, <1>11 DEF Lists, RoomInv

(* The process that is freed is in no ready queue, and not the victim that *)
(* killall is about to mark.                                               *)
LEMMA FreeLists ==
    ASSUME ListInv, NEW c \in CPUs, Free(c) PROVE Lists' /\ RoomInv'
<1> DEFINE p == proc[c]
<1>1. /\ cpc[c] = "free" /\ cpc' = [cpc EXCEPT ![c] = "get"]
      /\ proc' = [proc EXCEPT ![c] = None]
      /\ life' = [life EXCEPT ![p] = "freed"]
      /\ UNCHANGED <<running_list, mlq_ready_queue, ready_queue, queue_lock, pc, victim>>
  BY DEF Free, Goto, Local, S!FreePcb, S!queueVars, S!ptrVars
<1>2. p # None /\ p \in Procs /\ p \in HeldByCPUs
  BY <1>1, PlaceFacts DEF ListInv, KInv, Threads, Holding, Working
<1>3. /\ cpc'[c] = "get" /\ proc'[c] = None
      /\ \A e \in CPUs : e # c => cpc'[e] = cpc[e] /\ proc'[e] = proc[e]
      /\ life'[p] = "freed" /\ \A r \in Procs : r # p => life'[r] = life[r]
      /\ \A r : Running(r)' <=> Running(r)
      /\ \A r : Ready(r)' <=> Ready(r)
      /\ \A r : Finished(r)' <=> Finished(r)
  BY <1>1, <1>2, PlaceFacts DEF ListInv, Running, Ready, Finished
<1>4. HeldByCPUs' = HeldByCPUs \ {p}
  BY <1>1, <1>2, <1>3 DEF ListInv, KInv, Threads, Locals, OneCPU, HeldByCPUs
<1>5. RunningOnce' /\ Mutex'
  BY <1>1, <1>2, <1>3, <1>4 DEF ListInv, Lists, RunningOnce, Mutex, Killing
<1>6. Freeing'
  BY <1>1, <1>3 DEF ListInv, Lists, Freeing
<1>7. Victim'
  <2>1. ASSUME NEW d \in CPUs, cpc'[d] \in Storing, ready_queue[victim[d]] = "set"
        PROVE  /\ life'[victim[d]] = "admitted"
               /\ \A e \in CPUs : cpc'[e] = "free" => proc'[e] # victim[d]
    <3>1. d # c /\ cpc[d] \in Storing
      BY <1>3, <2>1 DEF Storing
    <3>2. /\ life[victim[d]] = "admitted"
          /\ \A e \in CPUs : cpc[e] = "free" => proc[e] # victim[d]
      BY <2>1, <3>1 DEF ListInv, Lists, Victim
    <3>3. victim[d] # p /\ victim[d] \in Procs
      BY <1>1, <3>1, <3>2 DEF ListInv, KInv, Threads, Holding, Storing
    <3> QED BY <1>3, <3>2, <3>3
  <2> QED BY <1>1, <2>1 DEF Victim
<1>8. Room => NoProcessLost'
  BY <1>3, <1>4 DEF ListInv, RoomInv, NoProcessLost, Ready
<1>9. Room => Listed'
  <2>1. \A q : BeingKilled(q) => BeingKilled(q)'
    BY <1>1, <1>3 DEF BeingKilled, Storing
  <2> QED BY <1>1, <1>3, <2>1 DEF ListInv, RoomInv, Listed
<1> QED BY <1>5, <1>6, <1>7, <1>8, <1>9 DEF Lists, RoomInv

(* put_proc before it has the lock: the mark of killall is lost, on a      *)
(* process that is nowhere near to be freed.                               *)
LEMMA PutUnlockedLists ==
    ASSUME ListInv, NEW c \in CPUs, PutUnlocked(c) PROVE Lists' /\ RoomInv'
<1> DEFINE p == proc[c]
<1>1. /\ cpc[c] = "put" /\ cpc' = [cpc EXCEPT ![c] = "put_lock"]
      /\ ready_queue' = [ready_queue EXCEPT ![p] = "set"]
      /\ UNCHANGED <<running_list, mlq_ready_queue, life, queue_lock, pc, proc, victim>>
  BY DEF PutUnlocked, Goto, locals, S!PutPointers, S!queueVars
<1>2. p # None /\ p \in Procs /\ life[p] = "admitted"
  BY <1>1, PlaceFacts DEF ListInv, KInv, Threads, Holding, Working
<1>3. /\ cpc'[c] = "put_lock" /\ \A e \in CPUs : e # c => cpc'[e] = cpc[e]
      /\ \A r \in Procs : r # p => ready_queue'[r] = ready_queue[r]
      /\ HeldByCPUs' = HeldByCPUs
      /\ \A r : Running(r)' <=> Running(r)
      /\ \A r : Ready(r)' <=> Ready(r)
      /\ \A r : Finished(r)' <=> Finished(r)
  BY <1>1, <1>2, PlaceFacts DEF ListInv, HeldByCPUs, Running, Ready, Finished
<1>4. \A e \in CPUs : proc[e] # None => proc[e] \in Procs /\ (e # c => proc[e] # p)
  BY <1>2, PlaceFacts DEF ListInv, KInv, Threads, OneCPU
<1>5. RunningOnce' /\ Mutex'
  BY <1>1, <1>3 DEF ListInv, Lists, RunningOnce, Mutex, Killing
<1>6. Freeing'
  <2>1. \A e \in CPUs : cpc[e] \in {"remove", "remove_lock", "free"} => proc[e] # None
    BY DEF ListInv, KInv, Threads, Holding, Working
  <2> QED BY <1>1, <1>3, <1>4, <2>1 DEF ListInv, Lists, Freeing
<1>7. Victim'
  <2>1. ASSUME NEW d \in CPUs, cpc'[d] \in Storing, ready_queue'[victim[d]] = "set"
        PROVE  /\ life[victim[d]] = "admitted"
               /\ \A e \in CPUs : cpc'[e] = "free" => proc[e] # victim[d]
    <3>1. d # c /\ cpc[d] \in Storing /\ victim[d] \in Procs
      BY <1>3, <2>1 DEF ListInv, KInv, Threads, Holding, Storing
    <3>2. CASE victim[d] = p
      BY <1>2, <1>3, <1>4, <3>2
    <3>3. CASE victim[d] # p
      BY <1>3, <2>1, <3>1, <3>3 DEF ListInv, Lists, Victim
    <3> QED BY <3>2, <3>3
  <2> QED BY <1>1, <2>1 DEF Victim
<1>8. Room => NoProcessLost'
  BY <1>1, <1>3 DEF ListInv, RoomInv, NoProcessLost, Ready
<1>9. Room => Listed'
  <2>1. \A q : BeingKilled(q) => BeingKilled(q)'
    BY <1>1, <1>3 DEF BeingKilled, Storing
  <2>2. "put_lock" \notin Listing
    BY DEF Listing
  <2> QED BY <1>1, <1>3, <1>4, <2>1, <2>2 DEF ListInv, RoomInv, Listed
<1> QED BY <1>5, <1>6, <1>7, <1>8, <1>9 DEF Lists, RoomInv

(* put_proc with the lock: from the CPU, and from the list of running      *)
(* processes, to a ready queue that has room.                              *)
LEMMA PutLockedLists ==
    ASSUME ListInv, NEW c \in CPUs, PutLocked(c) PROVE Lists' /\ RoomInv'
<1> DEFINE p == proc[c]
<1>1. /\ cpc[c] = "put_lock" /\ cpc' = [cpc EXCEPT ![c] = "get"]
      /\ proc' = [proc EXCEPT ![c] = None] /\ queue_lock = "free"
      /\ mlq_ready_queue' = [mlq_ready_queue EXCEPT ![Prio[p]] = S!enqueue(@, p)]
      /\ running_list' = S!remove_proc(running_list, p)
      /\ UNCHANGED <<ready_queue, life, queue_lock, pc, victim>>
  BY DEF PutLocked, Goto, Local, S!PutProc
<1>2. p # None /\ p \in Procs /\ p \in HeldByCPUs /\ ~Ready(p)
  BY <1>1, PlaceFacts DEF ListInv, KInv, Threads, Holding, Working
<1>3. /\ SP!Distinct(running_list')
      /\ \A r \in Procs : Running(r)' <=> Running(r) /\ r # p
  BY <1>1, <1>2, Unlinked
<1>4. /\ \A r \in Procs : Ready(r) => Ready(r)'
      /\ \A r \in Procs : r = p /\ Len(mlq_ready_queue[Prio[p]]) < MaxQueueSize
                             => Ready(r)'
  <2>1. mlq_ready_queue' = [mlq_ready_queue EXCEPT ![Prio[p]] = SP!enqueue(@, p)]
    BY <1>1, SameLists
  <2> QED BY <1>2, <2>1, SameLists, SchedConstants, SP!Entered DEF ListInv, KInv, Ready
<1>5. /\ cpc'[c] = "get" /\ proc'[c] = None
      /\ \A e \in CPUs : e # c => cpc'[e] = cpc[e] /\ proc'[e] = proc[e]
      /\ \A r : Finished(r)' <=> Finished(r)
  BY <1>1, PlaceFacts DEF ListInv, Finished
<1>6. HeldByCPUs' = HeldByCPUs \ {p}
  BY <1>1, <1>2, <1>5 DEF ListInv, KInv, Threads, Locals, OneCPU, HeldByCPUs
<1>7. \A e \in CPUs : cpc[e] \notin Killing /\ cpc'[e] \notin Killing
  BY <1>1, <1>5, LockFree DEF Killing
<1>8. \A e \in CPUs : proc[e] # None => proc[e] \in Procs /\ (e # c => proc[e] # p)
  BY <1>2, PlaceFacts DEF ListInv, KInv, Threads, OneCPU
<1>9. RunningOnce' /\ Mutex'
  BY <1>1, <1>3, <1>6, <1>7 DEF ListInv, Lists, RunningOnce, Mutex
<1>10. Freeing'
  <2>1. \A e \in CPUs : cpc[e] \in {"remove", "remove_lock", "free"} => proc[e] # None
    BY DEF ListInv, KInv, Threads, Holding, Working
  <2> QED BY <1>1, <1>3, <1>5, <1>8, <2>1 DEF ListInv, Lists, Freeing
<1>11. Victim'
  BY <1>7 DEF Victim, Storing, Killing
<1>12. Room => NoProcessLost'
  <2>1. Room => \A r \in Procs : r = p => Ready(r)'
    BY <1>2, <1>4, HasRoom, PlaceFacts DEF ListInv, Ready
  <2> QED BY <1>1, <1>4, <1>6, <2>1 DEF ListInv, RoomInv, NoProcessLost, Ready
<1>13. Room => Listed'
  <2>1. \A q : ~BeingKilled(q)
    BY <1>7 DEF BeingKilled, Storing, Killing
  <2> QED BY <1>1, <1>3, <1>5, <1>8, <2>1 DEF ListInv, RoomInv, Listed
<1> QED BY <1>9, <1>10, <1>11, <1>12, <1>13 DEF Lists, RoomInv

(* A pc is written back only to the CPU's own process, which runs.         *)
LEMMA PcWriteLists ==
    ASSUME ListInv, NEW c \in CPUs, PcWrite(c) PROVE Lists' /\ RoomInv'
<1> DEFINE p == proc[c]
<1>1. /\ cpc[c] = "pc_write" /\ pc' = [pc EXCEPT ![p] = reg[c] + 1]
      /\ UNCHANGED <<running_list, mlq_ready_queue, ready_queue, life, queue_lock,
                     proc, victim>>
  BY DEF PcWrite, Goto, locals, S!WritePc, S!queueVars, S!ptrVars
<1>2. PICK y \in {"kill_lock", "ran"} : cpc' = [cpc EXCEPT ![c] = y]
  BY DEF PcWrite, Goto
<1>3. p # None /\ p \in Procs
  BY <1>1, PlaceFacts DEF ListInv, KInv, Threads, Holding, Working
<1>4. /\ cpc'[c] = y /\ \A e \in CPUs : e # c => cpc'[e] = cpc[e]
      /\ HeldByCPUs' = HeldByCPUs
      /\ \A r : Running(r)' <=> Running(r)
      /\ \A r : Ready(r)' <=> Ready(r)
      /\ \A r \in Procs : r # p => (Finished(r)' <=> Finished(r))
  BY <1>1, <1>2, <1>3, PlaceFacts DEF ListInv, HeldByCPUs, Running, Ready, Finished
<1>5. \A e \in CPUs : proc[e] # None => proc[e] \in Procs /\ (e # c => proc[e] # p)
  BY <1>3, PlaceFacts DEF ListInv, KInv, Threads, OneCPU
<1>6. RunningOnce' /\ Mutex'
  BY <1>1, <1>4 DEF ListInv, Lists, RunningOnce, Mutex, Killing
<1>7. Freeing'
  <2>1. \A e \in CPUs : cpc[e] \in {"remove", "remove_lock", "free"} => proc[e] # None
    BY DEF ListInv, KInv, Threads, Holding, Working
  <2> QED BY <1>1, <1>4, <1>5, <2>1 DEF ListInv, Lists, Freeing
<1>8. Victim'
  BY <1>1, <1>4 DEF ListInv, Lists, Victim, Storing
<1>9. Room => NoProcessLost'
  BY <1>1, <1>4 DEF ListInv, RoomInv, NoProcessLost, Ready
<1>10. Room => Listed'
  <2>1. \A q : BeingKilled(q) => BeingKilled(q)'
    BY <1>1, <1>4 DEF BeingKilled, Storing
  <2>2. "pc_write" \in Listing
    BY DEF Listing
  <2> QED BY <1>1, <1>4, <2>1, <2>2 DEF ListInv, RoomInv, Listed
<1> QED BY <1>6, <1>7, <1>8, <1>9, <1>10 DEF Lists, RoomInv

-------------------------------------------------------------------------------
(* killall, which has the lock to itself.                                  *)
LEMMA KillLockLists ==
    ASSUME ListInv, NEW c \in CPUs, KillLock(c) PROVE Lists' /\ RoomInv'
<1>1. /\ cpc[c] = "kill_lock" /\ cpc' = [cpc EXCEPT ![c] = "kill_scan"]
      /\ queue_lock = "free" /\ queue_lock' = "killall"
      /\ UNCHANGED <<running_list, mlq_ready_queue, ready_queue, life, pc, proc, victim>>
  BY DEF KillLock, Goto, locals, S!KillLock, S!queueVars, S!ptrVars
<1>2. /\ cpc'[c] = "kill_scan" /\ \A e \in CPUs : e # c => cpc'[e] = cpc[e]
      /\ HeldByCPUs' = HeldByCPUs
      /\ \A r : Running(r)' <=> Running(r)
      /\ \A r : Ready(r)' <=> Ready(r)
      /\ \A r : Finished(r)' <=> Finished(r)
  BY <1>1, PlaceFacts DEF ListInv, HeldByCPUs, Running, Ready, Finished
<1>3. \A e \in CPUs : cpc[e] \notin Killing
  BY <1>1, LockFree
<1>4. RunningOnce' /\ Mutex' /\ Freeing'
  BY <1>1, <1>2, <1>3 DEF ListInv, Lists, RunningOnce, Mutex, Freeing
<1>5. Victim'
  BY <1>2, <1>3 DEF Victim, Storing, Killing
<1>6. Room => NoProcessLost' /\ Listed'
  <2>1. \A q : ~BeingKilled(q)
    BY <1>3 DEF BeingKilled, Storing, Killing
  <2>2. "kill_lock" \in Listing
    BY DEF Listing
  <2> QED BY <1>1, <1>2, <2>1, <2>2 DEF ListInv, RoomInv, NoProcessLost, Listed, Ready
<1> QED BY <1>4, <1>5, <1>6 DEF Lists, RoomInv

LEMMA KillUnlockLists ==
    ASSUME ListInv, NEW c \in CPUs, KillUnlock(c) PROVE Lists' /\ RoomInv'
<1>1. /\ cpc[c] = "kill_scan" /\ cpc' = [cpc EXCEPT ![c] = "ran"]
      /\ UNCHANGED <<running_list, mlq_ready_queue, ready_queue, life, pc, proc, victim>>
  BY DEF KillUnlock, Goto, locals, S!KillUnlock, S!queueVars, S!ptrVars
<1>2. /\ cpc'[c] = "ran" /\ \A e \in CPUs : e # c => cpc'[e] = cpc[e]
      /\ HeldByCPUs' = HeldByCPUs
      /\ \A r : Running(r)' <=> Running(r)
      /\ \A r : Ready(r)' <=> Ready(r)
      /\ \A r : Finished(r)' <=> Finished(r)
  BY <1>1, PlaceFacts DEF ListInv, HeldByCPUs, Running, Ready, Finished
<1>3. \A e \in CPUs : cpc'[e] \notin Killing
  BY <1>1, <1>2 DEF ListInv, Lists, Mutex, Killing
<1>4. RunningOnce' /\ Mutex' /\ Freeing'
  BY <1>1, <1>2, <1>3 DEF ListInv, Lists, RunningOnce, Mutex, Freeing
<1>5. Victim'
  BY <1>3 DEF Victim, Storing, Killing
<1>6. Room => NoProcessLost' /\ Listed'
  <2>1. \A q : ~BeingKilled(q)
    BY <1>1, <1>2, <1>3 DEF BeingKilled, Storing, Killing
  <2>2. "kill_scan" \in Listing
    BY DEF Listing
  <2> QED BY <1>1, <1>2, <2>1, <2>2 DEF ListInv, RoomInv, NoProcessLost, Listed, Ready
<1> QED BY <1>4, <1>5, <1>6 DEF Lists, RoomInv

(* A running victim, or one that a recycled pcb makes look like one, is    *)
(* alive, and its CPU is not about to free it.                             *)
LEMMA KillUnlinkLists ==
    ASSUME ListInv, NEW c \in CPUs, KillUnlink(c) PROVE Lists' /\ RoomInv'
<1>1. PICK v \in Victims(ins[c].a1) : victim' = [victim EXCEPT ![c] = v] /\ S!KillUnlink(v)
  BY DEF KillUnlink, Local
<1>2. /\ cpc[c] = "kill_scan" /\ cpc' = [cpc EXCEPT ![c] = "kill_pc"]
      /\ queue_lock = "killall" /\ running_list' = S!remove_proc(running_list, v)
      /\ UNCHANGED <<mlq_ready_queue, ready_queue, life, queue_lock, pc, proc>>
  BY <1>1 DEF KillUnlink, Goto, S!KillUnlink, S!ptrVars
<1>3. v \in Procs /\ life[v] = "admitted" /\ (Running(v) \/ Ready(v))
  BY DEF Victims, RunningVictims, ReadyVictims, Matches, Running, Ready
<1>4. /\ SP!Distinct(running_list')
      /\ \A r \in Procs : Running(r)' <=> Running(r) /\ r # v
  BY <1>2, <1>3, Unlinked
<1>5. /\ cpc'[c] = "kill_pc" /\ victim'[c] = v
      /\ \A e \in CPUs : e # c => cpc'[e] = cpc[e] /\ victim'[e] = victim[e]
      /\ HeldByCPUs' = HeldByCPUs
      /\ \A r : Ready(r)' <=> Ready(r)
      /\ \A r : Finished(r)' <=> Finished(r)
  BY <1>1, <1>2, PlaceFacts DEF ListInv, HeldByCPUs, Ready, Finished
<1>6. \A e \in CPUs : e # c => cpc'[e] \notin Killing
  BY <1>2, <1>5 DEF ListInv, Lists, Mutex, Killing
<1>7. RunningOnce' /\ Mutex'
  BY <1>2, <1>4, <1>5, <1>6 DEF ListInv, Lists, RunningOnce, Mutex
<1>8. Freeing'
  <2>1. \A e \in CPUs : cpc[e] \in {"remove", "remove_lock", "free"}
                           => proc[e] \in Procs
    BY PlaceFacts DEF ListInv, KInv, Threads, Holding, Working
  <2> QED BY <1>2, <1>4, <1>5, <2>1 DEF ListInv, Lists, Freeing
<1>9. Victim'
  <2>1. ASSUME ready_queue[v] = "set", NEW e \in CPUs, cpc'[e] = "free" PROVE proc[e] # v
    <3>1. SUFFICES ASSUME proc[e] = v PROVE FALSE
      OBVIOUS
    <3>2. cpc[e] = "free" /\ ~Running(v)
      BY <1>5, <2>1, <3>1 DEF ListInv, Lists, Freeing
    <3>3. v \in HeldByCPUs /\ ~Ready(v)
      BY <3>1, <3>2, PlaceFacts DEF ListInv, KInv, Threads, Holding, Working
    <3> QED BY <1>3, <3>2, <3>3
  <2>2. \A d \in CPUs : cpc'[d] \in Storing => d = c
    BY <1>6 DEF Storing, Killing
  <2> QED BY <1>2, <1>3, <1>5, <2>1, <2>2 DEF Victim
<1>10. Room => NoProcessLost'
  BY <1>2, <1>5 DEF ListInv, RoomInv, NoProcessLost, Ready
<1>11. Room => Listed'
  <2>1. BeingKilled(v)'
    BY <1>5 DEF BeingKilled, Storing
  <2>2. \A q : ~BeingKilled(q)
    BY <1>2 DEF BeingKilled, ListInv, Lists, Mutex, Storing, Killing
  <2>3. \A e \in CPUs : proc[e] # None => proc[e] \in Procs
    BY PlaceFacts DEF ListInv
  <2>4. "kill_scan" \in Listing
    BY DEF Listing
  <2> QED BY <1>2, <1>4, <1>5, <2>1, <2>2, <2>3, <2>4 DEF ListInv, RoomInv, Listed
<1> QED BY <1>7, <1>8, <1>9, <1>10, <1>11 DEF Lists, RoomInv

LEMMA KillPcLists ==
    ASSUME ListInv, NEW c \in CPUs, KillPc(c) PROVE Lists' /\ RoomInv'
<1>1. /\ cpc[c] = "kill_pc" /\ cpc' = [cpc EXCEPT ![c] = "kill_mark"]
      /\ pc' = [pc EXCEPT ![victim[c]] = Size[victim[c]]]
      /\ UNCHANGED <<running_list, mlq_ready_queue, ready_queue, life, queue_lock,
                     proc, victim>>
  BY DEF KillPc, Goto, locals, S!KillPc, S!queueVars, S!ptrVars
<1>2. /\ cpc'[c] = "kill_mark" /\ \A e \in CPUs : e # c => cpc'[e] = cpc[e]
      /\ HeldByCPUs' = HeldByCPUs
      /\ \A r : Running(r)' <=> Running(r)
      /\ \A r : Ready(r)' <=> Ready(r)
  BY <1>1, PlaceFacts DEF ListInv, HeldByCPUs, Running, Ready
<1>3. \A r \in Procs : Finished(r) => Finished(r)'
  <2>1. pc \in [Procs -> Nat] /\ Size \in [Procs -> Nat]
    BY PlaceFacts, SchedConstants DEF ListInv
  <2> QED BY <1>1, <2>1 DEF Finished
<1>4. RunningOnce' /\ Mutex'
  BY <1>1, <1>2 DEF ListInv, Lists, RunningOnce, Mutex, Killing
<1>5. Freeing'
  <2>1. \A e \in CPUs : cpc[e] \in {"remove", "remove_lock", "free"} => proc[e] \in Procs
    BY PlaceFacts DEF ListInv, KInv, Threads, Holding, Working
  <2> QED BY <1>1, <1>2, <1>3, <2>1 DEF ListInv, Lists, Freeing
<1>6. Victim'
  BY <1>1, <1>2 DEF ListInv, Lists, Victim, Storing
<1>7. Room => NoProcessLost'
  BY <1>1, <1>2 DEF ListInv, RoomInv, NoProcessLost, Ready
<1>8. Room => Listed'
  <2>1. \A q : BeingKilled(q) => BeingKilled(q)'
    BY <1>1, <1>2 DEF BeingKilled, Storing
  <2>2. "kill_pc" \in Listing
    BY DEF Listing
  <2> QED BY <1>1, <1>2, <2>1, <2>2 DEF ListInv, RoomInv, Listed
<1> QED BY <1>4, <1>5, <1>6, <1>7, <1>8 DEF Lists, RoomInv

LEMMA KillMarkLists ==
    ASSUME ListInv, NEW c \in CPUs, KillMark(c) PROVE Lists' /\ RoomInv'
<1> DEFINE v == victim[c]
<1>1. /\ cpc[c] = "kill_mark" /\ cpc' = [cpc EXCEPT ![c] = "kill_scan"]
      /\ victim' = [victim EXCEPT ![c] = None]
      /\ ready_queue' = [ready_queue EXCEPT ![v] = "NULL"]
      /\ UNCHANGED <<running_list, mlq_ready_queue, life, queue_lock, pc, proc>>
  BY DEF KillMark, Goto, Local, S!KillMark, S!queueVars
<1>2. v \in Procs
  BY <1>1 DEF ListInv, KInv, Threads, Holding
<1>3. /\ cpc'[c] = "kill_scan" /\ \A e \in CPUs : e # c => cpc'[e] = cpc[e]
      /\ \A r \in Procs : ready_queue'[r] = IF r = v THEN "NULL" ELSE ready_queue[r]
      /\ HeldByCPUs' = HeldByCPUs
      /\ \A r : Running(r)' <=> Running(r)
      /\ \A r : Ready(r)' <=> Ready(r)
      /\ \A r : Finished(r)' <=> Finished(r)
  BY <1>1, <1>2, PlaceFacts DEF ListInv, HeldByCPUs, Running, Ready, Finished
<1>4. \A e \in CPUs : e # c => cpc[e] \notin Killing
  BY <1>1 DEF ListInv, Lists, Mutex, Killing
<1>5. RunningOnce' /\ Mutex'
  BY <1>1, <1>3, <1>4 DEF ListInv, Lists, RunningOnce, Mutex, Killing
<1>6. Freeing'
  <2>1. \A e \in CPUs : cpc[e] \in {"remove", "remove_lock", "free"} => proc[e] \in Procs
    BY PlaceFacts DEF ListInv, KInv, Threads, Holding, Working
  <2> QED BY <1>1, <1>3, <2>1 DEF ListInv, Lists, Freeing
<1>7. Victim'
  BY <1>3, <1>4 DEF Victim, Storing, Killing
<1>8. Room => NoProcessLost'
  BY <1>1, <1>3 DEF ListInv, RoomInv, NoProcessLost, Ready
<1>9. Room => Listed'
  <2>1. \A q : BeingKilled(q) => q = v
    BY <1>4 DEF BeingKilled, Storing, Killing
  <2>2. \A e \in CPUs : proc[e] # None => proc[e] \in Procs
    BY PlaceFacts DEF ListInv
  <2>3. "kill_mark" \in Listing
    BY DEF Listing
  <2> QED BY <1>1, <1>3, <2>1, <2>2, <2>3 DEF ListInv, RoomInv, Listed
<1> QED BY <1>5, <1>6, <1>7, <1>8, <1>9 DEF Lists, RoomInv

(* A ready victim leaves its queue and is freed, all under the lock.       *)
LEMMA KillReadyLists ==
    ASSUME ListInv, NEW c \in CPUs, KillReady(c) PROVE Lists' /\ RoomInv'
<1>1. PICK v \in Victims(ins[c].a1) : S!KillReady(v)
  BY DEF KillReady
<1>2. /\ cpc[c] = "kill_scan" /\ Ready(v) /\ life' = [life EXCEPT ![v] = "freed"]
      /\ UNCHANGED <<running_list, ready_queue, queue_lock, pc, proc, victim, cpc>>
  BY <1>1 DEF KillReady, S!KillReady, S!ptrVars, locals, Ready
<1>3. v \in Procs
  BY DEF Victims, RunningVictims, ReadyVictims
<1>4. \A r \in Procs : r # v /\ Ready(r) => Ready(r)'
  BY <1>1, <1>3, SameLists, SchedConstants, SP!ReadyKilled DEF ListInv, KInv, Ready
<1>5. /\ life'[v] = "freed" /\ \A r \in Procs : r # v => life'[r] = life[r]
      /\ HeldByCPUs' = HeldByCPUs
      /\ \A r : Running(r)' <=> Running(r)
      /\ \A r : Finished(r)' <=> Finished(r)
  BY <1>2, <1>3, PlaceFacts DEF ListInv, HeldByCPUs, Running, Finished
<1>6. \A e \in CPUs : cpc[e] \notin Storing
  BY <1>2 DEF ListInv, Lists, Mutex, Killing, Storing
<1>7. RunningOnce' /\ Mutex' /\ Freeing'
  BY <1>2, <1>5 DEF ListInv, Lists, RunningOnce, Mutex, Freeing
<1>8. Victim'
  BY <1>2, <1>6 DEF Victim
<1>9. Room => NoProcessLost'
  BY <1>4, <1>5 DEF ListInv, RoomInv, NoProcessLost, Ready
<1>10. Room => Listed'
  <2>1. \A q : BeingKilled(q) => BeingKilled(q)'
    BY <1>2 DEF BeingKilled
  <2> QED BY <1>2, <1>5, <2>1 DEF ListInv, RoomInv, Listed
<1> QED BY <1>7, <1>8, <1>9, <1>10 DEF Lists, RoomInv

-------------------------------------------------------------------------------
(* The loader touches one process, which is nobody's yet.                  *)
LEMMA LoaderLists ==
    ASSUME ListInv, LoaderStep PROVE Lists' /\ RoomInv'
<1>1. UNCHANGED <<cpc, proc, victim>>
  BY DEF LoaderStep, LoadProc, TooEarly, LookAgain, Admit, AfterAdd, NextLoad, SetDone,
         LoaderDetach, locals
<1>2. HeldByCPUs' = HeldByCPUs
  BY <1>1 DEF HeldByCPUs
<1>3. \A e \in CPUs : cpc[e] \in {"remove", "remove_lock", "free"} => proc[e] # None
  BY DEF ListInv, KInv, Threads, Holding, Working
<1>4. CASE LoadProc
  <2>1. /\ life[next] = "unloaded" /\ life' = [life EXCEPT ![next] = "loaded"]
        /\ pc' = [pc EXCEPT ![next] = 0] /\ next \in Procs
        /\ UNCHANGED <<running_list, mlq_ready_queue, ready_queue, queue_lock>>
    BY <1>4 DEF LoadProc, LoaderGoto, S!Load, S!queueVars, ListInv, KInv, Threads, Loading
  <2>2. /\ \A r \in Procs : r # next => life'[r] = life[r] /\ (Finished(r)' <=> Finished(r))
        /\ life'[next] = "loaded"
        /\ \A r : Running(r)' <=> Running(r)
        /\ \A r : Ready(r)' <=> Ready(r)
    BY <2>1, PlaceFacts DEF ListInv, Running, Ready, Finished
  <2>3. \A e \in CPUs : proc[e] # None => proc[e] \in Procs /\ proc[e] # next
    BY <2>1, PlaceFacts DEF ListInv
  <2>4. RunningOnce' /\ Mutex'
    BY <1>1, <1>2, <2>1, <2>2 DEF ListInv, Lists, RunningOnce, Mutex, Running
  <2>5. Freeing'
    BY <1>1, <1>3, <2>1, <2>2, <2>3 DEF ListInv, Lists, Freeing
  <2>6. Victim'
    <3>1. \A d \in CPUs : cpc[d] \in Storing => victim[d] \in Procs
      BY DEF ListInv, KInv, Threads, Holding, Storing
    <3> QED BY <1>1, <2>1, <2>2, <3>1 DEF ListInv, Lists, Victim
  <2>7. Room => NoProcessLost'
    BY <1>2, <2>2 DEF ListInv, RoomInv, NoProcessLost, Ready
  <2>8. Room => Listed'
    <3>1. \A q : BeingKilled(q) => BeingKilled(q)'
      BY <1>1 DEF BeingKilled
    <3> QED BY <1>1, <2>1, <2>2, <3>1 DEF ListInv, RoomInv, Listed
  <2> QED BY <2>4, <2>5, <2>6, <2>7, <2>8 DEF Lists, RoomInv
<1>5. CASE Admit
  <2>1. /\ life[next] = "loaded" /\ life' = [life EXCEPT ![next] = "admitted"]
        /\ ready_queue' = [ready_queue EXCEPT ![next] = "set"] /\ next \in Procs
        /\ mlq_ready_queue' = [mlq_ready_queue EXCEPT ![Prio[next]] = S!enqueue(@, next)]
        /\ queue_lock = "free" /\ UNCHANGED <<running_list, queue_lock, pc>>
    BY <1>5 DEF Admit, LoaderGoto, S!AddProc, ListInv, KInv, Threads, Loading
  <2>2. /\ \A r \in Procs : r # next => life'[r] = life[r]
                                        /\ ready_queue'[r] = ready_queue[r]
        /\ life'[next] = "admitted"
        /\ \A r : Running(r)' <=> Running(r)
        /\ \A r : Finished(r)' <=> Finished(r)
    BY <2>1, PlaceFacts DEF ListInv, Running, Finished
  <2>3. \A e \in CPUs : proc[e] # None => proc[e] \in Procs /\ proc[e] # next
    BY <2>1, PlaceFacts DEF ListInv
  <2>4. /\ ~Ready(next) /\ \A r \in Procs : Ready(r) => Ready(r)'
        /\ \A r \in Procs : r = next /\ Len(mlq_ready_queue[Prio[next]]) < MaxQueueSize
                               => Ready(r)'
    <3>1. mlq_ready_queue' = [mlq_ready_queue EXCEPT ![Prio[next]] = SP!enqueue(@, next)]
      BY <2>1, SameLists
    <3>2. ~Ready(next)
      BY <2>1, PlaceFacts DEF ListInv
    <3> QED BY <2>1, <3>1, <3>2, SameLists, SchedConstants, SP!Entered DEF ListInv, KInv, Ready
  <2>5. \A e \in CPUs : cpc[e] \notin Killing
    BY <2>1, LockFree
  <2>6. RunningOnce' /\ Mutex'
    BY <1>1, <1>2, <2>1, <2>2 DEF ListInv, Lists, RunningOnce, Mutex, Running
  <2>7. Freeing'
    BY <1>1, <1>3, <2>1, <2>2, <2>3 DEF ListInv, Lists, Freeing
  <2>8. Victim'
    BY <1>1, <2>5 DEF Victim, Storing, Killing
  <2>9. Room => NoProcessLost'
    <3>1. Room => \A r \in Procs : r = next => Ready(r)'
      BY <2>1, <2>4, HasRoom, PlaceFacts DEF ListInv, Ready
    <3> QED BY <1>2, <2>2, <2>4, <3>1 DEF ListInv, RoomInv, NoProcessLost, Ready
  <2>10. Room => Listed'
    <3>1. \A q : BeingKilled(q) => BeingKilled(q)'
      BY <1>1 DEF BeingKilled
    <3> QED BY <1>1, <2>2, <2>3, <3>1 DEF ListInv, RoomInv, Listed
  <2> QED BY <2>6, <2>7, <2>8, <2>9, <2>10 DEF Lists, RoomInv
<1>6. CASE TooEarly \/ LookAgain \/ AfterAdd \/ NextLoad \/ SetDone \/ LoaderDetach
  <2>1. UNCHANGED <<running_list, mlq_ready_queue, ready_queue, life, queue_lock, pc>>
    BY <1>6 DEF TooEarly, LookAgain, AfterAdd, NextLoad, SetDone, LoaderDetach, sched
  <2> QED BY <1>1, <2>1 DEF ListInv, Lists, RoomInv, RunningOnce, Mutex, Freeing, Victim,
             NoProcessLost, Listed, BeingKilled, Running, Finished, HeldByCPUs
<1> QED BY <1>4, <1>5, <1>6 DEF LoaderStep

(* The clock, and steps of nobody.                                         *)
LEMMA ClockLists ==
    ASSUME ListInv, ClockStep \/ UNCHANGED vars PROVE Lists' /\ RoomInv'
<1>1. UNCHANGED <<running_list, mlq_ready_queue, ready_queue, life, queue_lock, pc,
                  cpc, proc, victim>>
  BY DEF ClockStep, vars, sched, locals
<1> QED BY <1>1 DEF ListInv, Lists, RoomInv, RunningOnce, Mutex, Freeing, Victim,
           NoProcessLost, Listed, BeingKilled, Running, Finished, HeldByCPUs

(* Every step, by the lemma for its action.                                *)
LEMMA ListInvNext == ListInv /\ [Next]_vars => ListInv'
<1> SUFFICES ASSUME ListInv, [Next]_vars PROVE ListInv'
  OBVIOUS
<1>1. KInv'
  BY KInvNext DEF ListInv
<1>2. ASSUME NEW c \in CPUs, CPUStep(c) PROVE Lists' /\ RoomInv'
  BY <1>1, <1>2, PrivateLists, GetLists, RemoveLockedLists, FreeLists, PutUnlockedLists,
     PutLockedLists, PcWriteLists, KillLockLists, KillUnlockLists, KillUnlinkLists,
     KillPcLists, KillMarkLists, KillReadyLists DEF CPUStep
<1>3. Lists' /\ RoomInv'
  BY <1>2, LoaderLists, ClockLists DEF Next, AllStopped
<1> QED BY <1>1, <1>3 DEF ListInv

LEMMA ListInvInit == Init => ListInv
<1> SUFFICES ASSUME Init PROVE ListInv
  OBVIOUS
<1>1. KInv
  BY KInvInit
<1>2. /\ running_list = << >> /\ \A c \in CPUs : cpc[c] = "loop" /\ proc[c] = None
      /\ \A p \in Procs : life[p] = "unloaded"
  BY DEF Init, S!SchedInit
<1>3. RunningOnce
  BY <1>2 DEF RunningOnce, SP!Distinct, Running, S!Holds
<1>4. Mutex /\ Freeing /\ Victim
  BY <1>2 DEF Mutex, Freeing, Victim, Killing, Storing
<1>5. NoProcessLost /\ Listed
  BY <1>2 DEF NoProcessLost, Listed
<1> QED BY <1>1, <1>3, <1>4, <1>5 DEF ListInv, Lists, RoomInv

LEMMA ListInvAlways == SafeSpec => []ListInv
  BY ListInvInit, ListInvNext, PTL DEF SafeSpec

-------------------------------------------------------------------------------
(* Killall never writes to a pcb its CPU has freed: the CPU would have had *)
(* to take the lock first.  This needs no room in the queues.              *)
THEOREM VictimIsAlive == SafeSpec => []VictimAlive
<1>1. ListInv => VictimAlive
  BY DEF ListInv, Lists, Victim, VictimAlive, Storing
<1> QED BY <1>1, ListInvAlways, PTL

(* With room for every process, add_proc, get_proc, put_proc, remove_pcb   *)
(* and killall together lose none.                                         *)
THEOREM NobodyIsLost == ASSUME Room PROVE SafeSpec => []NoProcessLost
<1>1. ListInv => NoProcessLost
  BY DEF ListInv, RoomInv
<1> QED BY <1>1, ListInvAlways, PTL

(* The only way from the search of killall to its end.                     *)
LEMMA OnlyUnlock ==
    ASSUME ListInv, [Next]_vars, NEW c \in CPUs, cpc[c] = "kill_scan", cpc'[c] = "ran"
    PROVE  Victims(ins[c].a1) = {}
<1>1. ASSUME NEW e \in CPUs, e # c, CPUStep(e) PROVE cpc'[c] = cpc[c]
  <2>1. cpc' = cpc \/ \E y : cpc' = [cpc EXCEPT ![e] = y]
    BY <1>1 DEF CPUStep, NewSlot, IdleGet, IdleStop, IdleWait, EndSlot, Check, RemovePcb,
       RemoveLocked, Free, PutUnlocked, PutLocked, Get, GetOrNone, RecheckStop,
       RecheckWait, RecheckRun, Detach, RunCheck, Fetch, PcRead, PcWrite, Ran, KillLock,
       KillUnlink, KillPc, KillMark, KillReady, KillUnlock, Goto, Local
  <2> QED BY <1>1, <2>1, PlaceFacts DEF ListInv
<1>2. CASE CPUStep(c)
  <2>1. KillUnlink(c) \/ KillReady(c) \/ KillUnlock(c)
    BY <1>2 DEF CPUStep, NewSlot, IdleGet, IdleStop, IdleWait, EndSlot, Check, RemovePcb,
       RemoveLocked, Free, PutUnlocked, PutLocked, Get, RecheckStop, RecheckWait,
       RecheckRun, Detach, RunCheck, Fetch, PcRead, PcWrite, Ran, KillLock, KillPc,
       KillMark, Goto
  <2>2. KillUnlink(c) => cpc'[c] = "kill_pc"
    BY PlaceFacts DEF ListInv, KillUnlink, Goto
  <2> QED BY <2>1, <2>2 DEF KillReady, KillUnlock
<1>3. CASE LoaderStep \/ ClockStep \/ UNCHANGED vars
  BY <1>3 DEF LoaderStep, LoadProc, TooEarly, LookAgain, Admit, AfterAdd, NextLoad, SetDone,
     LoaderDetach, ClockStep, vars
<1> QED BY <1>1, <1>2, <1>3 DEF Next, AllStopped

(* A name that load had room for is the name killall compares with.        *)
LEMMA WholeName ==
    ASSUME NEW p \in Procs, Len(FileName[p]) <= NameRoom
    PROVE  Path(p) = FileName[p]
<1>1. FileName[p] \in Seq(Letters) /\ NameRoom \in Nat
  BY KernelAssumption
<1>2. S!Least(Len(FileName[p]), NameRoom) = Len(FileName[p])
  BY <1>1 DEF S!Least
<1>3. SubSeq(FileName[p], 1, Len(FileName[p])) = FileName[p]
  BY <1>1
<1> QED BY <1>2, <1>3 DEF Path

(* Killall, which finds its victims in one list after the other while the  *)
(* CPUs run, misses none: whoever is in no list when it has the lock is on *)
(* its way out, was marked, or lost the mark of an earlier killall.        *)
THEOREM KillallMissesNone == ASSUME Room PROVE SafeSpec => KillMissesNone
<1> DEFINE Missed(c, p) == /\ life[p] = "admitted"
                           /\ FileName[p] = ins[c].a1 /\ Len(FileName[p]) <= NameRoom
                           /\ ~(\/ ready_queue[p] = "NULL" \/ Finished(p)
                                \/ Unlisted(p) /\ BeingPut(p))
<1>1. ASSUME ListInv, [Next]_vars, NEW c \in CPUs, cpc[c] = "kill_scan", cpc'[c] = "ran",
             NEW p \in Procs, Missed(c, p)
      PROVE  FALSE
  <2>1. Matches(p, ins[c].a1)
    BY <1>1, WholeName DEF Matches
  <2>2. ~Running(p) /\ ~Ready(p)
    BY <1>1, <2>1, OnlyUnlock
       DEF Victims, RunningVictims, ReadyVictims, Running, Ready
  <2>3. PICK e \in CPUs : proc[e] = p /\ p # None
    BY <1>1, <2>2, SchedConstants DEF ListInv, RoomInv, NoProcessLost, HeldByCPUs, Ready
  <2>4. ~BeingKilled(p)
    BY <1>1 DEF BeingKilled, ListInv, Lists, Mutex, Storing, Killing
  <2>5. CASE cpc[e] \in Listing
    BY <1>1, <2>2, <2>3, <2>4, <2>5 DEF ListInv, RoomInv, Listed
  <2>6. CASE cpc[e] = "free"
    BY <1>1, <2>3, <2>6 DEF ListInv, Lists, Freeing
  <2>7. CASE cpc[e] = "put_lock"
    BY <1>1, <2>2, <2>3, <2>7 DEF Unlisted, BeingPut, Running, Ready
  <2>8. CASE cpc[e] \in {"idle", "get", "detach", "exit"}
    BY <1>1, <2>3, <2>8 DEF ListInv, KInv, Threads, Holding, Lists, Freeing
  <2>9. cpc[e] \in CpuPcs
    BY <1>1, PlaceFacts DEF ListInv
  <2> QED BY <2>5, <2>6, <2>7, <2>8, <2>9 DEF CpuPcs, Listing
<1> DEFINE Step == \A c \in CPUs : cpc[c] = "kill_scan" /\ cpc'[c] = "ran" =>
                      \A p \in Procs : ~Missed(c, p)
<1>2. ListInv /\ [Next]_vars => Step
  BY <1>1
<1>3. ListInv /\ [Next]_vars =>
        [\A c \in CPUs : cpc[c] = "kill_scan" /\ cpc'[c] = "ran" =>
            \A p \in Procs : /\ life[p] = "admitted"
                             /\ FileName[p] = ins[c].a1 /\ Len(FileName[p]) <= NameRoom
               => \/ ready_queue[p] = "NULL" \/ Finished(p)
                  \/ Unlisted(p) /\ BeingPut(p)]_vars
  BY <1>2
<1> QED BY <1>3, ListInvAlways, PTL DEF SafeSpec, KillMissesNone

-------------------------------------------------------------------------------
(* A CPU fetches instructions of the workload.                             *)
LEMMA FetchedNext == ListInv /\ Fetched /\ [Next]_vars => Fetched'
<1> SUFFICES ASSUME ListInv, Fetched, [Next]_vars PROVE Fetched'
  OBVIOUS
<1>1. ASSUME NEW c \in CPUs, Fetch(c) PROVE Fetched'
  <2> DEFINE p == proc[c]
  <2>1. /\ cpc[c] = "fetch" /\ cpc' = [cpc EXCEPT ![c] = "pc_read"]
        /\ ins' = [ins EXCEPT ![c] = IF Finished(p) THEN Calc ELSE Code[p][pc[p] + 1]]
    BY <1>1 DEF Fetch, Goto, Local
  <2>2. p \in Procs
    BY <2>1, PlaceFacts DEF ListInv, KInv, Threads, Holding, Working
  <2>3. ~Finished(p) => Code[p][pc[p] + 1] \in Instructions
    <3>1. pc[p] \in Nat /\ Len(Code[p]) \in Nat /\ Size[p] = Len(Code[p])
      BY <2>2, PlaceFacts, KernelAssumption DEF ListInv, Size
    <3>2. ~Finished(p) => pc[p] + 1 \in 1..Len(Code[p])
      BY <3>1 DEF Finished
    <3> QED BY <2>2, <3>2 DEF Instructions
  <2> DEFINE fetched == IF Finished(p) THEN Calc ELSE Code[p][pc[p] + 1]
  <2>4. fetched \in Instructions \cup {Calc} /\ ins' = [ins EXCEPT ![c] = fetched]
    BY <2>1, <2>3
  <2> HIDE DEF fetched
  <2> QED BY <2>1, <2>4, PlaceFacts DEF Fetched, ListInv
<1>2. ASSUME NEW c \in CPUs, CPUStep(c), ~Fetch(c) PROVE Fetched'
  <2>1. /\ ins' = ins
        /\ \/ cpc' = cpc
           \/ \E y : /\ cpc' = [cpc EXCEPT ![c] = y]
                     /\ y \in {"pc_read", "pc_write"} => cpc[c] = "pc_read"
    <3>1. CASE Check(c) \/ RemovePcb(c) \/ RunCheck(c) \/ PcWrite(c)
      <4>1. ins' = ins /\ \E y \in CpuPcs \ {"pc_read", "pc_write"} :
                            cpc' = [cpc EXCEPT ![c] = y]
        BY <3>1 DEF Check, RemovePcb, RunCheck, PcWrite, Goto, locals, CpuPcs
      <4> QED BY <4>1
    <3>2. CASE IdleGet(c) \/ Get(c)
      <4>1. ins' = ins /\ \E y \in {"idle", "recheck"} : cpc' = [cpc EXCEPT ![c] = y]
        BY <3>2 DEF IdleGet, Get, GetOrNone, Local
      <4> QED BY <4>1
    <3>3. CASE ~(\/ Check(c) \/ RemovePcb(c) \/ RunCheck(c) \/ PcWrite(c)
                 \/ IdleGet(c) \/ Get(c))
      BY <1>2, <3>3 DEF CPUStep, NewSlot, IdleStop, IdleWait, EndSlot, RemoveLocked, Free,
         PutUnlocked, PutLocked, RecheckStop, RecheckWait, RecheckRun, Detach, PcRead, Ran,
         KillLock, KillUnlink, KillPc, KillMark, KillReady, KillUnlock, Goto, Local, locals
    <3> QED BY <3>1, <3>2, <3>3
  <2> QED BY <2>1, PlaceFacts DEF Fetched, ListInv
<1>3. CASE LoaderStep \/ ClockStep \/ UNCHANGED vars
  BY <1>3 DEF LoaderStep, LoadProc, TooEarly, LookAgain, Admit, AfterAdd, NextLoad, SetDone,
     LoaderDetach, ClockStep, vars, locals, Fetched
<1> QED BY <1>1, <1>2, <1>3 DEF Next, AllStopped

LEMMA FetchedAlways == SafeSpec => []Fetched
<1>1. Init => Fetched
  BY DEF Init, Fetched
<1> QED BY <1>1, FetchedNext, ListInvAlways, PTL DEF SafeSpec

-------------------------------------------------------------------------------
(* Without killall in the workload.                                        *)
LEMMA CalmInit == Init => Unmarked
<1> SUFFICES ASSUME Init PROVE Unmarked
  OBVIOUS
<1>1. /\ running_list = << >> /\ \A c \in CPUs : cpc[c] = "loop"
      /\ \A p \in Procs : life[p] = "unloaded"
  BY DEF Init, S!SchedInit
<1> QED BY <1>1 DEF Unmarked, Killing, Running, S!Holds

(* A step of c that leaves the list of running processes alone.            *)
LEMMA CalmQuiet ==
    ASSUME ListInv, Unmarked, NEW c \in CPUs, NEW y, cpc' = [cpc EXCEPT ![c] = y],
           UNCHANGED <<running_list, ready_queue, life, proc>>,
           y \notin Killing \cup {"kill_lock", "put_lock"}
    PROVE  Unmarked'
<1>1. /\ HeldByCPUs' = HeldByCPUs /\ \A r : Running(r)' <=> Running(r)
      /\ cpc'[c] = y /\ \A e \in CPUs : e # c => cpc'[e] = cpc[e]
  BY PlaceFacts DEF ListInv, HeldByCPUs, Running
<1> QED BY <1>1 DEF Unmarked

LEMMA CalmPrivate ==
    ASSUME ListInv, Unmarked, NEW c \in CPUs,
           \/ NewSlot(c) \/ IdleStop(c) \/ IdleWait(c) \/ Check(c) \/ RemovePcb(c)
           \/ RecheckStop(c) \/ RecheckWait(c) \/ RecheckRun(c) \/ Detach(c)
           \/ RunCheck(c) \/ Fetch(c) \/ PcRead(c) \/ Ran(c)
    PROVE  Unmarked'
<1>1. UNCHANGED <<running_list, ready_queue, life, proc>>
  BY DEF NewSlot, IdleStop, IdleWait, Check, RemovePcb, RecheckStop, RecheckWait,
         RecheckRun, Detach, RunCheck, Fetch, PcRead, Ran, locals, sched
<1>2. \E y : /\ cpc' = [cpc EXCEPT ![c] = y]
             /\ y \notin Killing \cup {"kill_lock", "put_lock"}
  BY DEF NewSlot, IdleStop, IdleWait, EndSlot, Check, RemovePcb, RecheckStop, RecheckWait,
         RecheckRun, Detach, RunCheck, Fetch, PcRead, Ran, Goto, Killing
<1> QED BY <1>1, <1>2, CalmQuiet

LEMMA CalmGet ==
    ASSUME ListInv, Unmarked, NEW c \in CPUs, IdleGet(c) \/ Get(c) PROVE Unmarked'
<1>1. proc[c] = None /\ (GetOrNone(c, "idle") \/ GetOrNone(c, "recheck"))
  BY DEF IdleGet, Get, ListInv, KInv, Threads, Holding
<1>2. ASSUME NEW y \in {"idle", "recheck"}, UNCHANGED proc, S!GetNothing,
             cpc' = Local(cpc, c, y)
      PROVE  Unmarked'
  BY <1>2, CalmQuiet DEF S!GetNothing, S!queueVars, S!ptrVars, Local, Killing
<1>3. ASSUME NEW p \in Procs, proc' = Local(proc, c, p), S!GetProc(p),
             cpc' = Local(cpc, c, "recheck")
      PROVE  Unmarked'
  <2>1. UNCHANGED <<ready_queue, life>> /\ SP!GetProc(p)
    BY <1>3, SameScheduler DEF S!GetProc
  <2>2. p \notin HeldByCPUs /\ life[p] = "admitted" /\ p # None
    BY <2>1, SchedConstants, SP!GotFacts DEF ListInv, KInv
  <2>3. SP!Distinct(running_list) /\ ~Running(p)
    BY <2>2 DEF ListInv, Lists, RunningOnce
  <2>4. /\ \A r \in Procs : Running(r)' => Running(r) \/ r = p
        /\ \A r \in Procs : Running(r) => Running(r)'
    BY <2>1, <2>3, SameLists, SchedConstants, SP!Dispatched DEF ListInv, KInv, Running
  <2>5. /\ cpc'[c] = "recheck" /\ proc'[c] = p
        /\ \A e \in CPUs : e # c => cpc'[e] = cpc[e] /\ proc'[e] = proc[e]
        /\ HeldByCPUs' = HeldByCPUs \cup {p}
    BY <1>1, <1>3, <2>2, PlaceFacts DEF ListInv, Local, HeldByCPUs
  <2>6. \A e \in CPUs : cpc[e] = "put_lock" => proc[e] \in Procs
    BY PlaceFacts DEF ListInv, KInv, Threads, Holding, Working
  <2> QED BY <2>1, <2>4, <2>5, <2>6 DEF Unmarked, Killing
<1> QED BY <1>1, <1>2, <1>3 DEF GetOrNone

(* The CPU takes its process off the list, puts it back or frees it.       *)
LEMMA CalmOwn ==
    ASSUME ListInv, Unmarked, NEW c \in CPUs,
           RemoveLocked(c) \/ Free(c) \/ PutUnlocked(c) \/ PutLocked(c)
    PROVE  Unmarked'
<1> DEFINE p == proc[c]
<1>1. cpc[c] \in {"remove_lock", "free", "put", "put_lock"}
  BY DEF RemoveLocked, Free, PutUnlocked, PutLocked, Goto
<1>2. p # None /\ p \in Procs /\ p \in HeldByCPUs /\ life[p] = "admitted"
  BY <1>1, PlaceFacts DEF ListInv, KInv, Threads, Holding, Working
<1>3. \A e \in CPUs : /\ cpc[e] = "put_lock" => proc[e] \in Procs
                      /\ proc[e] # None /\ e # c => proc[e] # p
  BY <1>2, PlaceFacts DEF ListInv, KInv, Threads, Holding, Working, OneCPU
<1>4. CASE RemoveLocked(c)
  <2>1. /\ cpc' = [cpc EXCEPT ![c] = "free"]
        /\ running_list' = S!remove_proc(running_list, p)
        /\ UNCHANGED <<ready_queue, life, proc>>
    BY <1>4 DEF RemoveLocked, Goto, locals, S!RemoveFromRunning, S!ptrVars
  <2>2. \A r \in Procs : Running(r)' <=> Running(r) /\ r # p
    BY <1>2, <2>1, Unlinked
  <2>3. /\ cpc'[c] = "free" /\ \A e \in CPUs : e # c => cpc'[e] = cpc[e]
        /\ HeldByCPUs' = HeldByCPUs
    BY <2>1, PlaceFacts DEF ListInv, HeldByCPUs
  <2>4. \A e \in CPUs : cpc[e] = "put_lock" => proc[e] # None
    BY DEF ListInv, KInv, Threads, Holding, Working
  <2> QED BY <1>3, <2>1, <2>2, <2>3, <2>4 DEF Unmarked, Killing
<1>5. CASE Free(c)
  <2>1. /\ cpc[c] = "free" /\ cpc' = [cpc EXCEPT ![c] = "get"]
        /\ proc' = [proc EXCEPT ![c] = None]
        /\ life' = [life EXCEPT ![p] = "freed"]
        /\ UNCHANGED <<running_list, ready_queue>>
    BY <1>5 DEF Free, Goto, Local, S!FreePcb, S!queueVars, S!ptrVars
  <2>2. /\ cpc'[c] = "get"
        /\ \A e \in CPUs : e # c => cpc'[e] = cpc[e] /\ proc'[e] = proc[e]
        /\ life'[p] = "freed" /\ \A r \in Procs : r # p => life'[r] = life[r]
        /\ \A r : Running(r)' <=> Running(r)
    BY <1>2, <2>1, PlaceFacts DEF ListInv, Running
  <2>3. HeldByCPUs' = HeldByCPUs \ {p}
    BY <1>2, <2>1, <2>2 DEF ListInv, KInv, Threads, Locals, OneCPU, HeldByCPUs
  <2>4. ~Running(p)
    BY <1>2, <2>1 DEF Unmarked, ListInv, Lists, Freeing
  <2> QED BY <2>1, <2>2, <2>3, <2>4 DEF Unmarked, Killing
<1>6. CASE PutUnlocked(c)
  <2>1. /\ cpc[c] = "put" /\ cpc' = [cpc EXCEPT ![c] = "put_lock"]
        /\ ready_queue' = [ready_queue EXCEPT ![p] = "set"]
        /\ UNCHANGED <<running_list, life, proc>>
    BY <1>6 DEF PutUnlocked, Goto, locals, S!PutPointers, S!queueVars
  <2>2. /\ cpc'[c] = "put_lock" /\ \A e \in CPUs : e # c => cpc'[e] = cpc[e]
        /\ \A r \in Procs : ready_queue[r] = "set" => ready_queue'[r] = "set"
        /\ HeldByCPUs' = HeldByCPUs
        /\ \A r : Running(r)' <=> Running(r)
    BY <1>2, <2>1, PlaceFacts DEF ListInv, HeldByCPUs, Running
  <2>3. ready_queue[p] # "NULL" /\ ~BeingKilled(p)
    BY <1>2 DEF Unmarked, BeingKilled, Killing, Storing
  <2>4. Room => Running(p)
    BY <1>2, <2>1, <2>3 DEF ListInv, RoomInv, Listed, Listing
  <2> QED BY <2>1, <2>2, <2>4 DEF Unmarked, Killing
<1>7. CASE PutLocked(c)
  <2>1. /\ cpc[c] = "put_lock" /\ cpc' = [cpc EXCEPT ![c] = "get"]
        /\ proc' = [proc EXCEPT ![c] = None]
        /\ running_list' = S!remove_proc(running_list, p)
        /\ UNCHANGED <<ready_queue, life>>
    BY <1>7 DEF PutLocked, Goto, Local, S!PutProc
  <2>2. \A r \in Procs : Running(r)' <=> Running(r) /\ r # p
    BY <1>2, <2>1, Unlinked
  <2>3. /\ cpc'[c] = "get"
        /\ \A e \in CPUs : e # c => cpc'[e] = cpc[e] /\ proc'[e] = proc[e]
    BY <2>1, PlaceFacts DEF ListInv
  <2>4. HeldByCPUs' = HeldByCPUs \ {p}
    BY <1>2, <2>1, <2>3 DEF ListInv, KInv, Threads, Locals, OneCPU, HeldByCPUs
  <2>5. \A e \in CPUs : cpc[e] = "put_lock" => proc[e] # None
    BY DEF ListInv, KInv, Threads, Holding, Working
  <2> QED BY <1>3, <2>1, <2>2, <2>3, <2>4, <2>5 DEF Unmarked, Killing
<1> QED BY <1>4, <1>5, <1>6, <1>7

LEMMA CalmLoader ==
    ASSUME ListInv, Unmarked, LoaderStep PROVE Unmarked'
<1>1. UNCHANGED <<cpc, proc, running_list>>
  BY DEF LoaderStep, LoadProc, TooEarly, LookAgain, Admit, AfterAdd, NextLoad, SetDone,
         LoaderDetach, locals, sched, S!Load, S!AddProc, S!queueVars
<1>2. \A r \in Procs : life'[r] = "admitted" => ready_queue'[r] = "set"
  <2>1. CASE LoadProc
    <3>1. life' = [life EXCEPT ![next] = "loaded"] /\ ready_queue' = ready_queue
      BY <2>1 DEF LoadProc, S!Load
    <3> QED BY <3>1, PlaceFacts DEF ListInv, Unmarked
  <2>2. CASE Admit
    <3>1. /\ life' = [life EXCEPT ![next] = "admitted"]
          /\ ready_queue' = [ready_queue EXCEPT ![next] = "set"]
      BY <2>2 DEF Admit, S!AddProc
    <3> QED BY <3>1, PlaceFacts DEF ListInv, Unmarked
  <2>3. CASE TooEarly \/ LookAgain \/ AfterAdd \/ NextLoad \/ SetDone \/ LoaderDetach
    <3>1. UNCHANGED <<life, ready_queue>>
      BY <2>3 DEF TooEarly, LookAgain, AfterAdd, NextLoad, SetDone, LoaderDetach, sched
    <3> QED BY <3>1 DEF Unmarked
  <2> QED BY <2>1, <2>2, <2>3 DEF LoaderStep
<1> QED BY <1>1, <1>2 DEF Unmarked, Running, HeldByCPUs

LEMMA CalmNext ==
    ASSUME NoKillall PROVE ListInv /\ Fetched /\ Unmarked /\ [Next]_vars => Unmarked'
<1> SUFFICES ASSUME ListInv, Fetched, Unmarked, [Next]_vars PROVE Unmarked'
  OBVIOUS
<1>1. ASSUME NEW c \in CPUs, CPUStep(c) PROVE Unmarked'
  <2>1. CASE PcWrite(c)
    <3>1. /\ cpc[c] = "pc_write" /\ UNCHANGED <<running_list, ready_queue, life, proc>>
          /\ cpc' = [cpc EXCEPT ![c] = IF Callee(ins[c]) = "sys_killall"
                                       THEN "kill_lock" ELSE "ran"]
      BY <2>1 DEF PcWrite, Goto, locals, S!WritePc, S!queueVars, S!ptrVars
    <3>2. Callee(ins[c]) # "sys_killall"
      BY <3>1 DEF NoKillall, Fetched
    <3> QED BY <3>1, <3>2, CalmQuiet DEF Killing
  <2>2. CASE \/ KillLock(c) \/ KillUnlink(c) \/ KillPc(c) \/ KillMark(c) \/ KillReady(c)
             \/ KillUnlock(c)
    BY <2>2 DEF Unmarked, Killing, KillLock, KillUnlink, KillPc, KillMark, KillReady,
       KillUnlock, Goto
  <2> QED BY <1>1, <2>1, <2>2, CalmPrivate, CalmGet, CalmOwn DEF CPUStep
<1>2. CASE ClockStep \/ UNCHANGED vars
  <2>1. UNCHANGED <<cpc, proc, running_list, life, ready_queue>>
    BY <1>2 DEF ClockStep, vars, sched, locals
  <2> QED BY <2>1 DEF Unmarked, Running, HeldByCPUs
<1> QED BY <1>1, <1>2, CalmLoader DEF Next, AllStopped

(* While no process calls killall, the list of running processes is the    *)
(* set of processes on CPUs, at every step that does not change both.      *)
THEOREM RunningListIsExact ==
    ASSUME Room, NoKillall PROVE SafeSpec => []RunningListExact
<1>1. ListInv /\ Unmarked => RunningListExact
  <2> SUFFICES ASSUME ListInv, Unmarked PROVE RunningListExact
    OBVIOUS
  <2>1. ASSUME NEW p \in Procs, Running(p) PROVE \E c \in CPUs : proc[c] = p
    BY <2>1 DEF Unmarked, HeldByCPUs
  <2>2. ASSUME NEW c \in CPUs, proc[c] # None, cpc[c] \in Between PROVE Running(proc[c])
    <3>1. proc[c] \in Procs /\ life[proc[c]] = "admitted"
      BY <2>2, PlaceFacts DEF ListInv
    <3>2. ready_queue[proc[c]] # "NULL" /\ ~BeingKilled(proc[c])
      BY <3>1 DEF Unmarked, BeingKilled, Killing, Storing
    <3>3. CASE cpc[c] = "put_lock"
      BY <3>3 DEF Unmarked
    <3>4. CASE cpc[c] \in Listing
      BY <2>2, <3>2, <3>4 DEF ListInv, RoomInv, Listed
    <3> QED BY <2>2, <3>3, <3>4 DEF Between, Listing
  <2> QED BY <2>1, <2>2 DEF RunningListExact, Running
<1> QED BY <1>1, CalmInit, CalmNext, ListInvAlways, FetchedAlways, PTL DEF SafeSpec
==============================================================================
