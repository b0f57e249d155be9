-------------------------------- MODULE Kernel --------------------------------
(***************************************************************************)
(* os.c, cpu.c and __sys_killall: the CPU threads and the loader thread,   *)
(* statement by statement where they touch shared data, on top of the      *)
(* scheduler (Sched) and of the time-slot clock (SlotBarrier).             *)
(*                                                                         *)
(* A C local that points to a process its thread has put back or freed     *)
(* holds None here: the code assigns it again before it reads it.          *)
(***************************************************************************)
EXTENDS Integers, Sequences, FiniteSets, TLC

CONSTANTS CPUs, Loader,      \* the threads
          Calc,              \* every instruction that is not a system call
          NumProcs,          \* num_processes; the pcbs are 1..NumProcs in load order
          Code,              \* Code[p]: Calc, or a system call
          FileName,          \* FileName[p]: the letters of the process file's name
          NameRoom,          \* the letters of it that load keeps
          StartTime,         \* ld_processes.start_time
          Prio, MaxPrio, time_slot, MaxQueueSize, None

Procs == 1..NumProcs
Size == [p \in Procs |-> Len(Code[p])]
Devices == CPUs \cup {Loader}
ClockCap == CHOOSE t \in {StartTime[p] : p \in Procs} :
              \A p \in Procs : StartTime[p] <= t

(* The names that processes pass to killall are read from their memory.    *)
Syscall(nr, name) == [nr |-> nr, a1 |-> name]
Instructions == UNION {{Code[p][i] : i \in 1..Len(Code[p])} : p \in Procs}
Letters == UNION {{FileName[p][i] : i \in 1..Len(FileName[p])} : p \in Procs}

ASSUME KernelAssumption ==
    /\ NumProcs \in Nat \ {0} /\ MaxPrio \in Nat \ {0}
    /\ time_slot \in Nat \ {0} /\ MaxQueueSize \in Nat \ {0} /\ NameRoom \in Nat
    /\ \A p \in Procs : Code[p] \in Seq(Instructions) \ {<< >>}
    /\ \A p \in Procs : FileName[p] \in Seq(Letters)
    /\ Prio \in [Procs -> 0..MaxPrio - 1]
    /\ StartTime \in [Procs -> Nat]
    /\ Loader \notin CPUs /\ None \notin Procs

VARIABLES mlq_ready_queue, running_list, slot, reset_slot, queue_lock, pc,
          quantum, ready_queue, on_running_list, life,     \* see Sched
          phase, clock, stage,                             \* see SlotBarrier
          cpc, proc, time_left,   \* cpu_routine: program counter and locals
          reg,                    \* run: the value of proc->pc being incremented
          ins,                    \* run: the instruction fetched
          victim,                 \* kill_in_queue: the victim being marked
          lpc, next,              \* ld_routine: program counter and i + 1
          done, finished          \* the two flags of os.c

HeldByCPUs == {proc[c] : c \in CPUs} \ {None}

S == INSTANCE Sched WITH held <- HeldByCPUs
B == INSTANCE SlotBarrier

sched   == <<mlq_ready_queue, running_list, slot, reset_slot, queue_lock, pc,
             quantum, ready_queue, on_running_list, life>>
barrier == <<phase, clock, stage>>
locals  == <<proc, time_left, reg, ins, victim>>
loader  == <<lpc, next>>
flags   == <<done, finished>>
vars == <<sched, barrier, cpc, locals, loader, flags>>

CpuPcs == {"loop", "idle", "remove", "remove_lock", "free", "put", "put_lock", "get",
           "recheck", "run", "fetch", "pc_read", "pc_write", "kill_lock", "kill_scan",
           "kill_pc", "kill_mark", "ran", "slot", "detach", "exit"}
LoaderPcs == {"load", "wait", "early", "added", "slot", "finish", "detach", "exit"}

Init == /\ phase = [d \in Devices |-> "working"] /\ clock = 0 /\ stage = "running"
        /\ cpc = [c \in CPUs |-> "loop"]
        /\ proc = [c \in CPUs |-> None]
        /\ time_left = [c \in CPUs |-> 0]
        /\ reg = [c \in CPUs |-> 0]
        /\ ins = [c \in CPUs |-> None]
        /\ victim = [c \in CPUs |-> None]
        /\ lpc = "load" /\ next = 1
        /\ done = 0 /\ finished = 0
        /\ S!SchedInit

Goto(c, from, to) == cpc[c] = from /\ cpc' = [cpc EXCEPT ![c] = to]
Local(v, c, x) == [v EXCEPT ![c] = x]
Finished(p) == pc[p] >= Size[p]

(* The call of next_slot: the thread has arrived, and goes on when the     *)
(* clock has opened the next slot.                                         *)
EndSlot(c, from) == Goto(c, from, "slot") /\ B!Arrive(c)

NewSlot(c) ==
    /\ Goto(c, "slot", "loop") /\ phase[c] = "working"
    /\ UNCHANGED <<sched, barrier, locals, loader, flags>>

(***************************************************************************)
(* cpu_routine: choose what to do, get, put back or remove a process.      *)
(***************************************************************************)
GetOrNone(c, ifNone) ==
    \/ \E p \in Procs : /\ proc' = Local(proc, c, p)
                        /\ S!GetProc(p)
                        /\ cpc' = Local(cpc, c, "recheck")
    \/ /\ UNCHANGED proc
       /\ S!GetNothing
       /\ cpc' = Local(cpc, c, ifNone)

IdleGet(c) ==
    /\ cpc[c] = "loop" /\ proc[c] = None
    /\ GetOrNone(c, "idle")
    /\ UNCHANGED <<barrier, time_left, reg, ins, victim, loader, flags>>

IdleStop(c) ==
    /\ finished = 1
    /\ Goto(c, "idle", "detach")
    /\ UNCHANGED <<sched, barrier, locals, loader, flags>>

IdleWait(c) ==
    /\ finished = 0
    /\ EndSlot(c, "idle")
    /\ UNCHANGED <<sched, locals, loader, flags>>

Check(c) ==
    /\ proc[c] # None
    /\ Goto(c, "loop", IF Finished(proc[c]) THEN "remove"
                       ELSE IF time_left[c] = 0 THEN "put" ELSE "recheck")
    /\ UNCHANGED <<sched, barrier, locals, loader, flags>>

(* remove_pcb: the pointers are read without the lock.  Its other branch,  *)
(* for a pcb whose running_list is NULL, is not taken by a CPU: get_proc   *)
(* has set the pointer, and only the put_proc of this CPU clears it.       *)
(* Mutant: no lock is taken to remove a process that runs.                 *)
RemovePcb_Unlocked(c) ==
    /\ Goto(c, "remove", "free")
    /\ on_running_list[proc[c]] = "set"
    /\ UNCHANGED <<sched, barrier, locals, loader, flags>>

RemovePcb(c) ==
    /\ Goto(c, "remove", IF ready_queue[proc[c]] = "set" THEN "remove_lock" ELSE "free")
    /\ on_running_list[proc[c]] = "set"
    /\ UNCHANGED <<sched, barrier, locals, loader, flags>>

RemoveLocked(c) ==
    /\ Goto(c, "remove_lock", "free")
    /\ UNCHANGED <<barrier, locals, loader, flags>>
    /\ S!RemoveFromRunning(proc[c])

(* Mutant: the CPU goes on with the process it has freed.                  *)
Free_Keeps(c) ==
    /\ Goto(c, "free", "get")
    /\ time_left' = Local(time_left, c, 0)
    /\ UNCHANGED <<barrier, proc, reg, ins, victim, loader, flags>>
    /\ S!FreePcb(proc[c])

Free(c) ==
    /\ Goto(c, "free", "get")
    /\ proc' = Local(proc, c, None)
    /\ time_left' = Local(time_left, c, 0)
    /\ UNCHANGED <<barrier, reg, ins, victim, loader, flags>>
    /\ S!FreePcb(proc[c])

PutUnlocked(c) ==
    /\ Goto(c, "put", "put_lock")
    /\ UNCHANGED <<barrier, locals, loader, flags>>
    /\ S!PutPointers(proc[c])

(* Mutant: the CPU goes on with the process it has put back.               *)
PutLocked_Keeps(c) ==
    /\ Goto(c, "put_lock", "get")
    /\ UNCHANGED <<barrier, locals, loader, flags>>
    /\ S!PutProc(proc[c])

PutLocked(c) ==
    /\ Goto(c, "put_lock", "get")
    /\ proc' = Local(proc, c, None)
    /\ UNCHANGED <<barrier, time_left, reg, ins, victim, loader, flags>>
    /\ S!PutProc(proc[c])

Get(c) ==
    /\ cpc[c] = "get"
    /\ GetOrNone(c, "recheck")
    /\ UNCHANGED <<barrier, time_left, reg, ins, victim, loader, flags>>

(* if (proc == NULL && done) ... else if (proc == NULL) ... else dispatch  *)
RecheckStop(c) ==
    /\ proc[c] = None /\ done = 1
    /\ Goto(c, "recheck", "detach")
    /\ finished' = 1
    /\ UNCHANGED <<sched, barrier, locals, loader, done>>

RecheckWait(c) ==
    /\ proc[c] = None /\ done = 0
    /\ EndSlot(c, "recheck")
    /\ UNCHANGED <<sched, locals, loader, flags>>

(* Mutant: a process that is dispatched gets no new quantum.               *)
RecheckRun_OldQuantum(c) ==
    /\ proc[c] # None
    /\ Goto(c, "recheck", "run")
    /\ UNCHANGED <<sched, barrier, locals, loader, flags>>

RecheckRun(c) ==
    /\ proc[c] # None
    /\ Goto(c, "recheck", "run")
    /\ time_left' = Local(time_left, c,
                          IF time_left[c] = 0 THEN quantum[proc[c]] ELSE time_left[c])
    /\ UNCHANGED <<sched, barrier, proc, reg, ins, victim, loader, flags>>

Detach(c) ==
    /\ Goto(c, "detach", "exit")
    /\ B!Leave(c)
    /\ UNCHANGED <<sched, locals, loader, flags>>

(***************************************************************************)
(* run: the check, the fetch and the two halves of proc->pc++ each read    *)
(* or write the pc that killall may overwrite in between.                  *)
(***************************************************************************)
RunCheck(c) ==
    /\ Goto(c, "run", IF Finished(proc[c]) THEN "ran" ELSE "fetch")
    /\ UNCHANGED <<sched, barrier, locals, loader, flags>>

Fetch(c) ==           \* beyond the code: an unknown opcode, which does nothing
    /\ Goto(c, "fetch", "pc_read")
    /\ ins' = Local(ins, c, IF Finished(proc[c]) THEN Calc ELSE Code[proc[c]][pc[proc[c]] + 1])
    /\ UNCHANGED <<sched, barrier, proc, time_left, reg, victim, loader, flags>>

PcRead(c) ==
    /\ Goto(c, "pc_read", "pc_write")
    /\ reg' = Local(reg, c, pc[proc[c]])
    /\ UNCHANGED <<sched, barrier, proc, time_left, ins, victim, loader, flags>>

(* syscall looks the number up in syscalltbl.lst.  What the others do has  *)
(* no effect on the scheduler (17 is Memory.tla's).                        *)
SyscallTable == 0 :> "sys_listsyscall" @@ 17 :> "sys_memmap"
                  @@ 101 :> "sys_killall" @@ 440 :> "sys_xxxhandler"
Callee(i) == CASE i = Calc -> "none"
               [] i # Calc /\ i.nr \in DOMAIN SyscallTable -> SyscallTable[i.nr]
               [] OTHER -> "sys_ni_syscall"

PcWrite(c) ==
    /\ Goto(c, "pc_write", IF Callee(ins[c]) = "sys_killall" THEN "kill_lock" ELSE "ran")
    /\ UNCHANGED <<barrier, locals, loader, flags>>
    /\ S!WritePc(proc[c], reg[c] + 1)

Ran(c) ==
    /\ EndSlot(c, "ran")
    /\ time_left' = Local(time_left, c, time_left[c] - 1)
    /\ UNCHANGED <<sched, proc, reg, ins, victim, loader, flags>>

(***************************************************************************)
(* __sys_killall, by the process of CPU c: victims in the list of running  *)
(* processes first, then in the ready queues (their order within a list    *)
(* is left open).  A freed pcb left in a list has lost its name.           *)
(***************************************************************************)
(* Mutant: load keeps one letter less.                                     *)
Path_OneShort(p) == SubSeq(FileName[p], 1, S!Least(Len(FileName[p]), NameRoom - 1))
Path(p) == SubSeq(FileName[p], 1, S!Least(Len(FileName[p]), NameRoom))

(* check_name compares with the part of proc->path behind the last slash.  *)
(* A freed pcb that a list still has is taken to have lost its path, and   *)
(* no later load to get its address.                                       *)
Matches(p, name) == life[p] = "admitted" /\ Path(p) = name
RunningVictims(name) == {p \in Procs : Matches(p, name) /\ S!Holds(running_list, p)}
ReadyVictims(name) ==
    {p \in Procs : Matches(p, name) /\ S!Holds(mlq_ready_queue[Prio[p]], p)}
Victims(name) == IF RunningVictims(name) # {} THEN RunningVictims(name)
                                              ELSE ReadyVictims(name)

KillLock(c) ==
    /\ Goto(c, "kill_lock", "kill_scan")
    /\ UNCHANGED <<barrier, locals, loader, flags>>
    /\ S!KillLock

KillUnlink(c) ==
    /\ Goto(c, "kill_scan", "kill_pc")
    /\ UNCHANGED <<barrier, proc, time_left, reg, ins, loader, flags>>
    /\ \E v \in Victims(ins[c].a1) : /\ victim' = Local(victim, c, v)
                                  /\ S!KillUnlink(v)

KillPc(c) ==
    /\ Goto(c, "kill_pc", "kill_mark")
    /\ UNCHANGED <<barrier, locals, loader, flags>>
    /\ S!KillPc(victim[c])

KillMark(c) ==
    /\ Goto(c, "kill_mark", "kill_scan")
    /\ UNCHANGED <<barrier, proc, time_left, reg, ins, loader, flags>>
    /\ S!KillMark(victim[c])
    /\ victim' = Local(victim, c, None)

KillReady(c) ==
    /\ cpc[c] = "kill_scan"
    /\ UNCHANGED <<barrier, cpc, locals, loader, flags>>
    /\ \E v \in Victims(ins[c].a1) : S!KillReady(v)

KillUnlock(c) ==
    /\ Goto(c, "kill_scan", "ran")
    /\ Victims(ins[c].a1) = {}
    /\ UNCHANGED <<barrier, locals, loader, flags>>
    /\ S!KillUnlock

(***************************************************************************)
(* ld_routine.                                                             *)
(***************************************************************************)
LoaderGoto(from, to) == lpc = from /\ lpc' = to

LoadProc == /\ LoaderGoto("load", "wait")
            /\ UNCHANGED <<barrier, cpc, locals, next, flags>>
            /\ S!Load(next)

TooEarly == /\ LoaderGoto("wait", "early")
            /\ clock < StartTime[next]
            /\ B!Arrive(Loader)
            /\ UNCHANGED <<sched, cpc, locals, next, flags>>

LookAgain == /\ phase[Loader] = "working"
             /\ LoaderGoto("early", "wait")
             /\ UNCHANGED <<sched, barrier, cpc, locals, next, flags>>

Admit == /\ LoaderGoto("wait", "added")
         /\ clock >= StartTime[next]
         /\ UNCHANGED <<barrier, cpc, locals, flags>>
         /\ S!AddProc(next)
         /\ next' = next + 1

AfterAdd == /\ LoaderGoto("added", "slot")
            /\ B!Arrive(Loader)
            /\ UNCHANGED <<sched, cpc, locals, next, flags>>

(* Mutant: the last process is not loaded.                                 *)
NextLoad_OneShort == /\ phase[Loader] = "working"
                     /\ LoaderGoto("slot", IF next < NumProcs THEN "load" ELSE "finish")
                     /\ UNCHANGED <<sched, barrier, cpc, locals, next, flags>>

NextLoad == /\ phase[Loader] = "working"
            /\ LoaderGoto("slot", IF next <= NumProcs THEN "load" ELSE "finish")
            /\ UNCHANGED <<sched, barrier, cpc, locals, next, flags>>

(* Mutant: the loader ends without telling the CPUs.                       *)
SetDone_Forgotten == /\ LoaderGoto("finish", "detach")
                     /\ UNCHANGED <<sched, barrier, cpc, locals, next, flags>>

SetDone == /\ LoaderGoto("finish", "detach")
           /\ done' = 1
           /\ UNCHANGED <<sched, barrier, cpc, locals, next, finished>>

LoaderDetach == /\ LoaderGoto("detach", "exit")
                /\ B!Leave(Loader)
                /\ UNCHANGED <<sched, cpc, locals, next, flags>>

-------------------------------------------------------------------------------
CPUStep(c) ==
    \/ NewSlot(c) \/ IdleGet(c) \/ IdleStop(c) \/ IdleWait(c) \/ Check(c)
    \/ RemovePcb(c) \/ RemoveLocked(c) \/ Free(c) \/ PutUnlocked(c) \/ PutLocked(c)
    \/ Get(c) \/ RecheckStop(c) \/ RecheckWait(c) \/ RecheckRun(c) \/ Detach(c)
    \/ RunCheck(c) \/ Fetch(c) \/ PcRead(c) \/ PcWrite(c) \/ Ran(c)
    \/ KillLock(c) \/ KillUnlink(c) \/ KillPc(c) \/ KillMark(c) \/ KillReady(c)
    \/ KillUnlock(c)

LoaderStep == \/ LoadProc \/ TooEarly \/ LookAgain \/ Admit \/ AfterAdd \/ NextLoad
              \/ SetDone \/ LoaderDetach

ClockStep == (B!Tick \/ B!Close) /\ UNCHANGED <<sched, cpc, locals, loader, flags>>

AllStopped == stage = "over" /\ UNCHANGED vars

Next == LoaderStep \/ ClockStep \/ AllStopped \/ \E c \in CPUs : CPUStep(c)

SafeSpec == Init /\ [][Next]_vars

(* The host schedules every thread; queue_lock is not starved because the  *)
(* other threads reach the end of their slot and stop asking for it.       *)
Fairness == /\ WF_vars(LoaderStep) /\ WF_vars(ClockStep)
            /\ \A c \in CPUs : WF_vars(CPUStep(c))

Spec == SafeSpec /\ Fairness

-------------------------------------------------------------------------------
TypeOK ==
    /\ S!SchedTypeOK
    /\ phase \in [Devices -> B!Phases \ {"absent"}]
    /\ clock \in 0..ClockCap /\ stage \in B!Stages
    /\ cpc \in [CPUs -> CpuPcs]
    /\ proc \in [CPUs -> Procs \cup {None}]
    /\ time_left \in [CPUs -> -1..time_slot]
    /\ reg \in [CPUs -> Nat]
    /\ ins \in [CPUs -> Instructions \cup {Calc, None}]
    /\ victim \in [CPUs -> Procs \cup {None}]
    /\ lpc \in LoaderPcs /\ next \in 1..NumProcs + 1
    /\ done \in {0, 1} /\ finished \in {0, 1}

(* No process runs on two CPUs at once.                                    *)
OneCPU == \A c, e \in CPUs : proc[c] = proc[e] /\ proc[c] # None => c = e

(* The threads use the scheduler as Sched allows any client to: what Sched *)
(* promises under every interleaving (one place per process, slot budgets, *)
(* no idle CPU beside a waiting process) holds for the CPUs and the loader. *)
UsesSchedProperly == S!SchedSpec

(* The list of running processes is the set of processes on CPUs, except   *)
(* around the steps that change both: killall, which finds its running     *)
(* victims there, misses nobody and never meets a freed pcb.               *)
Between == {"remove_lock", "put", "put_lock", "loop", "recheck", "run", "fetch",
            "pc_read", "pc_write", "kill_lock", "ran", "slot", "remove"}
RunningListExact ==
    /\ \A p \in Procs : S!Holds(running_list, p) => \E c \in CPUs : proc[c] = p
    /\ \A c \in CPUs : proc[c] # None /\ cpc[c] \in Between
                         => S!Holds(running_list, proc[c])

(* A process that was admitted and not freed can still be found: on a CPU  *)
(* or in the ready queue of its priority.  include/sched.h promises to     *)
(* "Put a process back to run queue" and to "Add a new process to ready    *)
(* queue".                                                                 *)
NoProcessLost ==
    \A p \in Procs : life[p] = "admitted" =>
        p \in HeldByCPUs \/ S!Holds(mlq_ready_queue[Prio[p]], p)

(* Every CPU, the loader and the clock stop once the work is done.         *)
Terminates == <>(stage = "over")

(* Every process that arrives is run to its end and freed: a level that is *)
(* out of slots, or a low priority, delays it but does not starve it.      *)
EveryProcessEnds == \A p \in Procs : (life[p] = "loaded") ~> (life[p] = "freed")

(* When every thread has stopped, no process was left half-done in a queue *)
(* by CPUs that each believed another one would take it.                   *)
NoWorkLeftBehind == stage = "over" => \A p \in Procs : life[p] = "freed"

(* sched.c:242: "Call from sys_killall.c -> ready queue == NULL -> dont    *)
(* need remove".  A pcb about to be freed without being removed from the   *)
(* list of running processes is not in it.                                 *)
NoNeedToRemove ==
    \A c \in CPUs : cpc[c] = "free" => ~S!Holds(running_list, proc[c])

(* sys_killall.c:100, "Traverse proclist to terminate the proc": once      *)
(* killall has marked a process, nothing of its code is left to run.       *)
KilledStaysKilled ==
    \A p \in Procs : life[p] = "admitted" /\ ready_queue[p] = "NULL" => Finished(p)

(* The stores of killall to its victim come before the victim is freed:    *)
(* remove_pcb reads ready_queue without the lock, but takes the lock before *)
(* it frees a process whose mark killall has yet to set.                   *)
VictimAlive ==
    \A c \in CPUs : cpc[c] \in {"kill_pc", "kill_mark"} /\ ready_queue[victim[c]] = "set"
       => life[victim[c]] = "admitted"

(* killall comes to its end, and with it the queue_lock everyone needs.    *)
KillReturns == \A c \in CPUs : cpc[c] = "kill_lock" ~> cpc[c] = "ran"

(* Whoever is alive and has that file name, if load had room for it, when  *)
(* killall unlocks was marked or has its pc at the end: none slipped       *)
(* through between the list of running processes and the queues (put_proc  *)
(* may have set ready_queue again).  The exception is a process on which   *)
(* an earlier killall was lost (see KilledStaysKilled): that one left it   *)
(* in no list, and it is in none until put_proc has the lock.              *)
Unlisted(p) == ~S!Holds(running_list, p) /\ ~S!Holds(mlq_ready_queue[Prio[p]], p)
BeingPut(p) == \E e \in CPUs : proc[e] = p /\ cpc[e] = "put_lock"
KillMissesNone ==
    [][\A c \in CPUs : cpc[c] = "kill_scan" /\ cpc'[c] = "ran" =>
          \A p \in Procs : /\ life[p] = "admitted"
                           /\ FileName[p] = ins[c].a1 /\ Len(FileName[p]) <= NameRoom
             => \/ ready_queue[p] = "NULL" \/ Finished(p)
                \/ Unlisted(p) /\ BeingPut(p)]_vars
==============================================================================
