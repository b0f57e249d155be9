----------------------------- MODULE KernelProofs -----------------------------
(***************************************************************************)
(* For every number of CPUs and processes, whatever the code of the        *)
(* processes and the timing of killall: the threads use the scheduler as   *)
(* Sched allows, so that what is proved of Sched holds for them, and no    *)
(* process is on two CPUs.                                                 *)
(***************************************************************************)
EXTENDS Kernel, TLAPS

(* What is proved of the scheduler, for the processes the CPUs hold.  The  *)
(* definitions of this instance are those of S.                            *)
SP == INSTANCE SchedProofs WITH held <- HeldByCPUs

LEMMA SameScheduler ==
    /\ S!SchedInit <=> SP!SchedInit
    /\ S!SchedNext <=> SP!SchedNext
    /\ S!schedVars = SP!schedVars
    /\ \A p : S!GetProc(p) <=> SP!GetProc(p)
  BY DEF S!SchedInit, SP!SchedInit, S!SchedNext, SP!SchedNext,
         S!schedVars, SP!schedVars, S!queueVars, SP!queueVars,
         S!slotVars, SP!slotVars, S!ptrVars, SP!ptrVars, S!Prios, SP!Prios,
         S!Pointers, SP!Pointers, S!Lives, SP!Lives,
         S!FullSlots, SP!FullSlots, S!Least, SP!Least,
         S!Garbage, SP!Garbage, S!Load, SP!Load, S!AddProc, SP!AddProc,
         S!Eligible, SP!Eligible, S!Highest, SP!Highest, S!Grant, SP!Grant,
         S!DispatchFrom, SP!DispatchFrom, S!Refill, SP!Refill,
         S!GetProc, SP!GetProc, S!GetNothing, SP!GetNothing,
         S!WritePc, SP!WritePc, S!PutPointers, SP!PutPointers,
         S!PutProc, SP!PutProc, S!RemoveFromRunning, SP!RemoveFromRunning,
         S!FreePcb, SP!FreePcb, S!KillLock, SP!KillLock,
         S!KillUnlock, SP!KillUnlock, S!Listed, SP!Listed,
         S!KillUnlink, SP!KillUnlink, S!KillPc, SP!KillPc,
         S!KillMark, SP!KillMark, S!KillReady, SP!KillReady,
         S!CloseGap, SP!CloseGap, S!enqueue, SP!enqueue,
         S!MaxIndex, SP!MaxIndex, S!Dequeued, SP!Dequeued,
         S!AfterDequeue, SP!AfterDequeue, S!Holds, SP!Holds,
         S!remove_proc, SP!remove_proc

(* The assumptions of Sched and Queue hold for the kernel's constants.     *)
LEMMA SchedConstants ==
    /\ MaxPrio \in Nat \ {0} /\ time_slot \in Nat \ {0}
    /\ Prio \in [Procs -> 0..MaxPrio - 1] /\ Prio \in [Procs -> Nat]
    /\ Size \in [Procs -> Nat \ {0}]
    /\ None \notin Procs
    /\ MaxQueueSize \in Nat \ {0}
<1>1. \A p \in Procs : Len(Code[p]) \in Nat \ {0}
  BY KernelAssumption
<1>2. Size \in [Procs -> Nat \ {0}]
  BY <1>1 DEF Size
<1>3. Prio \in [Procs -> Nat]
  BY KernelAssumption
<1> QED BY <1>2, <1>3, KernelAssumption

-------------------------------------------------------------------------------
(***************************************************************************)
(* The invariant.  A CPU writes back a pc it read while the process was in *)
(* its code; that it puts back only such processes, and gets them with     *)
(* their pc there, is what keeps killall's store from breaking a budget.   *)
(***************************************************************************)
Working == {"remove", "remove_lock", "free", "put", "put_lock", "run", "fetch", "pc_read",
            "pc_write", "kill_lock", "kill_scan", "kill_pc", "kill_mark", "ran"}
Inside == {"put", "put_lock", "recheck", "run", "fetch", "pc_read", "pc_write"}

Locals ==
    /\ cpc \in [CPUs -> CpuPcs] /\ proc \in [CPUs -> Procs \cup {None}]
    /\ reg \in [CPUs -> Nat] /\ victim \in [CPUs -> Procs \cup {None}]
    /\ next \in Nat \ {0}

Holding == \A c \in CPUs :
    /\ cpc[c] \in Working => proc[c] # None
    /\ cpc[c] \in {"idle", "get"} => proc[c] = None
    /\ cpc[c] \in {"kill_pc", "kill_mark"} => victim[c] \in Procs

InCode == \A c \in CPUs :
    /\ cpc[c] \in Inside /\ proc[c] # None => pc[proc[c]] <= Size[proc[c]]
    /\ cpc[c] = "pc_write" => reg[c] <= Size[proc[c]]

Loading == lpc \in {"load", "wait", "early"} => next \in Procs

Threads == Locals /\ Holding /\ InCode /\ Loading /\ OneCPU

KInv == SP!IInv /\ Threads


(* What the invariant of the scheduler says of pc and of who may hold what.*)
LEMMA SchedFacts ==
    ASSUME SP!IInv
    PROVE  /\ pc \in [Procs -> Nat] /\ life \in [Procs -> S!Lives]
           /\ HeldByCPUs \subseteq Procs
           /\ \A p \in HeldByCPUs : life[p] = "admitted"
  BY DEF SP!IInv, SP!SchedTypeOK, SP!Places, SP!Lives, S!Lives

(* The processes held are those of the CPUs.                               *)
LEMMA HeldFacts ==
    ASSUME Threads
    PROVE  \A c \in CPUs : proc[c] # None => proc[c] \in Procs /\ proc[c] \in HeldByCPUs
  BY DEF Threads, Locals, HeldByCPUs

(* Steps of a CPU that touch no shared data.                               *)
LEMMA PrivateStep ==
    ASSUME KInv, NEW c \in CPUs,
           \/ NewSlot(c) \/ IdleStop(c) \/ IdleWait(c) \/ Check(c) \/ RemovePcb(c)
           \/ RecheckStop(c) \/ RecheckWait(c) \/ RecheckRun(c) \/ Detach(c)
           \/ RunCheck(c) \/ Fetch(c) \/ PcRead(c) \/ Ran(c)
    PROVE  Threads' /\ UNCHANGED S!schedVars
<1> USE DEF KInv, Threads
<1>1. UNCHANGED <<sched, proc, victim, lpc, next>>
  BY DEF NewSlot, IdleStop, IdleWait, Check, RemovePcb, RecheckStop, RecheckWait,
         RecheckRun, Detach, RunCheck, Fetch, PcRead, Ran, locals, loader
<1>2. UNCHANGED S!schedVars
  BY <1>1 DEF sched, S!schedVars, HeldByCPUs
<1>3. pc' = pc
  BY <1>1 DEF sched
<1>4. pc \in [Procs -> Nat] /\ Size \in [Procs -> Nat]
  BY SchedFacts, SchedConstants
<1>5. CASE PcRead(c)
  <2>1. /\ cpc[c] = "pc_read" /\ cpc' = [cpc EXCEPT ![c] = "pc_write"]
        /\ reg' = [reg EXCEPT ![c] = pc[proc[c]]]
    BY <1>5 DEF PcRead, Goto, Local
  <2>2. proc[c] # None /\ proc[c] \in Procs /\ pc[proc[c]] <= Size[proc[c]]
    BY <2>1, HeldFacts DEF Holding, InCode, Working, Inside
  <2>3. Locals' /\ Holding' /\ InCode'
    BY <1>1, <1>3, <1>4, <2>1, <2>2
       DEF Locals, Holding, InCode, Working, Inside, CpuPcs
  <2> QED BY <1>1, <1>2, <2>3 DEF Loading, OneCPU
<1>6. CASE Check(c)
  <2>1. /\ cpc[c] = "loop" /\ proc[c] # None
        /\ \E x \in {"remove", "put", "recheck"} :
             /\ cpc' = [cpc EXCEPT ![c] = x]
             /\ x \in Inside => pc[proc[c]] < Size[proc[c]]
        /\ reg' = reg
    <3>1. proc[c] \in Procs
      BY <1>6, HeldFacts DEF Check
    <3> DEFINE to == IF Finished(proc[c]) THEN "remove"
                     ELSE IF time_left[c] = 0 THEN "put" ELSE "recheck"
    <3>2. /\ cpc[c] = "loop" /\ proc[c] # None
          /\ cpc' = [cpc EXCEPT ![c] = to] /\ reg' = reg
      BY <1>6 DEF Check, Goto, locals
    <3>3. to \in {"remove", "put", "recheck"}
      OBVIOUS
    <3>4. to \in Inside => pc[proc[c]] < Size[proc[c]]
      BY <1>4, <3>1 DEF Finished, Inside
    <3> HIDE DEF to
    <3> QED BY <3>2, <3>3, <3>4
  <2>2. proc[c] \in Procs
    BY <2>1, HeldFacts
  <2>3. Locals' /\ Holding' /\ InCode'
    BY <1>1, <1>3, <1>4, <2>1, <2>2
       DEF Locals, Holding, InCode, Working, Inside, CpuPcs
  <2> QED BY <1>1, <1>2, <2>3 DEF Loading, OneCPU
<1>7. CASE ~PcRead(c) /\ ~Check(c)
  <2>1. /\ reg' = reg
        /\ \E x, y \in CpuPcs : /\ cpc[c] = x /\ cpc' = [cpc EXCEPT ![c] = y]
                                /\ y \in Working => proc[c] # None
                                /\ y \notin {"idle", "get", "kill_pc", "kill_mark", "pc_write"}
                                /\ y \in Inside => x \in Inside
    BY <1>7 DEF NewSlot, IdleStop, IdleWait, EndSlot, RemovePcb, RecheckStop, RecheckWait,
       RecheckRun, Detach, RunCheck, Fetch, Ran, Goto, locals, Holding, Working, Inside,
       CpuPcs
  <2>2. Locals' /\ Holding' /\ InCode'
    BY <1>1, <1>3, <1>4, <2>1 DEF Locals, Holding, InCode, Working, Inside, CpuPcs
  <2> QED BY <1>1, <1>2, <2>2 DEF Loading, OneCPU
<1> QED BY <1>2, <1>5, <1>6, <1>7

(* get_proc: the process is nobody's, and in its code.                     *)
LEMMA GetStep ==
    ASSUME KInv, NEW c \in CPUs, IdleGet(c) \/ Get(c)
    PROVE  Threads' /\ S!SchedNext
<1> USE DEF KInv, Threads
<1>1. /\ proc[c] = None /\ UNCHANGED <<reg, victim, lpc, next>>
      /\ GetOrNone(c, "idle") \/ GetOrNone(c, "recheck")
  BY DEF IdleGet, Get, Holding, loader
<1>2. ASSUME NEW p \in Procs, proc' = Local(proc, c, p), S!GetProc(p),
             cpc' = Local(cpc, c, "recheck")
      PROVE  Threads' /\ S!SchedNext
  <2>1. p \notin HeldByCPUs /\ pc[p] <= Size[p]
    BY <1>2, SameScheduler, SchedConstants, SP!GotFacts
  <2>2. None \notin Procs /\ proc' = [proc EXCEPT ![c] = p]
        /\ cpc' = [cpc EXCEPT ![c] = "recheck"] /\ pc' = pc
    BY <1>2, SchedConstants DEF Local, S!GetProc
  <2>3. HeldByCPUs' = HeldByCPUs \cup {p}
    BY <1>1, <2>2 DEF Locals, HeldByCPUs
  <2>4. S!SchedNext
    BY <1>2, <2>3 DEF S!SchedNext
  <2>5. Locals' /\ Holding' /\ InCode' /\ Loading'
    BY <1>1, <2>1, <2>2 DEF Locals, Holding, InCode, Loading, Working, Inside, CpuPcs
  <2>6. OneCPU'
    BY <2>1, <2>2 DEF Locals, OneCPU, HeldByCPUs
  <2> QED BY <2>4, <2>5, <2>6
<1>3. ASSUME NEW y \in {"idle", "recheck"}, UNCHANGED proc, S!GetNothing,
             cpc' = Local(cpc, c, y)
      PROVE  Threads' /\ S!SchedNext
  <2>1. cpc' = [cpc EXCEPT ![c] = y] /\ pc' = pc
    BY <1>3 DEF Local, S!GetNothing
  <2>2. HeldByCPUs' = HeldByCPUs
    BY <1>3 DEF HeldByCPUs
  <2>3. S!SchedNext
    BY <1>3, <2>2 DEF S!SchedNext
  <2>4. Threads'
    BY <1>1, <1>3, <2>1
       DEF Locals, Holding, InCode, Loading, OneCPU, Working, Inside, CpuPcs
  <2> QED BY <2>3, <2>4
<1> QED BY <1>1, <1>2, <1>3 DEF GetOrNone

(* The process goes back, or is freed: its CPU no longer points to it.     *)
LEMMA DropStep ==
    ASSUME KInv, NEW c \in CPUs, Free(c) \/ PutLocked(c)
    PROVE  Threads' /\ S!SchedNext
<1> USE DEF KInv, Threads
<1> DEFINE p == proc[c]
<1>1. /\ proc' = [proc EXCEPT ![c] = None] /\ cpc' = [cpc EXCEPT ![c] = "get"]
      /\ UNCHANGED <<reg, victim, lpc, next>>
  BY DEF Free, PutLocked, Goto, Local, loader
<1>2. cpc[c] \in {"free", "put_lock"} /\ (PutLocked(c) => cpc[c] = "put_lock")
  BY DEF Free, PutLocked, Goto
<1>3. p # None /\ p \in Procs /\ p \in HeldByCPUs
  BY <1>2, HeldFacts DEF Holding, Working
<1>4. S!FreePcb(p) \/ (pc[p] <= Size[p] /\ S!PutProc(p))
  BY <1>2, <1>3 DEF Free, PutLocked, InCode, Inside
<1>5. pc' = pc
  BY <1>4 DEF S!FreePcb, S!PutProc
<1>6. HeldByCPUs' = HeldByCPUs \ {p}
  BY <1>1, <1>3 DEF Locals, OneCPU, HeldByCPUs
<1>7. S!SchedNext
  BY <1>3, <1>4, <1>6 DEF S!SchedNext
<1> HIDE DEF p
<1>8. Locals' /\ Holding' /\ InCode' /\ Loading'
  BY <1>1, <1>5 DEF Locals, Holding, InCode, Loading, Working, Inside, CpuPcs
<1>9. OneCPU'
  BY <1>1 DEF Locals, OneCPU
<1> QED BY <1>7, <1>8, <1>9

(* What a CPU does to the process it holds.                                *)
LEMMA OwnStep ==
    ASSUME KInv, NEW c \in CPUs, RemoveLocked(c) \/ PutUnlocked(c) \/ PcWrite(c)
    PROVE  Threads' /\ S!SchedNext
<1> USE DEF KInv, Threads
<1> DEFINE p == proc[c]
<1>1. UNCHANGED <<proc, reg, victim, lpc, next>>
  BY DEF RemoveLocked, PutUnlocked, PcWrite, locals, loader
<1>2. cpc[c] \in {"remove_lock", "put", "pc_write"}
  BY DEF RemoveLocked, PutUnlocked, PcWrite, Goto
<1>3. p # None /\ p \in Procs /\ p \in HeldByCPUs
  BY <1>2, HeldFacts DEF Holding, Working
<1>4. pc \in [Procs -> Nat] /\ Size \in [Procs -> Nat \ {0}]
  BY SchedFacts, SchedConstants
<1>5. HeldByCPUs' = HeldByCPUs
  BY <1>1 DEF HeldByCPUs
<1>6. CASE RemoveLocked(c) \/ PutUnlocked(c)
  <2>1. /\ S!RemoveFromRunning(p) \/ S!PutPointers(p)
        /\ \/ cpc[c] = "remove_lock" /\ cpc' = [cpc EXCEPT ![c] = "free"]
           \/ cpc[c] = "put" /\ cpc' = [cpc EXCEPT ![c] = "put_lock"]
    BY <1>6 DEF RemoveLocked, PutUnlocked, Goto
  <2>2. pc' = pc
    BY <2>1 DEF S!RemoveFromRunning, S!PutPointers
  <2>3. S!SchedNext
    BY <1>3, <1>5, <2>1 DEF S!SchedNext
  <2>4. Locals' /\ Holding' /\ InCode' /\ Loading' /\ OneCPU'
    BY <1>1, <1>3, <1>4, <2>1, <2>2
       DEF Locals, Holding, InCode, Loading, OneCPU, Working, Inside, CpuPcs
  <2> QED BY <2>3, <2>4
<1>7. CASE PcWrite(c)
  <2>1. /\ S!WritePc(p, reg[c] + 1) /\ cpc[c] = "pc_write"
        /\ \E y \in {"kill_lock", "ran"} : cpc' = [cpc EXCEPT ![c] = y]
    BY <1>7 DEF PcWrite, Goto
  <2>2. reg[c] + 1 \in 1..Size[p] + 1
    BY <1>3, <1>4, <2>1 DEF Locals, InCode
  <2>3. pc' = [pc EXCEPT ![p] = reg[c] + 1]
    BY <2>1 DEF S!WritePc
  <2>4. S!SchedNext
    BY <1>3, <1>5, <2>1, <2>2 DEF S!SchedNext
  <2>5. \A e \in CPUs : e # c /\ proc[e] # None => pc'[proc[e]] = pc[proc[e]]
    BY <1>3, <1>4, <2>3 DEF Locals, OneCPU
  <2>6. Locals' /\ Holding' /\ Loading' /\ OneCPU'
    BY <1>1, <1>3, <2>1 DEF Locals, Holding, Loading, OneCPU, Working, CpuPcs
  <2>7. InCode'
    BY <1>1, <2>1, <2>5 DEF Locals, InCode, Inside
  <2> QED BY <2>4, <2>6, <2>7
<1> QED BY <1>6, <1>7

(* killall: the victim is any process, and its pc is moved to the end of   *)
(* its code, where a CPU may still put it back.                            *)
LEMMA KillStep ==
    ASSUME KInv, NEW c \in CPUs,
           \/ KillLock(c) \/ KillUnlink(c) \/ KillPc(c) \/ KillMark(c) \/ KillReady(c)
           \/ KillUnlock(c)
    PROVE  Threads' /\ S!SchedNext
<1> USE DEF KInv, Threads
<1>1. UNCHANGED <<proc, reg, lpc, next>>
  BY DEF KillLock, KillUnlink, KillPc, KillMark, KillReady, KillUnlock, locals, loader
<1>2. HeldByCPUs' = HeldByCPUs
  BY <1>1 DEF HeldByCPUs
<1>3. pc \in [Procs -> Nat] /\ Size \in [Procs -> Nat]
  BY SchedFacts, SchedConstants
<1>4. CASE KillPc(c)
  <2>1. /\ cpc[c] = "kill_pc" /\ cpc' = [cpc EXCEPT ![c] = "kill_mark"]
        /\ victim' = victim /\ S!KillPc(victim[c])
    BY <1>4 DEF KillPc, Goto, locals
  <2>2. victim[c] \in Procs /\ proc[c] # None
    BY <2>1 DEF Holding, Working
  <2>3. pc' = [pc EXCEPT ![victim[c]] = Size[victim[c]]]
    BY <2>1 DEF S!KillPc
  <2>4. S!SchedNext
    BY <1>2, <2>1, <2>2 DEF S!SchedNext
  <2>5. \A p \in Procs : pc[p] <= Size[p] => pc'[p] <= Size[p]
    BY <1>3, <2>3
  <2>6. InCode'
    BY <1>1, <2>1, <2>5 DEF Locals, InCode, Inside
  <2>7. Locals' /\ Holding' /\ Loading' /\ OneCPU'
    BY <1>1, <2>1, <2>2 DEF Locals, Holding, Loading, OneCPU, Working, CpuPcs
  <2> QED BY <2>4, <2>6, <2>7
<1>5. CASE KillUnlink(c)
  <2>1. PICK v \in Victims(ins[c].a1) : victim' = [victim EXCEPT ![c] = v] /\ S!KillUnlink(v)
    BY <1>5 DEF KillUnlink, Local
  <2>2. v \in Procs
    BY DEF Victims, RunningVictims, ReadyVictims
  <2>3. cpc[c] = "kill_scan" /\ cpc' = [cpc EXCEPT ![c] = "kill_pc"] /\ pc' = pc
    BY <1>5, <2>1 DEF KillUnlink, Goto, S!KillUnlink
  <2>4. S!SchedNext
    BY <1>2, <2>1, <2>2 DEF S!SchedNext
  <2>5. Threads'
    BY <1>1, <2>1, <2>2, <2>3
       DEF Locals, Holding, InCode, Loading, OneCPU, Working, Inside, CpuPcs
  <2> QED BY <2>4, <2>5
<1>6. CASE KillMark(c)
  <2>1. /\ cpc[c] = "kill_mark" /\ cpc' = [cpc EXCEPT ![c] = "kill_scan"]
        /\ victim' = [victim EXCEPT ![c] = None] /\ S!KillMark(victim[c])
    BY <1>6 DEF KillMark, Goto, Local
  <2>2. victim[c] \in Procs /\ pc' = pc
    BY <2>1 DEF Holding, S!KillMark
  <2>3. S!SchedNext
    BY <1>2, <2>1, <2>2 DEF S!SchedNext
  <2>4. Threads'
    BY <1>1, <2>1, <2>2
       DEF Locals, Holding, InCode, Loading, OneCPU, Working, Inside, CpuPcs
  <2> QED BY <2>3, <2>4
<1>7. CASE KillReady(c)
  <2>1. PICK v \in Victims(ins[c].a1) : S!KillReady(v)
    BY <1>7 DEF KillReady
  <2>2. v \in Procs
    BY DEF Victims, RunningVictims, ReadyVictims
  <2>3. cpc' = cpc /\ victim' = victim /\ pc' = pc
    BY <1>7, <2>1 DEF KillReady, S!KillReady, locals
  <2>4. S!SchedNext
    BY <1>2, <2>1, <2>2 DEF S!SchedNext
  <2>5. Threads'
    BY <1>1, <2>3 DEF Locals, Holding, InCode, Loading, OneCPU
  <2> QED BY <2>4, <2>5
<1>8. CASE KillLock(c) \/ KillUnlock(c)
  <2>1. /\ S!KillLock \/ S!KillUnlock
        /\ \/ cpc[c] = "kill_lock" /\ cpc' = [cpc EXCEPT ![c] = "kill_scan"]
           \/ cpc[c] = "kill_scan" /\ cpc' = [cpc EXCEPT ![c] = "ran"]
        /\ victim' = victim
    BY <1>8 DEF KillLock, KillUnlock, Goto, locals
  <2>2. pc' = pc
    BY <2>1 DEF S!KillLock, S!KillUnlock
  <2>3. S!SchedNext
    BY <1>2, <2>1 DEF S!SchedNext
  <2>4. Threads'
    BY <1>1, <2>1, <2>2
       DEF Locals, Holding, InCode, Loading, OneCPU, Working, Inside, CpuPcs
  <2> QED BY <2>3, <2>4
<1> QED BY <1>4, <1>5, <1>6, <1>7, <1>8

(* The loader works on processes that no CPU has yet.                      *)
LEMMA LoaderKeeps ==
    ASSUME KInv, LoaderStep PROVE Threads' /\ (S!SchedNext \/ UNCHANGED S!schedVars)
<1> USE DEF KInv, Threads
<1>1. UNCHANGED <<cpc, proc, reg, victim>>
  BY DEF LoaderStep, LoadProc, TooEarly, LookAgain, Admit, AfterAdd, NextLoad, SetDone,
         LoaderDetach, locals
<1>2. HeldByCPUs' = HeldByCPUs
  BY <1>1 DEF HeldByCPUs
<1>3. Locals' /\ Holding' /\ OneCPU'
  <2>1. next' \in Nat \ {0}
    BY DEF LoaderStep, LoadProc, TooEarly, LookAgain, Admit, AfterAdd, NextLoad, SetDone,
           LoaderDetach, loader, Locals
  <2> QED BY <1>1, <2>1 DEF Locals, Holding, OneCPU
<1>4. CASE LoadProc
  <2>1. lpc = "load" /\ lpc' = "wait" /\ next' = next /\ S!Load(next)
    BY <1>4 DEF LoadProc, LoaderGoto
  <2>2. next \in Procs
    BY <2>1 DEF Loading
  <2>3. \A p \in Procs : pc[p] <= Size[p] => pc'[p] <= Size[p]
    <3>1. pc' = [pc EXCEPT ![next] = 0]
      BY <2>1 DEF S!Load
    <3> QED BY <2>2, <3>1, SchedFacts, SchedConstants
  <2>4. InCode'
    BY <1>1, <2>3 DEF Locals, InCode
  <2>5. S!SchedNext
    BY <1>2, <2>1, <2>2 DEF S!SchedNext
  <2> QED BY <1>3, <2>1, <2>2, <2>4, <2>5 DEF Loading
<1>5. CASE Admit
  <2>1. lpc = "wait" /\ lpc' = "added" /\ S!AddProc(next)
    BY <1>5 DEF Admit, LoaderGoto
  <2>2. next \in Procs /\ pc' = pc
    BY <2>1 DEF Loading, S!AddProc
  <2>3. S!SchedNext
    BY <1>2, <2>1, <2>2 DEF S!SchedNext
  <2> QED BY <1>1, <1>3, <2>1, <2>2, <2>3 DEF Loading, InCode
<1>6. CASE TooEarly \/ LookAgain \/ AfterAdd \/ NextLoad \/ SetDone \/ LoaderDetach
  <2>1. UNCHANGED <<sched, next>>
    BY <1>6 DEF TooEarly, LookAgain, AfterAdd, NextLoad, SetDone, LoaderDetach
  <2>2. UNCHANGED S!schedVars /\ pc' = pc
    BY <1>2, <2>1 DEF sched, S!schedVars
  <2>3. Loading'
    BY <1>6, <2>1, KernelAssumption
       DEF TooEarly, LookAgain, AfterAdd, NextLoad, SetDone, LoaderDetach, LoaderGoto,
           Loading, Locals, Procs
  <2> QED BY <1>1, <1>3, <2>2, <2>3 DEF InCode
<1> QED BY <1>4, <1>5, <1>6 DEF LoaderStep

(* The clock, and steps of nobody, touch neither.                          *)
LEMMA ClockKeeps ==
    ASSUME KInv, ClockStep \/ UNCHANGED vars PROVE Threads' /\ UNCHANGED S!schedVars
<1>1. UNCHANGED <<sched, cpc, locals, loader>>
  BY DEF ClockStep, vars
<1>2. UNCHANGED <<sched, cpc, proc, reg, victim, lpc, next, pc>>
  BY <1>1 DEF locals, loader, sched
<1> QED BY <1>2 DEF KInv, Threads, Locals, Holding, InCode, Loading, OneCPU, HeldByCPUs,
       S!schedVars, sched

-------------------------------------------------------------------------------
(* Every step of a thread is one that the scheduler allows its users.      *)
LEMMA NextUses ==
    ASSUME KInv, [Next]_vars PROVE Threads' /\ [S!SchedNext]_(S!schedVars)
<1>1. ASSUME NEW c \in CPUs, CPUStep(c) PROVE Threads' /\ [S!SchedNext]_(S!schedVars)
  BY <1>1, PrivateStep, GetStep, DropStep, OwnStep, KillStep DEF CPUStep
<1>2. CASE LoaderStep
  BY <1>2, LoaderKeeps
<1>3. CASE ClockStep \/ UNCHANGED vars
  BY <1>3, ClockKeeps
<1> QED BY <1>1, <1>2, <1>3 DEF Next, AllStopped

LEMMA KInvNext == KInv /\ [Next]_vars => KInv'
<1> SUFFICES ASSUME KInv, [Next]_vars PROVE KInv'
  OBVIOUS
<1>1. Threads' /\ [S!SchedNext]_(S!schedVars)
  BY NextUses
<1>2. SP!IInv
  BY DEF KInv
<1>3. [SP!SchedNext]_(SP!schedVars)
  BY <1>1, SameScheduler DEF S!schedVars, SP!schedVars
<1>4. SP!IInv'
  BY <1>2, <1>3, SchedConstants, SP!NextKeeps
<1> QED BY <1>1, <1>4 DEF KInv

LEMMA KInvInit == Init => KInv
<1> SUFFICES ASSUME Init PROVE KInv
  OBVIOUS
<1>1. HeldByCPUs = {}
  BY DEF Init, HeldByCPUs
<1>2. SP!IInv
  BY SameScheduler, SchedConstants, SP!InitEstablishes DEF Init
<1>3. Threads
  BY KernelAssumption
     DEF Init, Threads, Locals, Holding, InCode, Loading, OneCPU, Working, Inside,
         CpuPcs, Procs
<1> QED BY <1>2, <1>3 DEF KInv

LEMMA KInvAlways == SafeSpec => []KInv
  BY KInvInit, KInvNext, PTL DEF SafeSpec

(* The threads of os.c, and killall, use the scheduler only as it allows:  *)
(* what they do to the queues, the pcbs and the lock is a behaviour of     *)
(* Sched, so that all that is proved of Sched holds for them.              *)
THEOREM ThreadsUseSchedProperly == SafeSpec => UsesSchedProperly
<1>1. Init => S!SchedInit
  BY DEF Init
<1>2. KInv /\ [Next]_vars => [S!SchedNext]_(S!schedVars)
  BY NextUses
<1> QED BY <1>1, <1>2, KInvAlways, PTL DEF SafeSpec, UsesSchedProperly, S!SchedSpec

(* No process is ever on two CPUs, whatever killall does.                  *)
THEOREM NeverOnTwoCPUs == SafeSpec => []OneCPU
<1>1. KInv => OneCPU
  BY DEF KInv, Threads
<1> QED BY <1>1, KInvAlways, PTL
==============================================================================
