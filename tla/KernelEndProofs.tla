--------------------------- MODULE KernelEndProofs ---------------------------
(***************************************************************************)
(* For every number of CPUs and processes: the type of the kernel's state, *)
(* which bounds the quantum a process has left; and that, if the queues    *)
(* have room, the threads do not all stop before the last process ended.   *)
(***************************************************************************)
EXTENDS KillallProofs, WellFoundedInduction

(***************************************************************************)
(* What is left of a quantum.  It drops below 0 only on a process that is  *)
(* at its end: one that killall moved there while it waited is dispatched  *)
(* with a quantum of 0, and run still counts the slot.                     *)
(***************************************************************************)
TimeLeft(c) ==
    /\ time_left[c] \in -1..time_slot
    /\ proc[c] = None => time_left[c] = 0
    /\ cpc[c] \in {"put", "put_lock"} => time_left[c] = 0
    /\ cpc[c] \in {"recheck", "run", "ran"} => time_left[c] >= 0
    /\ cpc[c] \in {"fetch", "pc_read", "pc_write", "kill_lock"} \cup Killing
         => time_left[c] >= 1
    /\ proc[c] # None /\ (time_left[c] < 0 \/ (time_left[c] = 0 /\ cpc[c] \in {"run", "ran"}))
         => Finished(proc[c])
    /\ proc[c] # None /\ cpc[c] = "recheck" /\ time_left[c] = 0 =>
         quantum[proc[c]] >= 1 \/ Finished(proc[c])

Quanta == /\ time_left \in [CPUs -> Int]
          /\ \A c \in CPUs : TimeLeft(c)
          /\ quantum \in [Procs -> 0..time_slot]

(***************************************************************************)
(* Where the threads are in their slots, and what the flags say of it.     *)
(***************************************************************************)
Slots ==
    /\ phase \in [Devices -> {"working", "arrived", "left"}]
    /\ clock \in 0..ClockCap /\ stage \in {"running", "over"}
    /\ \A c \in CPUs : /\ phase[c] = "arrived" => cpc[c] = "slot"
                       /\ phase[c] = "left" => cpc[c] = "exit"
    /\ phase[Loader] = "arrived" => lpc \in {"early", "slot"}
    /\ phase[Loader] = "left" => lpc = "exit"
    /\ stage = "over" => \A d \in Devices : phase[d] = "left"

Flags ==
    /\ lpc \in LoaderPcs /\ next \in 1..NumProcs + 1
    /\ done = IF lpc \in {"detach", "exit"} THEN 1 ELSE 0
    /\ finished \in {0, 1} /\ (finished = 1 => done = 1)
    /\ \A c \in CPUs : cpc[c] \in {"detach", "exit"} => done = 1
    /\ lpc \in {"finish", "detach", "exit"} => next = NumProcs + 1
    /\ \A p \in Procs : p < next => life[p] \in {"admitted", "freed"}

(***************************************************************************)
(* From the slot in which the last process was admitted on, whenever one   *)
(* is ready some CPU has yet to look: a CPU that found nothing may stop,   *)
(* since whoever makes a process ready again looks after it did.           *)
(***************************************************************************)
Late == lpc \in {"finish", "detach", "exit"} \/ (lpc = "slot" /\ phase[Loader] = "working")

Awake(c) == proc[c] # None \/ cpc[c] \in {"get", "loop", "slot"}

SomeoneLooks == Late /\ (\E p \in Procs : Ready(p)) => \E c \in CPUs : Awake(c)

-------------------------------------------------------------------------------
(* get_proc returns NULL only if no process is ready.                      *)
LEMMA NothingReady ==
    ASSUME KInv, S!GetNothing PROVE \A p \in Procs : ~Ready(p)
<1>1. /\ SP!GetNothing
  BY DEF S!GetNothing, SP!GetNothing, S!Eligible, SP!Eligible, S!Prios, SP!Prios,
         S!Refill, SP!Refill, S!FullSlots, SP!FullSlots, S!queueVars, SP!queueVars,
         S!ptrVars, SP!ptrVars
<1>2. \A i \in SP!Prios : mlq_ready_queue[i] = << >>
  BY <1>1, SchedConstants, SP!AllEmpty DEF KInv
<1>3. \A p \in Procs : Prio[p] \in SP!Prios
  BY SchedConstants DEF SP!Prios
<1> QED BY <1>2, <1>3 DEF Ready, S!Holds

(***************************************************************************)
(* The quantum.                                                            *)
(***************************************************************************)
(* A CPU that takes no part in a step keeps its quantum.                   *)
LEMMA OtherTimes ==
    ASSUME ListInv, Quanta, NEW e \in CPUs,
           cpc'[e] = cpc[e], proc'[e] = proc[e], time_left'[e] = time_left[e],
           proc[e] # None => /\ quantum'[proc[e]] = quantum[proc[e]]
                             /\ Finished(proc[e]) => (Finished(proc[e]))'
    PROVE  TimeLeft(e)'
  BY DEF Quanta, TimeLeft

LEMMA TimeTypes ==
    ASSUME ListInv, Quanta
    PROVE  /\ \A c \in CPUs : time_left[c] \in -1..time_slot /\ time_left[c] \in Int
           /\ \A p \in Procs : quantum[p] \in 0..time_slot /\ quantum[p] \in Int
           /\ time_slot \in Nat \ {0}
  BY KernelAssumption DEF Quanta, TimeLeft

(* Steps that change no pcb.                                               *)
LEMMA PrivateTimes ==
    ASSUME ListInv, Quanta, NEW c \in CPUs,
           \/ NewSlot(c) \/ IdleStop(c) \/ IdleWait(c) \/ Check(c) \/ RemovePcb(c)
           \/ RecheckStop(c) \/ RecheckWait(c) \/ RecheckRun(c) \/ Detach(c)
           \/ RunCheck(c) \/ Fetch(c) \/ PcRead(c) \/ Ran(c)
    PROVE  Quanta'
<1>1. UNCHANGED <<quantum, pc, proc>>
  BY DEF NewSlot, IdleStop, IdleWait, Check, RemovePcb, RecheckStop, RecheckWait,
         RecheckRun, Detach, RunCheck, Fetch, PcRead, Ran, locals, sched
<1>2. \A r : Finished(r)' <=> Finished(r)
  BY <1>1 DEF Finished
<1>3. Holding /\ TimeLeft(c) /\ (proc[c] # None => proc[c] \in Procs)
  BY PlaceFacts DEF ListInv, KInv, Threads, Quanta
<1>4. \E y \in CpuPcs, t \in -1..time_slot :
        /\ cpc' = [cpc EXCEPT ![c] = y] /\ time_left' = [time_left EXCEPT ![c] = t]
        /\ proc[c] = None => t = 0
        /\ y \in {"put", "put_lock"} => t = 0
        /\ y \in {"recheck", "run", "ran"} => t >= 0
        /\ y \in {"fetch", "pc_read", "pc_write", "kill_lock"} \cup Killing => t >= 1
        /\ proc[c] # None /\ (t < 0 \/ (t = 0 /\ y \in {"run", "ran"})) => Finished(proc[c])
        /\ proc[c] # None /\ y = "recheck" => t # 0
  <2>0. time_left = [time_left EXCEPT ![c] = time_left[c]]
    BY DEF Quanta
  <2>1. CASE Check(c)
    <3> DEFINE to == IF Finished(proc[c]) THEN "remove"
                     ELSE IF time_left[c] = 0 THEN "put" ELSE "recheck"
    <3>1. /\ cpc' = [cpc EXCEPT ![c] = to] /\ time_left' = time_left /\ proc[c] # None
      BY <2>1 DEF Check, Goto, locals
    <3>2. /\ to \in {"remove", "put", "recheck"}
          /\ to = "put" => time_left[c] = 0
          /\ to = "recheck" => ~Finished(proc[c]) /\ time_left[c] # 0
      OBVIOUS
    <3> HIDE DEF to
    <3>3. to = "recheck" => time_left[c] >= 0
      BY <1>3, <3>1, <3>2, TimeTypes DEF TimeLeft
    <3>4. time_left' = [time_left EXCEPT ![c] = time_left[c]] /\ to \in CpuPcs
      BY <2>0, <3>1, <3>2 DEF CpuPcs
    <3> QED BY <1>3, <3>1, <3>2, <3>3, <3>4 DEF TimeLeft, Killing
  <2>2. CASE RemovePcb(c)
    <3>1. \E y \in {"remove_lock", "free"} : /\ cpc' = [cpc EXCEPT ![c] = y]
                                             /\ time_left' = time_left
      BY <2>2 DEF RemovePcb, Goto, locals
    <3> QED BY <1>3, <2>0, <3>1 DEF TimeLeft, Killing, CpuPcs
  <2>3. CASE RunCheck(c)
    <3>1. /\ cpc[c] = "run" /\ time_left' = time_left
          /\ cpc' = [cpc EXCEPT ![c] = IF Finished(proc[c]) THEN "ran" ELSE "fetch"]
      BY <2>3 DEF RunCheck, Goto, locals
    <3>2. proc[c] # None
      BY <1>3, <3>1 DEF Holding, Working
    <3>3. CASE Finished(proc[c])
      BY <1>3, <2>0, <3>1, <3>3 DEF TimeLeft, Killing, CpuPcs
    <3>4. CASE ~Finished(proc[c])
      <4>1. time_left[c] >= 1
        BY <1>3, <3>1, <3>2, <3>4, TimeTypes DEF TimeLeft
      <4> QED BY <1>3, <2>0, <3>1, <3>2, <3>4, <4>1 DEF TimeLeft, Killing, CpuPcs
    <3> QED BY <3>3, <3>4
  <2>4. CASE RecheckRun(c)
    <3> DEFINE t == IF time_left[c] = 0 THEN quantum[proc[c]] ELSE time_left[c]
    <3>1. /\ cpc[c] = "recheck" /\ proc[c] # None /\ cpc' = [cpc EXCEPT ![c] = "run"]
          /\ time_left' = [time_left EXCEPT ![c] = t]
      BY <2>4 DEF RecheckRun, Goto, Local
    <3>2. t \in 0..time_slot /\ (t = 0 => Finished(proc[c]))
      BY <1>3, <3>1, TimeTypes DEF TimeLeft
    <3> HIDE DEF t
    <3>3. t \in -1..time_slot /\ t >= 0
      BY <3>2, TimeTypes
    <3>4. "run" \in CpuPcs /\ "run" \notin {"fetch", "pc_read", "pc_write", "kill_lock"} \cup Killing
      BY DEF Killing, CpuPcs
    <3>5. t < 0 \/ t = 0 => Finished(proc[c])
      BY <3>2, <3>3
    <3> QED BY <3>1, <3>3, <3>4, <3>5
  <2>5. CASE Ran(c)
    <3>1. /\ cpc[c] = "ran" /\ cpc' = [cpc EXCEPT ![c] = "slot"]
          /\ time_left' = [time_left EXCEPT ![c] = time_left[c] - 1]
      BY <2>5 DEF Ran, EndSlot, Goto, Local
    <3>2. proc[c] # None
      BY <1>3, <3>1 DEF Holding, Working
    <3>3. /\ time_left[c] - 1 \in -1..time_slot
          /\ time_left[c] - 1 < 0 => Finished(proc[c])
      BY <1>3, <3>1, <3>2, TimeTypes DEF TimeLeft
    <3> QED BY <3>1, <3>2, <3>3 DEF Killing, CpuPcs
  <2>6. CASE \/ NewSlot(c) \/ IdleStop(c) \/ IdleWait(c)
             \/ RecheckStop(c) \/ RecheckWait(c) \/ Detach(c)
             \/ Fetch(c) \/ PcRead(c)
    <3>1. /\ time_left' = time_left
          /\ \E y \in {"loop", "detach", "slot", "exit", "pc_read", "pc_write"} :
               /\ cpc' = [cpc EXCEPT ![c] = y]
               /\ y \in {"pc_read", "pc_write"} => cpc[c] \in {"fetch", "pc_read"}
      BY <2>6 DEF NewSlot, IdleStop, IdleWait, EndSlot, RecheckStop,
         RecheckWait, Detach, Fetch, PcRead, Goto, locals
    <3>2. PICK y \in {"loop", "detach", "slot", "exit", "pc_read", "pc_write"} :
             /\ cpc' = [cpc EXCEPT ![c] = y]
             /\ y \in {"pc_read", "pc_write"} => cpc[c] \in {"fetch", "pc_read"}
      BY <3>1
    <3>3. /\ time_left[c] \in -1..time_slot /\ (proc[c] = None => time_left[c] = 0)
          /\ cpc[c] \in {"fetch", "pc_read"} => time_left[c] >= 1
          /\ proc[c] # None /\ time_left[c] < 0 => Finished(proc[c])
      BY <1>3 DEF TimeLeft
    <3>4. y \in CpuPcs /\ y \notin {"put", "put_lock", "recheck", "run", "ran", "fetch", "kill_lock"}
                      /\ y \notin Killing
      BY <3>2 DEF CpuPcs, Killing
    <3>5. time_left' = [time_left EXCEPT ![c] = time_left[c]]
      BY <2>0, <3>1
    <3> QED BY <3>2, <3>3, <3>4, <3>5
  <2> QED BY <2>1, <2>2, <2>3, <2>4, <2>5, <2>6
<1>5. TimeLeft(c)'
  BY <1>1, <1>2, <1>4, PlaceFacts DEF TimeLeft, Quanta, ListInv
<1>6. ASSUME NEW e \in CPUs, e # c PROVE TimeLeft(e)'
  <2>1. cpc'[e] = cpc[e] /\ time_left'[e] = time_left[e]
    BY <1>4, <1>6, PlaceFacts DEF Quanta, ListInv
  <2> QED BY <1>1, <1>2, <2>1, OtherTimes
<1>7. time_left' \in [CPUs -> Int]
  BY <1>4 DEF Quanta
<1> QED BY <1>1, <1>5, <1>6, <1>7 DEF Quanta

(* get_proc gives a quantum of 0 only to a process killed in the queue.    *)
LEMMA GetTimes ==
    ASSUME ListInv, Quanta, NEW c \in CPUs, IdleGet(c) \/ Get(c)
    PROVE  Quanta'
<1>1. /\ proc[c] = None /\ time_left' = time_left /\ time_left[c] = 0
      /\ GetOrNone(c, "idle") \/ GetOrNone(c, "recheck")
  BY DEF IdleGet, Get, ListInv, KInv, Threads, Holding, Quanta, TimeLeft
<1>2. /\ cpc \in [CPUs -> CpuPcs] /\ proc \in [CPUs -> Procs \cup {None}]
      /\ \A e \in CPUs : proc[e] # None => proc[e] \in Procs /\ proc[e] \in HeldByCPUs
  BY PlaceFacts DEF ListInv
<1>3. ASSUME NEW y \in {"idle", "recheck"}, UNCHANGED proc, S!GetNothing,
             cpc' = Local(cpc, c, y)
      PROVE  Quanta'
  <2>1. UNCHANGED <<quantum, pc>>
    BY <1>3 DEF S!GetNothing
  <2>2. cpc'[c] = y /\ \A e \in CPUs : e # c => cpc'[e] = cpc[e]
    BY <1>2, <1>3 DEF Local
  <2>3. TimeLeft(c)'
    BY <1>1, <1>3, <2>2, TimeTypes DEF TimeLeft, Killing
  <2>4. \A e \in CPUs : e # c => TimeLeft(e)'
    BY <1>1, <1>3, <2>1, <2>2, OtherTimes DEF Finished
  <2> QED BY <1>1, <2>1, <2>3, <2>4 DEF Quanta
<1>4. ASSUME NEW p \in Procs, proc' = Local(proc, c, p), S!GetProc(p),
             cpc' = Local(cpc, c, "recheck")
      PROVE  Quanta'
  <2>1. pc' = pc /\ SP!GetProc(p)
    BY <1>4, SameScheduler DEF S!GetProc
  <2>2. p \notin HeldByCPUs /\ p # None
    BY <2>1, SchedConstants, SP!GotFacts DEF ListInv, KInv
  <2>3. SP!Distinct(running_list) /\ ~SP!Holds(running_list, p)
    <3>1. life[p] = "admitted"
      BY <2>1, SchedConstants, SP!GotFacts DEF ListInv, KInv
    <3> QED BY <2>2, <3>1, SameLists DEF ListInv, Lists, RunningOnce, Running
  <2>4. /\ \A r \in Procs : r # p => quantum'[r] = quantum[r]
        /\ quantum'[p] \in 0..time_slot
        /\ quantum'[p] = 0 => Finished(p)
    BY <2>1, <2>3, SchedConstants, SP!Dispatched DEF ListInv, KInv, Finished
  <2>5. quantum' \in [Procs -> 0..time_slot]
    <3>1. \E q : quantum' = [quantum EXCEPT ![p] = q]
      BY <2>1 DEF SP!GetProc, SP!DispatchFrom
    <3> QED BY <2>4, <3>1 DEF Quanta
  <2>6. /\ cpc'[c] = "recheck" /\ proc'[c] = p
        /\ \A e \in CPUs : e # c => cpc'[e] = cpc[e] /\ proc'[e] = proc[e]
    BY <1>2, <1>4 DEF Local
  <2>7. TimeLeft(c)'
    <3>1. quantum'[p] >= 1 \/ Finished(p)
      BY <2>4, TimeTypes
    <3>2. Finished(p)' <=> Finished(p)
      BY <2>1 DEF Finished
    <3>3. quantum'[proc'[c]] >= 1 \/ Finished(proc[c])'
      BY <2>6, <3>1, <3>2 DEF Finished
    <3>4. time_left'[c] = 0 /\ 0 \in -1..time_slot
      BY <1>1, TimeTypes
    <3> QED BY <2>2, <2>6, <3>3, <3>4 DEF TimeLeft, Killing
  <2>8. ASSUME NEW e \in CPUs, e # c PROVE TimeLeft(e)'
    <3>1. proc[e] # None => quantum'[proc[e]] = quantum[proc[e]]
      BY <1>2, <2>2, <2>4
    <3>2. Finished(proc[e]) => (Finished(proc[e]))'
      BY <2>1, <2>6, <2>8 DEF Finished
    <3> QED BY <1>1, <2>6, <2>8, <3>1, <3>2, OtherTimes
  <2> QED BY <1>1, <2>5, <2>7, <2>8 DEF Quanta
<1> QED BY <1>1, <1>3, <1>4 DEF GetOrNone

(* The owner of a process removes it, puts it back or writes its pc.       *)
LEMMA OwnTimes ==
    ASSUME ListInv, Quanta, NEW c \in CPUs,
           RemoveLocked(c) \/ Free(c) \/ PutUnlocked(c) \/ PutLocked(c) \/ PcWrite(c)
    PROVE  Quanta'
<1>1. /\ cpc \in [CPUs -> CpuPcs] /\ proc \in [CPUs -> Procs \cup {None}]
      /\ pc \in [Procs -> Nat] /\ quantum' = quantum
      /\ \A e \in CPUs : proc[e] # None => proc[e] \in Procs
      /\ TimeLeft(c) /\ Holding /\ OneCPU
  BY PlaceFacts DEF ListInv, KInv, Threads, Quanta, RemoveLocked, Free, PutUnlocked, PutLocked,
     PcWrite, S!RemoveFromRunning, S!FreePcb, S!PutPointers, S!PutProc, S!WritePc
<1>2. /\ \E y \in CpuPcs : cpc' = [cpc EXCEPT ![c] = y]
      /\ proc' = proc \/ proc' = [proc EXCEPT ![c] = None]
      /\ time_left' = time_left \/ time_left' = [time_left EXCEPT ![c] = 0]
      /\ proc[c] # None
  BY <1>1 DEF RemoveLocked, Free, PutUnlocked, PutLocked, PcWrite, Goto, Local, locals,
     CpuPcs, Holding, Working
<1>3. \A r \in Procs : r # proc[c] => pc'[r] = pc[r]
  BY <1>1 DEF RemoveLocked, Free, PutUnlocked, PutLocked, PcWrite, S!RemoveFromRunning,
     S!FreePcb, S!PutPointers, S!PutProc, S!WritePc
<1>4. ASSUME NEW e \in CPUs, e # c PROVE TimeLeft(e)'
  <2>1. /\ cpc'[e] = cpc[e] /\ proc'[e] = proc[e] /\ time_left'[e] = time_left[e]
    BY <1>1, <1>2, <1>4 DEF Quanta
  <2>2. proc[e] # None => proc[e] \in Procs /\ proc[e] # proc[c]
    BY <1>1, <1>4 DEF OneCPU
  <2>3. proc[e] # None /\ Finished(proc[e]) => (Finished(proc[e]))'
    BY <1>3, <2>1, <2>2 DEF Finished
  <2> QED BY <1>1, <2>1, <2>3, OtherTimes
<1>5. TimeLeft(c)'
  <2>1. CASE RemoveLocked(c)
    <3>1. /\ cpc'[c] = "free" /\ proc' = proc /\ time_left' = time_left /\ pc' = pc
      BY <1>1, <2>1 DEF RemoveLocked, Goto, locals, S!RemoveFromRunning
    <3> QED BY <1>1, <1>2, <3>1 DEF TimeLeft, Killing, Finished
  <2>2. CASE Free(c) \/ PutLocked(c)
    <3>1. /\ cpc'[c] = "get" /\ proc'[c] = None /\ time_left'[c] = 0
      BY <1>1, <2>2 DEF Free, PutLocked, Goto, Local, Quanta, TimeLeft
    <3> QED BY <3>1, TimeTypes DEF TimeLeft, Killing
  <2>3. CASE PutUnlocked(c)
    <3>1. /\ cpc'[c] = "put_lock" /\ proc' = proc /\ time_left'[c] = 0
      BY <1>1, <2>3 DEF PutUnlocked, Goto, locals, TimeLeft
    <3> QED BY <3>1, TimeTypes DEF TimeLeft, Killing
  <2>4. CASE PcWrite(c)
    <3>1. /\ cpc[c] = "pc_write" /\ proc' = proc /\ time_left' = time_left
          /\ cpc'[c] \in {"ran", "kill_lock"}
      BY <1>1, <2>4 DEF PcWrite, Goto, locals
    <3>2. time_left[c] >= 1 /\ time_left[c] \in -1..time_slot
      BY <1>1, <3>1 DEF TimeLeft
    <3> QED BY <1>2, <3>1, <3>2, TimeTypes DEF TimeLeft
  <2> QED BY <2>1, <2>2, <2>3, <2>4
<1>6. time_left' \in [CPUs -> Int]
  BY <1>2 DEF Quanta
<1> QED BY <1>1, <1>4, <1>5, <1>6 DEF Quanta

(* killall moves other processes to their end, never away from it.         *)
LEMMA KillTimes ==
    ASSUME ListInv, Quanta, NEW c \in CPUs,
           \/ KillLock(c) \/ KillUnlink(c) \/ KillPc(c) \/ KillMark(c) \/ KillReady(c)
           \/ KillUnlock(c)
    PROVE  Quanta'
<1>1. /\ cpc \in [CPUs -> CpuPcs] /\ pc \in [Procs -> Nat] /\ Size \in [Procs -> Nat]
      /\ \A e \in CPUs : proc[e] # None => proc[e] \in Procs
      /\ Holding /\ TimeLeft(c)
  BY PlaceFacts, SchedConstants DEF ListInv, KInv, Threads, Quanta
<1>2. /\ quantum' = quantum /\ proc' = proc /\ time_left' = time_left
      /\ cpc[c] \in {"kill_lock"} \cup Killing /\ cpc'[c] \in Killing \cup {"ran"}
      /\ \A e \in CPUs : e # c => cpc'[e] = cpc[e]
      /\ pc' = pc \/ \E v : pc' = [pc EXCEPT ![v] = Size[v]]
  BY <1>1 DEF KillLock, KillUnlink, KillPc, KillMark, KillReady, KillUnlock, Goto, locals,
     Killing, S!KillLock, S!KillUnlink, S!KillPc, S!KillMark, S!KillReady, S!KillUnlock
<1>3. \A r \in Procs : Finished(r) => Finished(r)'
  BY <1>1, <1>2 DEF Finished
<1>4. ASSUME NEW e \in CPUs, e # c PROVE TimeLeft(e)'
  <2>1. proc[e] # None /\ Finished(proc[e]) => (Finished(proc[e]))'
    BY <1>1, <1>2, <1>3 DEF Finished
  <2> QED BY <1>2, <1>4, <2>1, OtherTimes
<1>5. TimeLeft(c)'
  <2>1. time_left[c] >= 1 /\ time_left[c] \in -1..time_slot /\ proc[c] # None
    BY <1>1, <1>2 DEF TimeLeft, Holding, Working, Killing
  <2> QED BY <1>2, <2>1, TimeTypes DEF TimeLeft, Killing
<1> QED BY <1>2, <1>4, <1>5 DEF Quanta

(* A pcb that is loaded is not on a CPU.                                   *)
LEMMA OutsideTimes ==
    ASSUME ListInv, Quanta, UNCHANGED <<cpc, locals>>,
           LoadProc \/ UNCHANGED <<quantum, pc>>
    PROVE  Quanta'
<1>1. quantum' = quantum /\ UNCHANGED <<cpc, proc, time_left>>
  BY DEF locals, LoadProc, S!Load
<1>2. \A e \in CPUs : proc[e] # None => pc'[proc[e]] = pc[proc[e]]
  <2>1. CASE LoadProc
    <3>1. /\ life[next] # "admitted" /\ pc' = [pc EXCEPT ![next] = 0]
      BY <2>1 DEF LoadProc, S!Load
    <3> QED BY <3>1, PlaceFacts DEF ListInv
  <2> QED BY <2>1
<1>3. \A e \in CPUs : TimeLeft(e)'
  BY <1>1, <1>2, OtherTimes DEF Finished
<1> QED BY <1>1, <1>3 DEF Quanta

LEMMA QuantaNext == ListInv /\ Quanta /\ [Next]_vars => Quanta'
<1> SUFFICES ASSUME ListInv, Quanta, [Next]_vars PROVE Quanta'
  OBVIOUS
<1>1. ASSUME NEW c \in CPUs, CPUStep(c) PROVE Quanta'
  BY <1>1, PrivateTimes, GetTimes, OwnTimes, KillTimes DEF CPUStep
<1>2. CASE LoaderStep
  <2>1. UNCHANGED <<cpc, locals>> /\ (LoadProc \/ UNCHANGED <<quantum, pc>>)
    BY <1>2 DEF LoaderStep, LoadProc, TooEarly, LookAgain, Admit, AfterAdd, NextLoad,
       SetDone, LoaderDetach, sched, S!AddProc
  <2> QED BY <2>1, OutsideTimes
<1>3. CASE ClockStep \/ UNCHANGED vars
  <2>1. UNCHANGED <<cpc, locals, quantum, pc>>
    BY <1>3 DEF ClockStep, vars, sched
  <2> QED BY <2>1, OutsideTimes
<1> QED BY <1>1, <1>2, <1>3 DEF Next, AllStopped

LEMMA QuantaInit == Init => Quanta
<1> SUFFICES ASSUME Init PROVE Quanta
  OBVIOUS
<1>1. /\ \A c \in CPUs : cpc[c] = "loop" /\ proc[c] = None /\ time_left[c] = 0
      /\ time_left \in [CPUs -> Int] /\ quantum = [p \in Procs |-> 0]
  BY DEF Init, S!SchedInit
<1>2. 0 \in -1..time_slot /\ 0 \in 0..time_slot
  BY KernelAssumption
<1>3. \A c \in CPUs : TimeLeft(c)
  BY <1>1, <1>2 DEF TimeLeft, Killing
<1> QED BY <1>1, <1>2, <1>3 DEF Quanta

-------------------------------------------------------------------------------
(***************************************************************************)
(* The slots of the threads and the flags.                                 *)
(***************************************************************************)
(* The clock saturates at a natural number: the last of the start times.   *)
LEMMA CapIsTime == ClockCap \in {StartTime[p] : p \in Procs} /\ ClockCap \in Nat
<1> DEFINE After(p) == {q \in Procs : StartTime[q] > StartTime[p]}
           T == {Cardinality(After(p)) : p \in Procs}
<1>1. IsFiniteSet(Procs)
  <2>1. 1 \in Int /\ NumProcs \in Int
    BY KernelAssumption
  <2> QED BY <2>1, FS_Interval, Zenon DEF Procs
<1>2. \A p \in Procs : IsFiniteSet(After(p)) /\ Cardinality(After(p)) \in Nat
  BY <1>1, FS_Subset, FS_CardinalityType
<1>3. 1 \in Procs
  BY KernelAssumption DEF Procs
<1>4. T \subseteq Nat /\ T # {}
  <2> HIDE DEF After
  <2> QED BY <1>2, <1>3
<1>5. PICK n \in T : \A j \in T : <<j, n>> \notin OpToRel(<, Nat)
  <2> HIDE DEF T
  <2> QED BY <1>4, WFMin, NatLessThanWellFounded, Zenon
<1>6. \A j \in T : ~(j < n)
  <2> HIDE DEF T
  <2> QED BY <1>4, <1>5, Zenon DEF OpToRel
<1>7. PICK p \in Procs : n = Cardinality(After(p))
  OBVIOUS
<1>8. ASSUME NEW q \in Procs, StartTime[q] > StartTime[p] PROVE FALSE
  <2>1. After(q) \in SUBSET After(p) /\ q \in After(p) /\ q \notin After(q)
    BY <1>8, KernelAssumption
  <2>2. /\ Cardinality(After(q)) <= Cardinality(After(p))
        /\ Cardinality(After(q)) # Cardinality(After(p))
    <3> HIDE DEF After
    <3> QED BY <1>2, <2>1, FS_Subset
  <2>3. ~(Cardinality(After(q)) < Cardinality(After(p)))
    BY <1>6, <1>7
  <2> HIDE DEF After
  <2> QED BY <1>2, <2>2, <2>3
<1>9. \A q \in Procs : StartTime[q] <= StartTime[p]
  BY <1>8, KernelAssumption
<1>10. ClockCap \in {StartTime[q] : q \in Procs}
  BY <1>9 DEF ClockCap
<1> QED BY <1>10, KernelAssumption

(* What a step of a CPU does to slots and flags: it works until it arrives *)
(* or leaves, and it leaves only when the loader is done.                  *)
Moved(c, y) ==
    /\ cpc' = [cpc EXCEPT ![c] = y]
    /\ y \in {"detach", "exit"} => done = 1
    /\ cpc[c] = "slot" => phase[c] = "working"
    /\ cpc[c] # "exit"
    /\ \/ phase' = phase /\ y # "slot"
       \/ y = "slot" /\ phase' = [phase EXCEPT ![c] = "arrived"]
       \/ y = "exit" /\ phase' = [phase EXCEPT ![c] = "left"]

LEMMA CPUMoves ==
    ASSUME ListInv, Flags, NEW c \in CPUs, CPUStep(c)
    PROVE  /\ UNCHANGED <<lpc, next, done, clock, stage>>
           /\ \E y \in CpuPcs : Moved(c, y)
           /\ finished' = finished \/ (finished' = 1 /\ done = 1)
           /\ \A p \in Procs : life'[p] = life[p] \/ life'[p] = "freed"
<1>1. cpc \in [CPUs -> CpuPcs] /\ life \in [Procs -> S!Lives]
  BY PlaceFacts DEF ListInv
<1>2. CASE \/ NewSlot(c) \/ IdleStop(c) \/ IdleWait(c)
           \/ RecheckStop(c) \/ RecheckWait(c) \/ RecheckRun(c) \/ Detach(c)
           \/ Fetch(c) \/ PcRead(c) \/ Ran(c)
  <2>1. /\ UNCHANGED <<lpc, next, done, clock, stage, life>>
        /\ finished' = finished \/ (finished' = 1 /\ done = 1)
    BY <1>2 DEF NewSlot, IdleStop, IdleWait, RecheckStop, RecheckWait, RecheckRun, Detach,
       Fetch, PcRead, Ran, EndSlot, sched, barrier, loader, flags, B!Arrive, B!Leave
  <2>2. \E y \in {"loop", "detach", "slot", "run", "exit", "pc_read", "pc_write"} : Moved(c, y)
    BY <1>2 DEF NewSlot, IdleStop, IdleWait, RecheckStop, RecheckWait, RecheckRun, Detach,
       Fetch, PcRead, Ran, EndSlot, Goto, barrier, B!Arrive, B!Leave, Flags, Moved
  <2> QED BY <2>1, <2>2 DEF CpuPcs
<1>3. CASE \/ Check(c) \/ RemovePcb(c) \/ RunCheck(c) \/ RemoveLocked(c) \/ Free(c)
           \/ PutUnlocked(c) \/ PutLocked(c) \/ PcWrite(c)
           \/ KillLock(c) \/ KillUnlink(c) \/ KillPc(c) \/ KillMark(c) \/ KillUnlock(c)
  <2>1. UNCHANGED <<lpc, next, done, clock, stage, phase, finished>>
    BY <1>3 DEF Check, RemovePcb, RunCheck, RemoveLocked, Free, PutUnlocked, PutLocked,
       PcWrite, KillLock, KillUnlink, KillPc, KillMark, KillUnlock, barrier, loader, flags
  <2>2. \E x \in CpuPcs \ {"slot", "exit"}, y \in CpuPcs \ {"slot", "detach", "exit"} :
           cpc[c] = x /\ cpc' = [cpc EXCEPT ![c] = y]
    BY <1>3 DEF Check, RemovePcb, RunCheck, RemoveLocked, Free, PutUnlocked, PutLocked,
       PcWrite, KillLock, KillUnlink, KillPc, KillMark, KillUnlock, Goto, CpuPcs
  <2>3. life' = life \/ \E p : life' = [life EXCEPT ![p] = "freed"]
    BY <1>3 DEF Check, RemovePcb, RunCheck, RemoveLocked, Free, PutUnlocked, PutLocked,
       PcWrite, KillLock, KillUnlink, KillPc, KillMark, KillUnlock, sched,
       S!RemoveFromRunning, S!FreePcb, S!PutPointers, S!PutProc, S!WritePc, S!KillLock,
       S!KillUnlink, S!KillPc, S!KillMark, S!KillUnlock
  <2> QED BY <1>1, <2>1, <2>2, <2>3 DEF Moved
<1>4. CASE KillReady(c)
  <2>1. UNCHANGED <<lpc, next, done, clock, stage, phase, finished, cpc>> /\ cpc[c] = "kill_scan"
    BY <1>4 DEF KillReady, barrier, loader, flags
  <2>2. \E p : life' = [life EXCEPT ![p] = "freed"]
    BY <1>4 DEF KillReady, S!KillReady
  <2>3. Moved(c, "kill_scan") /\ "kill_scan" \in CpuPcs
    BY <1>1, <2>1 DEF Moved, CpuPcs
  <2> QED BY <1>1, <2>1, <2>2, <2>3
<1>5. CASE IdleGet(c) \/ Get(c)
  <2>1. UNCHANGED <<lpc, next, done, clock, stage, phase, finished>>
    BY <1>5 DEF IdleGet, Get, barrier, loader, flags
  <2>2. life' = life /\ \E y \in {"idle", "recheck"} : cpc' = [cpc EXCEPT ![c] = y]
    BY <1>5 DEF IdleGet, Get, GetOrNone, Local, S!GetProc, S!GetNothing
  <2>3. cpc[c] \in {"loop", "get"}
    BY <1>5 DEF IdleGet, Get
  <2> QED BY <2>1, <2>2, <2>3 DEF Moved, CpuPcs
<1> QED BY <1>2, <1>3, <1>4, <1>5 DEF CPUStep

LEMMA SlotsNext == ListInv /\ Slots /\ Flags /\ [Next]_vars => Slots' /\ Flags'
<1> SUFFICES ASSUME ListInv, Slots, Flags, [Next]_vars PROVE Slots' /\ Flags'
  OBVIOUS
<1>1. /\ cpc \in [CPUs -> CpuPcs] /\ life \in [Procs -> S!Lives] /\ next \in Nat \ {0}
      /\ Loader \notin CPUs /\ NumProcs \in Nat \ {0} /\ Loading
      /\ phase \in [CPUs \cup {Loader} -> {"working", "arrived", "left"}]
  BY PlaceFacts, KernelAssumption DEF ListInv, KInv, Threads, Locals, Slots, Devices
<1>2. ASSUME NEW c \in CPUs, CPUStep(c) PROVE Slots' /\ Flags'
  <2>1. UNCHANGED <<lpc, next, done, clock, stage>>
    BY <1>2, CPUMoves
  <2>2. PICK y \in CpuPcs : Moved(c, y)
    BY <1>2, CPUMoves
  <2>3. phase[c] = "working" /\ stage = "running"
    BY <1>1, <2>2 DEF Moved, Slots, Devices
  <2>4. /\ cpc'[c] = y /\ \A e \in CPUs : e # c => cpc'[e] = cpc[e] /\ phase'[e] = phase[e]
        /\ phase'[Loader] = phase[Loader]
        /\ phase' \in [Devices -> {"working", "arrived", "left"}]
        /\ phase'[c] = "arrived" => y = "slot"
        /\ phase'[c] = "left" => y = "exit"
    BY <1>1, <2>2, <2>3 DEF Moved, Devices
  <2>5. Slots'
    BY <2>1, <2>3, <2>4 DEF Slots
  <2>6. Flags'
    <3>1. \A p \in Procs : p < next => life'[p] \in {"admitted", "freed"}
      BY <1>2, CPUMoves DEF Flags
    <3>2. finished' = finished \/ (finished' = 1 /\ done = 1)
      BY <1>2, CPUMoves
    <3>3. \A e \in CPUs : cpc'[e] \in {"detach", "exit"} => done = 1
      BY <2>2, <2>4 DEF Flags, Moved
    <3> QED BY <2>1, <3>1, <3>2, <3>3 DEF Flags
  <2> QED BY <2>5, <2>6
<1>3. CASE LoaderStep
  <2>1. UNCHANGED <<cpc, clock, stage, finished>>
    BY <1>3 DEF LoaderStep, LoadProc, TooEarly, LookAgain, Admit, AfterAdd, NextLoad,
       SetDone, LoaderDetach, barrier, flags, B!Arrive, B!Leave
  <2>2. /\ \/ phase' = phase
           \/ phase' = [phase EXCEPT ![Loader] = "arrived"] /\ lpc' \in {"early", "slot"}
           \/ phase' = [phase EXCEPT ![Loader] = "left"] /\ lpc' = "exit"
        /\ lpc \in {"early", "slot"} => phase[Loader] = "working" 
        /\ lpc # "exit"
    BY <1>3 DEF LoaderStep, LoadProc, TooEarly, LookAgain, Admit, AfterAdd, NextLoad,
       SetDone, LoaderDetach, LoaderGoto, barrier, B!Arrive, B!Leave
  <2>3. phase[Loader] = "working" /\ stage = "running"
    BY <1>1, <2>2 DEF Slots, Devices
  <2>4. Slots'
    BY <1>1, <2>1, <2>2, <2>3 DEF Slots, Devices
  <2>5. CASE LoadProc \/ Admit
    <3>1. /\ lpc \in {"load", "wait"} /\ lpc' \in {"wait", "added"} /\ done' = done
          /\ LoadProc => next' = next /\ life' = [life EXCEPT ![next] = "loaded"]
          /\ Admit => next' = next + 1 /\ life' = [life EXCEPT ![next] = "admitted"]
      BY <2>5 DEF LoadProc, Admit, LoaderGoto, flags, S!Load, S!AddProc
    <3>2. next \in 1..NumProcs
      BY <1>1, <3>1 DEF Loading, Procs
    <3>3. next' \in 1..NumProcs + 1
      BY <1>1, <2>5, <3>1, <3>2
    <3>4. \A p \in Procs : p < next' => life'[p] \in {"admitted", "freed"}
      BY <1>1, <2>5, <3>1, <3>2 DEF Flags, Procs
    <3> QED BY <2>1, <2>4, <3>1, <3>3, <3>4 DEF Flags, LoaderPcs
  <2>6. CASE NextLoad
    <3>1. /\ lpc = "slot" /\ UNCHANGED <<next, life, done>>
          /\ lpc' = IF next <= NumProcs THEN "load" ELSE "finish"
      BY <2>6 DEF NextLoad, LoaderGoto, flags, sched
    <3>2. lpc' = "finish" => next = NumProcs + 1
      BY <1>1, <3>1 DEF Flags
    <3> QED BY <2>1, <2>4, <3>1, <3>2 DEF Flags, LoaderPcs
  <2>7. CASE TooEarly \/ LookAgain \/ AfterAdd \/ SetDone \/ LoaderDetach
    <3>1. /\ UNCHANGED <<next, life>>
          /\ \/ lpc \in {"wait", "early", "added"} /\ lpc' \in {"early", "wait", "slot"}
                /\ done' = done
             \/ lpc = "finish" /\ lpc' = "detach" /\ done' = 1
             \/ lpc = "detach" /\ lpc' = "exit" /\ done' = done
      BY <2>7 DEF TooEarly, LookAgain, AfterAdd, SetDone, LoaderDetach, LoaderGoto, flags,
         sched
    <3>2. finished = 1 => done = 1
      BY DEF Flags
    <3> QED BY <2>1, <2>4, <3>1, <3>2 DEF Flags, LoaderPcs
  <2> QED BY <1>3, <2>5, <2>6, <2>7 DEF LoaderStep
<1>4. CASE ClockStep
  <2>1. UNCHANGED <<cpc, lpc, next, done, finished, life>>
    BY <1>4 DEF ClockStep, sched, loader, flags
  <2>2. Flags'
    BY <2>1 DEF Flags
  <2>3. stage = "running"
    BY <1>4 DEF ClockStep, B!Tick, B!Close
  <2>4. CASE B!Tick
    <3>1. /\ phase' = [d \in Devices |-> IF phase[d] = "arrived" THEN "working" ELSE phase[d]]
          /\ stage' = stage /\ clock' = IF clock < ClockCap THEN clock + 1 ELSE clock
      BY <2>4 DEF B!Tick, B!Advance
    <3>2. clock' \in 0..ClockCap
      BY <3>1, CapIsTime DEF Slots
    <3> QED BY <1>1, <2>1, <2>2, <2>3, <3>1, <3>2 DEF Slots, Devices
  <2>5. CASE B!Close
    <3>1. /\ UNCHANGED <<phase, clock>> /\ stage' = "over"
          /\ \A d \in Devices : phase[d] = "left"
      BY <2>5 DEF B!Close, Slots
    <3> QED BY <2>1, <2>2, <3>1 DEF Slots
  <2> QED BY <1>4, <2>4, <2>5 DEF ClockStep
<1>5. CASE UNCHANGED vars
  BY <1>5 DEF vars, sched, barrier, loader, flags, Slots, Flags
<1> QED BY <1>2, <1>3, <1>4, <1>5 DEF Next, AllStopped

LEMMA SlotsInit == Init => Slots /\ Flags
<1> SUFFICES ASSUME Init PROVE Slots /\ Flags
  OBVIOUS
<1>1. Slots
  BY CapIsTime DEF Init, Slots, Devices
<1>2. Flags
  BY KernelAssumption DEF Init, Flags, LoaderPcs, Procs
<1> QED BY <1>1, <1>2

-------------------------------------------------------------------------------
(* The invariant of this module, and the type of the state.                *)
EndInv == ListInv /\ Quanta /\ Slots /\ Flags

LEMMA EndInvAlways == SafeSpec => []EndInv
<1>1. Init => EndInv
  BY ListInvInit, QuantaInit, SlotsInit DEF EndInv
<1>2. EndInv /\ [Next]_vars => EndInv'
  BY ListInvNext, QuantaNext, SlotsNext DEF EndInv
<1> QED BY <1>1, <1>2, PTL DEF SafeSpec

(* Every variable of the kernel has its type.  The part that is not plain  *)
(* is time_left: the quantum that run counts down (cpu.c's time_left) may  *)
(* reach -1, once, for a process that killall sent to its end before it    *)
(* was dispatched, and never less, whenever killall strikes.               *)
THEOREM KernelTypeOK == SafeSpec => []TypeOK
<1>1. EndInv /\ Fetched => TypeOK
  <2> SUFFICES ASSUME EndInv, Fetched PROVE TypeOK
    OBVIOUS
  <2>1. S!SchedTypeOK
    BY DEF EndInv, ListInv, KInv, SP!IInv, SP!SchedTypeOK, S!SchedTypeOK, SP!Prios, S!Prios,
       SP!Pointers, S!Pointers, SP!Lives, S!Lives
  <2>2. time_left \in [CPUs -> -1..time_slot]
    BY DEF EndInv, Quanta, TimeLeft
  <2>3. /\ cpc \in [CPUs -> CpuPcs] /\ proc \in [CPUs -> Procs \cup {None}]
        /\ reg \in [CPUs -> Nat] /\ victim \in [CPUs -> Procs \cup {None}]
    BY DEF EndInv, ListInv, KInv, Threads, Locals
  <2>4. /\ phase \in [Devices -> B!Phases \ {"absent"}]
        /\ clock \in 0..ClockCap /\ stage \in B!Stages
    BY DEF EndInv, Slots, B!Phases, B!Stages
  <2>5. lpc \in LoaderPcs /\ next \in 1..NumProcs + 1 /\ done \in {0, 1} /\ finished \in {0, 1}
    BY DEF EndInv, Flags
  <2> QED BY <2>1, <2>2, <2>3, <2>4, <2>5 DEF TypeOK, Fetched
<1> QED BY <1>1, EndInvAlways, FetchedAlways, PTL

-------------------------------------------------------------------------------
(***************************************************************************)
(* Somebody looks.                                                         *)
(***************************************************************************)
(* A CPU that stops to look has found nothing, or stopped looking before.  *)
LEMMA LooksOrFoundNothing ==
    ASSUME ListInv, Flags, NEW c \in CPUs, CPUStep(c)
    PROVE  \/ Awake(c)'
           \/ \A p \in Procs : ~Ready(p)'
           \/ ~Awake(c) /\ mlq_ready_queue' = mlq_ready_queue
<1>1. /\ cpc \in [CPUs -> CpuPcs] /\ proc \in [CPUs -> Procs \cup {None}]
      /\ Holding /\ Freeing /\ None \notin Procs
  BY PlaceFacts, SchedConstants DEF ListInv, KInv, Threads, Lists
<1>2. CASE IdleGet(c) \/ Get(c)
  <2>1. CASE \E p \in Procs : proc' = Local(proc, c, p)
    BY <1>1, <2>1 DEF Local, Awake
  <2>2. CASE S!GetNothing
    <3>1. mlq_ready_queue' = mlq_ready_queue
      BY <2>2 DEF S!GetNothing, S!queueVars
    <3>2. \A p \in Procs : ~Ready(p)
      BY <2>2, NothingReady DEF ListInv
    <3> QED BY <3>1, <3>2 DEF Ready
  <2> QED BY <1>2, <2>1, <2>2 DEF IdleGet, Get, GetOrNone
<1>3. CASE IdleStop(c) \/ RecheckStop(c) \/ Detach(c)
  <2>1. cpc[c] \in {"idle", "recheck", "detach"} /\ proc[c] = None
    BY <1>1, <1>3 DEF IdleStop, RecheckStop, Detach, Goto, Holding, Freeing
  <2>2. mlq_ready_queue' = mlq_ready_queue
    BY <1>3 DEF IdleStop, RecheckStop, Detach, sched
  <2> QED BY <2>1, <2>2 DEF Awake
<1>4. CASE NewSlot(c) \/ IdleWait(c) \/ RecheckWait(c) \/ Ran(c) \/ Free(c) \/ PutLocked(c)
  <2>1. cpc'[c] \in {"loop", "slot", "get"}
    BY <1>1, <1>4 DEF NewSlot, IdleWait, RecheckWait, Ran, EndSlot, Free, PutLocked, Goto
  <2> QED BY <2>1 DEF Awake
<1>5. CASE \/ Check(c) \/ RemovePcb(c) \/ RemoveLocked(c) \/ PutUnlocked(c) \/ RecheckRun(c)
           \/ RunCheck(c) \/ Fetch(c) \/ PcRead(c) \/ PcWrite(c) \/ KillLock(c)
           \/ KillUnlink(c) \/ KillPc(c) \/ KillMark(c) \/ KillReady(c) \/ KillUnlock(c)
  <2>1. proc' = proc
    BY <1>5 DEF Check, RemovePcb, RemoveLocked, PutUnlocked, RecheckRun, RunCheck, Fetch,
       PcRead, PcWrite, KillLock, KillUnlink, KillPc, KillMark, KillReady, KillUnlock, locals
  <2>2. proc[c] # None
    BY <1>1, <1>5 DEF Check, RemovePcb, RemoveLocked, PutUnlocked, RecheckRun, RunCheck,
       Fetch, PcRead, PcWrite, KillLock, KillUnlink, KillPc, KillMark, KillReady, KillUnlock,
       Goto, Holding, Working
  <2> QED BY <2>1, <2>2 DEF Awake
<1> QED BY <1>2, <1>3, <1>4, <1>5 DEF CPUStep

LEMMA LooksNext ==
    ASSUME CPUs # {}
    PROVE  EndInv /\ SomeoneLooks /\ [Next]_vars => SomeoneLooks'
<1> SUFFICES ASSUME EndInv, SomeoneLooks, [Next]_vars, Late', (\E p \in Procs : Ready(p))'
             PROVE  \E c \in CPUs : Awake(c)'
  BY DEF SomeoneLooks
<1>1. /\ cpc \in [CPUs -> CpuPcs] /\ proc \in [CPUs -> Procs \cup {None}]
      /\ Loader \in Devices /\ CPUs \subseteq Devices /\ Loader \notin CPUs
      /\ ListInv /\ Flags /\ Slots
  BY PlaceFacts, KernelAssumption DEF EndInv, ListInv, Devices
<1>2. ASSUME UNCHANGED <<mlq_ready_queue, cpc, proc>>, Late PROVE \E c \in CPUs : Awake(c)'
  BY <1>2 DEF SomeoneLooks, Ready, Awake
<1>3. ASSUME NEW c \in CPUs, CPUStep(c) PROVE \E e \in CPUs : Awake(e)'
  <2>1. PICK y \in CpuPcs : Moved(c, y)
    BY <1>1, <1>3, CPUMoves
  <2>2. \A e \in CPUs : e # c => cpc'[e] = cpc[e] /\ proc'[e] = proc[e]
    <3>1. proc' = proc \/ \E x : proc' = [proc EXCEPT ![c] = x]
      BY <1>3 DEF CPUStep, NewSlot, IdleGet, IdleStop, IdleWait, Check, RemovePcb,
         RemoveLocked, Free, PutUnlocked, PutLocked, Get, RecheckStop, RecheckWait,
         RecheckRun, Detach, RunCheck, Fetch, PcRead, PcWrite, Ran, KillLock, KillUnlink,
         KillPc, KillMark, KillReady, KillUnlock, GetOrNone, Local, locals
    <3> QED BY <1>1, <2>1, <3>1 DEF Moved
  <2>3. CASE ~Awake(c) /\ mlq_ready_queue' = mlq_ready_queue
    <3>1. Late
      <4>1. lpc' = lpc /\ phase'[Loader] = phase[Loader]
        BY <1>1, <1>3, <2>1, CPUMoves DEF Moved, Slots
      <4> QED BY <4>1 DEF Late
    <3>2. PICK e \in CPUs : Awake(e)
      BY <2>3, <3>1 DEF SomeoneLooks, Ready
    <3>3. e # c
      BY <2>3, <3>2
    <3> QED BY <2>2, <3>2, <3>3 DEF Awake
  <2> QED BY <1>1, <1>3, <2>3, LooksOrFoundNothing
<1>4. CASE LoaderStep
  <2>1. lpc' \in {"slot", "finish", "detach", "exit"} /\ (lpc' = "slot" => phase'[Loader] = "working")
    BY DEF Late
  <2>2. lpc \in {"finish", "detach"} \/ (lpc = "slot" /\ phase[Loader] = "working")
    BY <1>1, <1>4, <2>1 DEF LoaderStep, LoadProc, TooEarly, LookAgain, Admit, AfterAdd,
       NextLoad, SetDone, LoaderDetach, LoaderGoto, B!Arrive, Slots
  <2>3. UNCHANGED <<mlq_ready_queue, cpc, proc>>
    BY <1>4, <2>1 DEF LoaderStep, LoadProc, TooEarly, LookAgain, Admit, AfterAdd, NextLoad,
       SetDone, LoaderDetach, LoaderGoto, sched, locals, S!Load, S!queueVars
  <2> QED BY <1>2, <2>2, <2>3 DEF Late
<1>5. CASE ClockStep
  <2>1. UNCHANGED <<mlq_ready_queue, cpc, proc, lpc>>
    BY <1>5 DEF ClockStep, sched, locals, loader
  <2>2. CASE Late
    BY <1>2, <2>1, <2>2
  <2>3. CASE ~Late
    <3>1. lpc = "slot" /\ phase[Loader] # "working" /\ phase'[Loader] = "working"
      BY <2>1, <2>3 DEF Late
    <3>2. B!Tick
      BY <1>5, <3>1 DEF ClockStep, B!Close
    <3>3. PICK c \in CPUs : TRUE
      OBVIOUS
    <3>4. phase[c] # "working"
      BY <1>1, <3>2 DEF B!Tick
    <3>5. phase[c] = "arrived" \/ phase[c] = "left"
      BY <1>1, <3>4 DEF Slots
    <3>6. phase[c] # "left"
      BY <1>1, <3>1 DEF Slots, Flags
    <3>7. cpc[c] = "slot"
      BY <1>1, <3>5, <3>6 DEF Slots
    <3> QED BY <2>1, <3>7 DEF Awake
  <2> QED BY <2>2, <2>3
<1>6. CASE UNCHANGED vars
  <2>1. UNCHANGED <<mlq_ready_queue, cpc, proc, lpc, phase>>
    BY <1>6 DEF vars, sched, locals, loader, barrier
  <2> QED BY <1>2, <2>1 DEF Late
<1> QED BY <1>3, <1>4, <1>5, <1>6 DEF Next, AllStopped

(* If no list is ever full and there is a CPU, the threads stop only after *)
(* every process was run to its end and freed: the two flags of os.c, each *)
(* set and read without a lock, never send the last CPU home early.        *)
THEOREM NoWorkIsLeft == ASSUME Room, CPUs # {} PROVE SafeSpec => []NoWorkLeftBehind
<1>1. Init => SomeoneLooks
  BY DEF Init, SomeoneLooks, Late
<1>2. EndInv /\ SomeoneLooks /\ [Next]_vars => SomeoneLooks'
  BY LooksNext
<1>3. EndInv /\ SomeoneLooks => NoWorkLeftBehind
  <2> SUFFICES ASSUME EndInv, SomeoneLooks, stage = "over", NEW p \in Procs
               PROVE  life[p] = "freed"
    BY DEF NoWorkLeftBehind
  <2>1. lpc = "exit" /\ \A c \in CPUs : cpc[c] = "exit"
    BY DEF EndInv, Slots, Devices
  <2>2. \A c \in CPUs : proc[c] = None
    BY <2>1 DEF EndInv, ListInv, Lists, Freeing
  <2>3. ~Ready(p) /\ p \notin HeldByCPUs
    <3>1. \A c \in CPUs : ~Awake(c)
      BY <2>1, <2>2 DEF Awake
    <3> QED BY <2>1, <2>2, <3>1 DEF SomeoneLooks, Late, HeldByCPUs
  <2>4. life[p] \in {"admitted", "freed"}
    <3>1. next = NumProcs + 1 /\ p \in 1..NumProcs /\ NumProcs \in Nat
      BY <2>1, KernelAssumption DEF EndInv, Flags, Procs
    <3>2. p < next
      BY <3>1
    <3> QED BY <3>2 DEF EndInv, Flags
  <2> QED BY <2>3, <2>4 DEF EndInv, ListInv, RoomInv, NoProcessLost, Ready
<1> QED BY <1>1, <1>2, <1>3, EndInvAlways, PTL DEF SafeSpec

==============================================================================
