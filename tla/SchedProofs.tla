----------------------------- MODULE SchedProofs -----------------------------
(***************************************************************************)
(* For every number of processes, priorities and slots, and for any        *)
(* threads that use the scheduler as SchedNext allows, killall included: a *)
(* process is in one place at most, no slot budget is overdrawn, and       *)
(* get_proc finds nothing only when nothing is ready.                      *)
(***************************************************************************)
EXTENDS Sched, WellFoundedInduction, TLAPS

(***************************************************************************)
(* The queue operators.                                                    *)
(***************************************************************************)
Distinct(q) == \A j, k \in 1..Len(q) : q[j] = q[k] => j = k

(* What a sequence is to the provers.                                      *)
LEMMA SeqDef == \A S : Seq(S) = UNION {[1..n -> S] : n \in Nat}
OBVIOUS

(* A function on 1..n is a sequence of length n.                           *)
LEMMA FcnIsSeq ==
    ASSUME NEW S, NEW n \in Nat, NEW f \in [1..n -> S]
    PROVE  f \in Seq(S) /\ Len(f) = n
<1>1. f \in Seq(S)
  BY SeqDef
<1>2. DOMAIN f = 1..n /\ DOMAIN f = 1..Len(f) /\ Len(f) \in Nat
  BY <1>1
<1> QED BY <1>1, <1>2

(* A sequence is the function of its elements.                             *)
LEMMA SeqIsFcn ==
    ASSUME NEW S, NEW s \in Seq(S) PROVE s = [i \in 1..Len(s) |-> s[i]]
<1>1. s \in UNION {[1..n -> S] : n \in Nat}
  BY SeqDef, Zenon
<1>2. PICK n \in Nat : s \in [1..n -> S]
  BY <1>1, Zenon
<1>3. s = [i \in 1..n |-> s[i]] /\ DOMAIN s = 1..n
  BY <1>2, Zenon
<1>4. DOMAIN s = 1..Len(s)
  OBVIOUS
<1> QED BY <1>3, <1>4, Zenon

(* Closing a gap drops one position and keeps the others in order.         *)
LEMMA CloseGapFacts ==
    ASSUME NEW q \in Seq(Procs), NEW i \in 1..Len(q)
    PROVE  /\ CloseGap(q, i) \in Seq(Procs)
           /\ Len(CloseGap(q, i)) = Len(q) - 1
           /\ \A j \in 1..Len(q) - 1 :
                CloseGap(q, i)[j] = IF j < i THEN q[j] ELSE q[j + 1]
<1>1. CloseGap(q, i) \in [1..Len(q) - 1 -> Procs]
  BY DEF CloseGap
<1>2. Len(q) - 1 \in Nat
  OBVIOUS
<1>3. CloseGap(q, i) \in Seq(Procs) /\ Len(CloseGap(q, i)) = Len(q) - 1
  BY <1>1, <1>2, FcnIsSeq
<1> QED BY <1>3 DEF CloseGap

(* What is left after closing the gap at i in a queue without duplicates.  *)
LEMMA CloseGapDistinct ==
    ASSUME NEW q \in Seq(Procs), NEW i \in 1..Len(q), Distinct(q)
    PROVE  /\ Distinct(CloseGap(q, i))
           /\ ~Holds(CloseGap(q, i), q[i])
           /\ \A p \in Procs : Holds(CloseGap(q, i), p) => Holds(q, p)
<1> DEFINE c == CloseGap(q, i)
<1>1. /\ Len(c) = Len(q) - 1 /\ Len(q) \in Nat
      /\ \A j \in 1..Len(c) : c[j] = IF j < i THEN q[j] ELSE q[j + 1]
  BY CloseGapFacts
<1> HIDE DEF c
<1>2. Distinct(c)
  BY <1>1 DEF Distinct
<1>3. ~Holds(c, q[i])
  BY <1>1 DEF Distinct, Holds
<1>4. \A p \in Procs : Holds(c, p) => Holds(q, p)
  BY <1>1 DEF Holds
<1> QED BY <1>2, <1>3, <1>4 DEF c

(* enqueue adds at most the new element.                                   *)
LEMMA EnqueueFacts ==
    ASSUME NEW q \in Seq(Procs), NEW p \in Procs
    PROVE  /\ enqueue(q, p) \in Seq(Procs)
           /\ \A r \in Procs : Holds(enqueue(q, p), r) => r = p \/ Holds(q, r)
           /\ Distinct(q) /\ ~Holds(q, p) => Distinct(enqueue(q, p))
  BY DEF enqueue, Holds, Distinct

(* In a queue of one priority, dequeue takes the head.                     *)
LEMMA DequeueFacts ==
    ASSUME NEW q \in Seq(Procs), q # << >>, NEW i \in Prios,
           \A j \in 1..Len(q) : Prio[q[j]] = i
    PROVE  MaxIndex(q) = 1 /\ 1 \in 1..Len(q)
<1>1. 1 \in 1..Len(q)
  OBVIOUS
<1>2. \A j \in 1..Len(q) : \/ Prio[q[1]] < Prio[q[j]]
                           \/ Prio[q[1]] = Prio[q[j]] /\ 1 <= j
  BY <1>1
<1>3. \A k \in 1..Len(q) :
        (\A j \in 1..Len(q) : \/ Prio[q[k]] < Prio[q[j]]
                              \/ Prio[q[k]] = Prio[q[j]] /\ k <= j) => k = 1
  BY <1>1 DEF Prios
<1> QED BY <1>1, <1>2, <1>3 DEF MaxIndex

(* remove_proc on a queue without duplicates.                              *)
LEMMA RemoveFacts ==
    ASSUME NEW q \in Seq(Procs), NEW p \in Procs, Distinct(q), Holds(q, p)
    PROVE  /\ remove_proc(q, p) \in Seq(Procs)
           /\ Distinct(remove_proc(q, p))
           /\ ~Holds(remove_proc(q, p), p)
           /\ \A r \in Procs : Holds(remove_proc(q, p), r) => Holds(q, r)
<1> DEFINE first == CHOOSE i \in 1..Len(q) : q[i] = p /\ \A j \in 1..i - 1 : q[j] # p
<1>1. PICK i \in 1..Len(q) : q[i] = p
  BY DEF Holds
<1>2. \A j \in 1..i - 1 : q[j] # p
  BY <1>1 DEF Distinct
<1>3. first \in 1..Len(q) /\ q[first] = p
  BY <1>1, <1>2
<1>4. remove_proc(q, p) = CloseGap(q, first)
  BY DEF remove_proc
<1> HIDE DEF first
<1> QED BY <1>3, <1>4, CloseGapFacts, CloseGapDistinct

(* On any list, remove_proc returns a list of processes.                   *)
LEMMA RemoveType ==
    ASSUME NEW q \in Seq(Procs), NEW p \in Procs
    PROVE  remove_proc(q, p) \in Seq(Procs)
<1> DEFINE first == CHOOSE i \in 1..Len(q) : q[i] = p /\ \A j \in 1..i - 1 : q[j] # p
<1>1. CASE Holds(q, p)
  <2>1. \A j \in 1..Len(q) - 1 : (IF j < first THEN q[j] ELSE q[j + 1]) \in Procs
    OBVIOUS
  <2>2. Len(q) - 1 \in Nat
    BY <1>1 DEF Holds
  <2>3. CloseGap(q, first) \in [1..Len(q) - 1 -> Procs]
    BY <2>1 DEF CloseGap
  <2> QED BY <1>1, <2>2, <2>3 DEF remove_proc
<1>2. CASE ~Holds(q, p)
  BY <1>2 DEF remove_proc
<1> QED BY <1>1, <1>2

(* The level get_proc picks is one of the eligible levels.                 *)
LEMMA HighestFacts ==
    ASSUME NEW T, T \subseteq Prios, T # {}
    PROVE  Highest(T) \in T
<1>1. T \subseteq Nat
  BY DEF Prios
<1>2. PICK i \in T : \A j \in T : <<j, i>> \notin OpToRel(<, Nat)
  BY <1>1, WFMin, NatLessThanWellFounded, Zenon
<1>3. \A j \in T : ~(j < i)
  BY <1>1, <1>2, Zenon DEF OpToRel
<1>4. \A j \in T : i <= j
  BY <1>1, <1>3
<1> QED BY <1>4 DEF Highest

(***************************************************************************)
(* The inductive invariant.  That a budget is never overdrawn needs that   *)
(* no process in a queue has its pc behind its code (the quantum would be  *)
(* negative), and that in turn that whoever overwrites a pc holds it.      *)
(***************************************************************************)
InReady(p) == \E i \in Prios : Holds(mlq_ready_queue[i], p)

Places ==
    /\ \A i \in Prios : Distinct(mlq_ready_queue[i])
    /\ \A i \in Prios : \A p \in Procs : Holds(mlq_ready_queue[i], p) =>
          Prio[p] = i /\ p \notin held /\ life[p] = "admitted"
    /\ \A p \in held : life[p] = "admitted"

Budgets == SlotsInRange /\ (reset_slot = 0 => slot = FullSlots)

Counters == \A p \in Procs : life[p] = "loaded" \/ InReady(p) => pc[p] <= Size[p]

IInv == SchedTypeOK /\ Places /\ Budgets /\ Counters

(* What the assumptions say of the constants, in the form the steps use.   *)
LEMMA ConstantsTyped ==
    /\ MaxPrio \in Nat /\ time_slot \in Nat
    /\ Prio \in [Procs -> Prios]
    /\ Size \in [Procs -> Nat]
    /\ FullSlots \in [Prios -> Nat]
    /\ \A i \in Prios : FullSlots[i] = MaxPrio - i /\ i \in Nat
  BY SchedAssumption DEF Prios, FullSlots

(* The invariant holds at the start.                                       *)
LEMMA InitEstablishes == SchedInit => IInv
<1> SUFFICES ASSUME SchedInit PROVE IInv
  OBVIOUS
<1>1. SchedTypeOK
  BY ConstantsTyped DEF SchedInit, SchedTypeOK, Pointers, Lives
<1>2. Places
  BY DEF SchedInit, Places, Distinct, Holds
<1>3. Budgets
  BY ConstantsTyped DEF SchedInit, Budgets, SlotsInRange
<1>4. Counters
  BY DEF SchedInit, Counters, InReady, Holds
<1> QED BY <1>1, <1>2, <1>3, <1>4 DEF IInv

(* An entry dispatched from one of the two slot tables get_proc may use.   *)
LEMMA DispatchFacts ==
    ASSUME IInv, NEW p \in Procs, NEW sl \in [Prios -> Nat], DispatchFrom(sl, p),
           \A i \in Prios : sl[i] \in 0..MaxPrio - i
    PROVE  /\ mlq_ready_queue' \in [Prios -> Seq(Procs)]
           /\ running_list' \in Seq(Procs)
           /\ slot' \in [Prios -> Nat] /\ SlotsInRange'
           /\ quantum' \in [Procs -> Nat]
           /\ Holds(mlq_ready_queue[Prio[p]], p) /\ ~Holds(mlq_ready_queue[Prio[p]]', p)
           /\ \A i \in Prios : Distinct(mlq_ready_queue'[i])
           /\ \A i \in Prios : \A r \in Procs :
                 Holds(mlq_ready_queue'[i], r) => Holds(mlq_ready_queue[i], r)
<1> DEFINE i == Highest(Eligible(sl))
<1> DEFINE q == mlq_ready_queue[i]
<1>1. i \in Prios /\ q # << >> /\ sl[i] # 0
  BY HighestFacts DEF DispatchFrom, Eligible
<1>2. /\ mlq_ready_queue \in [Prios -> Seq(Procs)] /\ q \in Seq(Procs)
      /\ running_list \in Seq(Procs) /\ quantum \in [Procs -> Nat]
      /\ pc \in [Procs -> Nat]
  BY <1>1 DEF IInv, SchedTypeOK
<1>3. /\ p = Dequeued(q)
      /\ mlq_ready_queue' = [mlq_ready_queue EXCEPT ![i] = AfterDequeue(@)]
      /\ slot' = [sl EXCEPT ![i] = @ - Grant(sl, i, p)]
      /\ quantum' = [quantum EXCEPT ![p] = Grant(sl, i, p)]
      /\ running_list' = enqueue(running_list, p)
  BY DEF DispatchFrom
<1> HIDE DEF i, q
<1>4. Distinct(mlq_ready_queue[i]) /\ \A j \in 1..Len(q) : Prio[q[j]] = i
  BY <1>1, <1>2 DEF IInv, Places, Holds, q
<1>5. MaxIndex(q) = 1 /\ 1 \in 1..Len(q)
  BY <1>1, <1>2, <1>4, DequeueFacts
<1>6. p = q[1] /\ Holds(q, p) /\ Prio[p] = i
  BY <1>3, <1>4, <1>5 DEF Dequeued, Holds
<1>7. mlq_ready_queue'[i] = CloseGap(q, 1)
  BY <1>1, <1>2, <1>3, <1>5 DEF AfterDequeue, q
<1>8. /\ CloseGap(q, 1) \in Seq(Procs) /\ Distinct(CloseGap(q, 1))
      /\ ~Holds(CloseGap(q, 1), p)
      /\ \A r \in Procs : Holds(CloseGap(q, 1), r) => Holds(q, r)
  BY <1>2, <1>4, <1>5, <1>6, CloseGapFacts, CloseGapDistinct DEF q
<1>9. \A k \in Prios : k # i => mlq_ready_queue'[k] = mlq_ready_queue[k]
  BY <1>2, <1>3
<1>10. mlq_ready_queue' \in [Prios -> Seq(Procs)]
  BY <1>2, <1>3, <1>7, <1>8, <1>9
<1>11. running_list' \in Seq(Procs)
  BY <1>2, <1>3, EnqueueFacts
<1>12. Grant(sl, i, p) \in 0..sl[i]
  <2>1. pc[p] <= Size[p]
    BY <1>1, <1>6 DEF IInv, Counters, InReady, q
  <2>2. Size[p] \in Nat /\ pc[p] \in Nat /\ sl[i] \in Nat /\ time_slot \in Nat
    BY <1>1, <1>2, ConstantsTyped
  <2>3. Size[p] - pc[p] \in Nat
    BY <2>1, <2>2
  <2> QED BY <2>2, <2>3 DEF Grant, Least
<1>13. slot' \in [Prios -> Nat] /\ SlotsInRange'
  <2>1. slot'[i] = sl[i] - Grant(sl, i, p) /\ \A k \in Prios : k # i => slot'[k] = sl[k]
    BY <1>1, <1>3
  <2>2. slot'[i] \in 0..sl[i] /\ sl[i] \in 0..MaxPrio - i
    BY <1>1, <1>12, <2>1
  <2>3. MaxPrio \in Nat /\ \A k \in Prios : k \in Nat
    BY ConstantsTyped
  <2>4. ASSUME NEW k \in Prios PROVE slot'[k] \in 0..MaxPrio - k
    BY <1>1, <2>1, <2>2, <2>3
  <2>5. \A k \in Prios : slot'[k] \in Nat
    BY <2>3, <2>4
  <2>6. slot' \in [Prios -> Nat]
    BY <1>3, <2>5
  <2> QED BY <2>4, <2>6 DEF SlotsInRange
<1>14. quantum' \in [Procs -> Nat]
  BY <1>1, <1>2, <1>3, <1>12
<1>15. \A k \in Prios : Distinct(mlq_ready_queue'[k])
  BY <1>4, <1>7, <1>8, <1>9 DEF IInv, Places
<1>16. \A k \in Prios : \A r \in Procs :
          Holds(mlq_ready_queue'[k], r) => Holds(mlq_ready_queue[k], r)
  BY <1>7, <1>8, <1>9 DEF q
<1> QED BY <1>6, <1>7, <1>8, <1>10, <1>11, <1>13, <1>14, <1>15, <1>16 DEF q

(* What a caller of get_proc gets: a process nobody holds, in its code.    *)
LEMMA GotFacts ==
    ASSUME IInv, NEW p \in Procs, GetProc(p)
    PROVE  p \notin held /\ pc[p] <= Size[p] /\ life[p] = "admitted"
<1>1. PICK sl \in {slot, FullSlots} : DispatchFrom(sl, p)
  BY DEF GetProc
<1>2. sl \in [Prios -> Nat] /\ \A i \in Prios : sl[i] \in 0..MaxPrio - i
  <2>1. CASE sl = slot
    BY <2>1 DEF IInv, SchedTypeOK, Budgets, SlotsInRange
  <2>2. CASE sl = FullSlots
    BY <2>2, ConstantsTyped DEF Prios
  <2> QED BY <1>1, <2>1, <2>2
<1>3. Holds(mlq_ready_queue[Prio[p]], p) /\ Prio[p] \in Prios
  BY <1>1, <1>2, DispatchFacts, ConstantsTyped
<1> QED BY <1>3 DEF IInv, Places, Counters, InReady

(* get_proc, with the slots it finds or with the slots it refills.         *)
LEMMA GetProcKeeps ==
    ASSUME IInv, NEW p \in Procs, GetProc(p), held' = held \cup {p} PROVE IInv'
<1>1. PICK sl \in {slot, FullSlots} : DispatchFrom(sl, p)
  BY DEF GetProc
<1>2. sl \in [Prios -> Nat] /\ \A i \in Prios : sl[i] \in 0..MaxPrio - i
  <2>1. CASE sl = slot
    BY <2>1 DEF IInv, SchedTypeOK, Budgets, SlotsInRange
  <2>2. CASE sl = FullSlots
    BY <2>2, ConstantsTyped DEF Prios
  <2> QED BY <1>1, <2>1, <2>2
<1>3. /\ held' = held \cup {p} /\ reset_slot' = 1
      /\ on_running_list' = [on_running_list EXCEPT ![p] = "set"]
      /\ UNCHANGED <<queue_lock, pc, ready_queue, life>>
  BY <1>1 DEF GetProc, DispatchFrom
<1>4. SchedTypeOK'
  BY <1>1, <1>2, <1>3, DispatchFacts DEF IInv, SchedTypeOK, Pointers
<1>5. Holds(mlq_ready_queue[Prio[p]], p) /\ Prio[p] \in Prios
  BY <1>1, <1>2, DispatchFacts, ConstantsTyped
<1>6. ~Holds(mlq_ready_queue'[Prio[p]], p)
  BY <1>1, <1>2, DispatchFacts
<1>7. \A i \in Prios : \A r \in Procs :
         Holds(mlq_ready_queue'[i], r) => Holds(mlq_ready_queue[i], r) /\ r # p
  BY <1>1, <1>2, <1>5, <1>6, DispatchFacts DEF IInv, Places
<1>8. Places'
  BY <1>1, <1>2, <1>3, <1>5, <1>7, DispatchFacts DEF IInv, Places
<1>9. Budgets'
  BY <1>1, <1>2, <1>3, DispatchFacts DEF Budgets
<1>10. Counters'
  BY <1>3, <1>7 DEF IInv, Counters, InReady
<1> QED BY <1>4, <1>8, <1>9, <1>10 DEF IInv

(* add_proc and put_proc: p, which no queue holds, goes to that of its     *)
(* priority.                                                               *)
LEMMA EnterFacts ==
    ASSUME IInv, NEW p \in Procs, \A i \in Prios : ~Holds(mlq_ready_queue[i], p),
           mlq_ready_queue' = [mlq_ready_queue EXCEPT ![Prio[p]] = enqueue(@, p)]
    PROVE  /\ mlq_ready_queue' \in [Prios -> Seq(Procs)]
           /\ \A i \in Prios : Distinct(mlq_ready_queue'[i])
           /\ \A i \in Prios : \A r \in Procs : Holds(mlq_ready_queue'[i], r) =>
                 Holds(mlq_ready_queue[i], r) \/ (r = p /\ i = Prio[p])
<1> DEFINE q == mlq_ready_queue[Prio[p]]
<1>1. /\ Prio[p] \in Prios /\ mlq_ready_queue \in [Prios -> Seq(Procs)]
      /\ \A i \in Prios : Distinct(mlq_ready_queue[i])
  BY ConstantsTyped DEF IInv, SchedTypeOK, Places
<1>2. q \in Seq(Procs) /\ Distinct(q) /\ ~Holds(q, p)
  BY <1>1
<1>3. /\ mlq_ready_queue'[Prio[p]] = enqueue(q, p)
      /\ \A i \in Prios : i # Prio[p] => mlq_ready_queue'[i] = mlq_ready_queue[i]
  BY <1>1
<1>4. /\ enqueue(q, p) \in Seq(Procs) /\ Distinct(enqueue(q, p))
      /\ \A r \in Procs : Holds(enqueue(q, p), r) => r = p \/ Holds(q, r)
  BY <1>2, EnqueueFacts
<1> HIDE DEF q
<1>5. mlq_ready_queue' \in [Prios -> Seq(Procs)]
  BY <1>1, <1>4 DEF q
<1>6. \A i \in Prios : Distinct(mlq_ready_queue'[i])
  BY <1>1, <1>3, <1>4
<1>7. \A i \in Prios : \A r \in Procs : Holds(mlq_ready_queue'[i], r) =>
         Holds(mlq_ready_queue[i], r) \/ (r = p /\ i = Prio[p])
  BY <1>3, <1>4 DEF q
<1> QED BY <1>5, <1>6, <1>7

(* add_proc admits a process no queue holds yet.                           *)
LEMMA AddProcKeeps ==
    ASSUME IInv, NEW p \in Procs, AddProc(p), UNCHANGED held PROVE IInv'
<1>1. /\ life[p] = "loaded" /\ life' = [life EXCEPT ![p] = "admitted"]
      /\ ready_queue' = [ready_queue EXCEPT ![p] = "set"]
      /\ mlq_ready_queue' = [mlq_ready_queue EXCEPT ![Prio[p]] = enqueue(@, p)]
      /\ UNCHANGED <<running_list, slotVars, queue_lock, pc, quantum,
                     on_running_list, held>>
  BY DEF AddProc
<1>2. \A i \in Prios : ~Holds(mlq_ready_queue[i], p)
  BY <1>1 DEF IInv, Places
<1>3. p \notin held
  BY <1>1 DEF IInv, Places
<1>4. SchedTypeOK'
  <2>1. mlq_ready_queue' \in [Prios -> Seq(Procs)]
    BY <1>1, <1>2, EnterFacts
  <2>2. life' \in [Procs -> Lives] /\ ready_queue' \in [Procs -> Pointers]
    BY <1>1 DEF IInv, SchedTypeOK, Lives, Pointers
  <2> QED BY <1>1, <2>1, <2>2 DEF IInv, SchedTypeOK, slotVars
<1>5. Places'
  <2>1. /\ \A i \in Prios : Distinct(mlq_ready_queue'[i])
        /\ \A i \in Prios : \A r \in Procs : Holds(mlq_ready_queue'[i], r) =>
              Holds(mlq_ready_queue[i], r) \/ (r = p /\ i = Prio[p])
    BY <1>1, <1>2, EnterFacts
  <2>2. life'[p] = "admitted" /\ \A r \in Procs : r # p => life'[r] = life[r]
    BY <1>1 DEF IInv, SchedTypeOK
  <2>3. held' = held /\ held \subseteq Procs
    BY <1>1 DEF IInv, SchedTypeOK
  <2> QED BY <1>3, <2>1, <2>2, <2>3 DEF IInv, Places
<1>6. Budgets'
  BY <1>1 DEF IInv, Budgets, SlotsInRange, slotVars
<1>7. Counters'
  BY <1>1, <1>2, EnterFacts DEF IInv, SchedTypeOK, Counters, InReady
<1> QED BY <1>4, <1>5, <1>6, <1>7 DEF IInv

(* put_proc, by the owner of a process whose pc is not behind its code.    *)
LEMMA PutProcKeeps ==
    ASSUME IInv, NEW p \in held, pc[p] <= Size[p], PutProc(p), held' = held \ {p}
    PROVE  IInv'
<1>0. p \in Procs
  BY DEF IInv, SchedTypeOK
<1>1. /\ p \in held /\ held' = held \ {p}
      /\ mlq_ready_queue' = [mlq_ready_queue EXCEPT ![Prio[p]] = enqueue(@, p)]
      /\ running_list' = remove_proc(running_list, p)
      /\ on_running_list' = [on_running_list EXCEPT ![p] = "NULL"]
      /\ UNCHANGED <<slotVars, queue_lock, pc, quantum, ready_queue, life>>
  BY <1>0 DEF PutProc
<1>2. \A i \in Prios : ~Holds(mlq_ready_queue[i], p)
  BY <1>0, <1>1 DEF IInv, Places
<1>3. life[p] = "admitted"
  BY <1>1 DEF IInv, Places
<1>4. SchedTypeOK'
  BY <1>0, <1>1, <1>2, EnterFacts, RemoveType DEF IInv, SchedTypeOK, slotVars, Pointers
<1>5. Places'
  <2>1. /\ \A i \in Prios : Distinct(mlq_ready_queue'[i])
        /\ \A i \in Prios : \A r \in Procs : Holds(mlq_ready_queue'[i], r) =>
              Holds(mlq_ready_queue[i], r) \/ (r = p /\ i = Prio[p])
    BY <1>0, <1>1, <1>2, EnterFacts
  <2>2. UNCHANGED life /\ held' = held \ {p}
    BY <1>1
  <2> QED BY <1>3, <2>1, <2>2 DEF IInv, Places
<1>6. Budgets'
  BY <1>1 DEF IInv, Budgets, SlotsInRange, slotVars
<1>7. Counters'
  BY <1>0, <1>1, <1>2, EnterFacts DEF IInv, Counters, InReady
<1> QED BY <1>4, <1>5, <1>6, <1>7 DEF IInv

(* The ready victim of killall leaves its queue and is freed.              *)
LEMMA KillReadyKeeps ==
    ASSUME IInv, NEW p \in Procs, KillReady(p), UNCHANGED held PROVE IInv'
<1> DEFINE q == mlq_ready_queue[Prio[p]]
<1>1. /\ Holds(q, p)
      /\ mlq_ready_queue' = [mlq_ready_queue EXCEPT ![Prio[p]] = remove_proc(@, p)]
      /\ life' = [life EXCEPT ![p] = "freed"]
      /\ UNCHANGED <<running_list, slotVars, queue_lock, pc, quantum, ptrVars, held>>
  BY DEF KillReady
<1>2. /\ Prio[p] \in Prios /\ mlq_ready_queue \in [Prios -> Seq(Procs)]
      /\ q \in Seq(Procs) /\ Distinct(q) /\ life \in [Procs -> Lives]
  BY ConstantsTyped DEF IInv, SchedTypeOK, Places
<1>3. /\ mlq_ready_queue'[Prio[p]] = remove_proc(q, p)
      /\ \A i \in Prios : i # Prio[p] => mlq_ready_queue'[i] = mlq_ready_queue[i]
  BY <1>1, <1>2
<1>4. /\ remove_proc(q, p) \in Seq(Procs) /\ Distinct(remove_proc(q, p))
      /\ ~Holds(remove_proc(q, p), p)
      /\ \A r \in Procs : Holds(remove_proc(q, p), r) => Holds(q, r)
  BY <1>1, <1>2, RemoveFacts
<1>5. mlq_ready_queue' \in [Prios -> Seq(Procs)]
  BY <1>1, <1>2, <1>4
<1>6. \A i \in Prios : \A r \in Procs :
         Holds(mlq_ready_queue'[i], r) => Holds(mlq_ready_queue[i], r) /\ r # p
  BY <1>3, <1>4 DEF IInv, Places
<1>7. p \notin held
  BY <1>1, <1>2 DEF IInv, Places
<1>8. SchedTypeOK'
  BY <1>1, <1>5 DEF IInv, SchedTypeOK, slotVars, ptrVars, Lives
<1>9. Places'
  BY <1>1, <1>2, <1>3, <1>4, <1>6, <1>7 DEF IInv, Places
<1>10. Budgets'
  BY <1>1 DEF IInv, Budgets, SlotsInRange, slotVars
<1>11. Counters'
  BY <1>1, <1>2, <1>6 DEF IInv, Counters, InReady
<1> QED BY <1>8, <1>9, <1>10, <1>11 DEF IInv

(* get_proc that returns NULL refills the slots, or found them full.       *)
LEMMA GetNothingKeeps == ASSUME IInv, GetNothing, UNCHANGED held PROVE IInv'
<1>1. SchedTypeOK'
  BY ConstantsTyped DEF IInv, SchedTypeOK, GetNothing, queueVars, ptrVars
<1>2. Places'
  BY DEF IInv, Places, GetNothing, queueVars
<1>3. Budgets'
  <2>1. slot' = FullSlots
    BY DEF IInv, SchedTypeOK, Budgets, GetNothing, Refill
  <2> QED BY <2>1, ConstantsTyped DEF Budgets, SlotsInRange
<1>4. Counters'
  BY DEF IInv, Counters, InReady, GetNothing, queueVars
<1> QED BY <1>1, <1>2, <1>3, <1>4 DEF IInv

(* load, whatever malloc left in the running_list of the new pcb.          *)
LEMMA LoadKeeps == ASSUME IInv, NEW p \in Procs, Load(p), UNCHANGED held PROVE IInv'
<1>1. /\ life[p] = "unloaded" /\ life' = [life EXCEPT ![p] = "loaded"]
      /\ pc' = [pc EXCEPT ![p] = 0]
      /\ on_running_list' \in [Procs -> Pointers]
      /\ UNCHANGED <<queueVars, slotVars, queue_lock, quantum, ready_queue, held>>
  <2>1. PICK g \in Garbage : on_running_list' = [on_running_list EXCEPT ![p] = g]
    BY DEF Load
  <2>2. on_running_list \in [Procs -> Pointers] /\ g \in Pointers
    BY <2>1 DEF IInv, SchedTypeOK, Garbage, Pointers
  <2>3. on_running_list' \in [Procs -> Pointers]
    BY <2>1, <2>2
  <2> QED BY <2>3 DEF Load
<1>2. SchedTypeOK'
  BY <1>1 DEF IInv, SchedTypeOK, queueVars, slotVars, Lives
<1>3. Places'
  BY <1>1 DEF IInv, SchedTypeOK, Places, queueVars
<1>4. Budgets'
  BY <1>1 DEF IInv, Budgets, SlotsInRange, slotVars
<1>5. Counters'
  <2>1. pc'[p] = 0 /\ \A r \in Procs : r # p => pc'[r] = pc[r] /\ life'[r] = life[r]
    BY <1>1 DEF IInv, SchedTypeOK
  <2>2. 0 <= Size[p]
    BY ConstantsTyped
  <2> QED BY <1>1, <2>1, <2>2 DEF IInv, Counters, InReady, queueVars
<1> QED BY <1>2, <1>3, <1>4, <1>5 DEF IInv

(* run writes a pc only for a process its CPU holds, which no queue holds. *)
LEMMA WritePcKeeps ==
    ASSUME IInv, NEW p \in held, NEW v \in 1..Size[p] + 1, WritePc(p, v), UNCHANGED held
    PROVE  IInv'
<1>0. p \in Procs
  BY DEF IInv, SchedTypeOK
<1>1. /\ p \in held /\ pc' = [pc EXCEPT ![p] = v]
      /\ UNCHANGED <<queueVars, slotVars, queue_lock, quantum, ptrVars, life, held>>
  BY <1>0 DEF WritePc
<1>2. v \in Nat
  BY ConstantsTyped
<1>3. SchedTypeOK'
  BY <1>0, <1>1, <1>2 DEF IInv, SchedTypeOK, queueVars, slotVars, ptrVars
<1>4. Places'
  BY <1>1 DEF IInv, Places, queueVars
<1>5. Budgets'
  BY <1>1 DEF IInv, Budgets, SlotsInRange, slotVars
<1>6. life[p] = "admitted" /\ ~InReady(p)
  BY <1>0, <1>1 DEF IInv, Places, InReady
<1>7. Counters'
  BY <1>0, <1>1, <1>6 DEF IInv, SchedTypeOK, Counters, InReady, queueVars
<1> QED BY <1>3, <1>4, <1>5, <1>7 DEF IInv

(* remove_pcb ends by freeing a process that no queue holds.               *)
LEMMA FreePcbKeeps ==
    ASSUME IInv, NEW p \in held, FreePcb(p), held' = held \ {p} PROVE IInv'
<1>0. p \in Procs
  BY DEF IInv, SchedTypeOK
<1>1. /\ p \in held /\ held' = held \ {p} /\ life' = [life EXCEPT ![p] = "freed"]
      /\ UNCHANGED <<queueVars, slotVars, queue_lock, pc, quantum, ptrVars>>
  BY <1>0 DEF FreePcb
<1>2. SchedTypeOK'
  BY <1>0, <1>1 DEF IInv, SchedTypeOK, queueVars, slotVars, ptrVars, Lives
<1>3. Places'
  BY <1>0, <1>1 DEF IInv, SchedTypeOK, Places, queueVars
<1>4. Budgets'
  BY <1>1 DEF IInv, Budgets, SlotsInRange, slotVars
<1>5. Counters'
  BY <1>0, <1>1 DEF IInv, SchedTypeOK, Counters, InReady, queueVars
<1> QED BY <1>2, <1>3, <1>4, <1>5 DEF IInv

(* killall moves a pc to the end of the code, not behind it.               *)
LEMMA KillPcKeeps ==
    ASSUME IInv, NEW p \in Procs, KillPc(p), UNCHANGED held PROVE IInv'
<1>1. /\ pc' = [pc EXCEPT ![p] = Size[p]]
      /\ UNCHANGED <<queueVars, slotVars, queue_lock, quantum, ptrVars, life, held>>
  BY DEF KillPc
<1>2. SchedTypeOK'
  BY <1>1, ConstantsTyped DEF IInv, SchedTypeOK, queueVars, slotVars, ptrVars
<1>3. Places'
  BY <1>1 DEF IInv, Places, queueVars
<1>4. Budgets'
  BY <1>1 DEF IInv, Budgets, SlotsInRange, slotVars
<1>5. Counters'
  <2>1. pc'[p] = Size[p] /\ \A r \in Procs : r # p => pc'[r] = pc[r]
    BY <1>1 DEF IInv, SchedTypeOK
  <2>2. Size[p] <= Size[p]
    BY ConstantsTyped
  <2> QED BY <1>1, <2>1, <2>2 DEF IInv, Counters, InReady, queueVars
<1> QED BY <1>2, <1>3, <1>4, <1>5 DEF IInv

(* The steps that touch neither a ready queue nor a pc nor an owner.       *)
LEMMA OthersKeep ==
    ASSUME IInv, NEW p \in Procs,
           \/ PutPointers(p) \/ RemoveFromRunning(p) \/ KillUnlink(p) \/ KillMark(p)
           \/ KillLock \/ KillUnlock,
           UNCHANGED held
    PROVE  IInv'
<1>1. /\ UNCHANGED <<mlq_ready_queue, slotVars, pc, quantum, on_running_list, life, held>>
      /\ running_list' = running_list \/ running_list' = remove_proc(running_list, p)
      /\ ready_queue' \in [Procs -> Pointers]
      /\ queue_lock' \in {"free", "killall"}
  BY DEF IInv, SchedTypeOK, PutPointers, RemoveFromRunning, KillUnlink, KillMark,
         KillLock, KillUnlock, queueVars, slotVars, ptrVars, Pointers
<1>2. SchedTypeOK'
  BY <1>1, RemoveType DEF IInv, SchedTypeOK, slotVars
<1>3. Places'
  BY <1>1 DEF IInv, Places
<1>4. Budgets'
  BY <1>1 DEF IInv, Budgets, SlotsInRange, slotVars
<1>5. Counters'
  BY <1>1 DEF IInv, Counters, InReady
<1> QED BY <1>2, <1>3, <1>4, <1>5 DEF IInv

(* Every step of SchedNext, by the lemma for its action.                   *)
LEMMA NextKeeps == IInv /\ [SchedNext]_schedVars => IInv'
<1> SUFFICES ASSUME IInv, [SchedNext]_schedVars PROVE IInv'
  OBVIOUS
<1>1. CASE /\ \/ GetNothing \/ KillLock \/ KillUnlock
              \/ \E p \in Procs : \/ Load(p) \/ AddProc(p)
                                  \/ KillUnlink(p) \/ KillPc(p) \/ KillMark(p) \/ KillReady(p)
           /\ UNCHANGED held
  <2>1. CASE GetNothing
    BY <1>1, <2>1, GetNothingKeeps
  <2>2. CASE KillLock \/ KillUnlock
    BY <1>1, <2>2 DEF IInv, SchedTypeOK, Places, Budgets, SlotsInRange, Counters, InReady,
       KillLock, KillUnlock, queueVars, slotVars, ptrVars
  <2>3. ASSUME NEW p \in Procs,
               \/ Load(p) \/ AddProc(p)
               \/ KillUnlink(p) \/ KillPc(p) \/ KillMark(p) \/ KillReady(p)
        PROVE  IInv'
    BY <1>1, <2>3, LoadKeeps, AddProcKeeps, KillPcKeeps, KillReadyKeeps, OthersKeep
  <2> QED BY <1>1, <2>1, <2>2, <2>3
<1>2. ASSUME NEW p \in Procs, GetProc(p), held' = held \cup {p} PROVE IInv'
  BY <1>2, GetProcKeeps
<1>3. ASSUME NEW p \in held, UNCHANGED held,
             \/ PutPointers(p) \/ RemoveFromRunning(p)
             \/ \E v \in 1..Size[p] + 1 : WritePc(p, v)
      PROVE  IInv'
  <2>1. p \in Procs
    BY DEF IInv, SchedTypeOK
  <2> QED BY <1>3, <2>1, WritePcKeeps, OthersKeep
<1>4. ASSUME NEW p \in held, held' = held \ {p},
             \/ pc[p] <= Size[p] /\ PutProc(p)
             \/ FreePcb(p)
      PROVE  IInv'
  BY <1>4, PutProcKeeps, FreePcbKeeps
<1>5. CASE UNCHANGED schedVars
  BY <1>5 DEF IInv, SchedTypeOK, Places, Budgets, SlotsInRange, Counters, InReady, schedVars
<1> QED BY <1>1, <1>2, <1>3, <1>4, <1>5 DEF SchedNext

(* The invariant holds in every behaviour of the scheduler.                *)
LEMMA Inductive == SchedSpec => []IInv
  BY InitEstablishes, NextKeeps, PTL DEF SchedSpec

(* The state keeps its type, whatever the threads do.                      *)
THEOREM TypeCorrect == SchedSpec => []SchedTypeOK
<1>1. IInv => SchedTypeOK
  BY DEF IInv
<1> QED BY <1>1, Inductive, PTL

(* No process is ever on two CPUs, twice ready, ready and running, or      *)
(* still known to the scheduler after it was freed.                        *)
THEOREM ProcessInOnePlace == SchedSpec => []OnePlace
<1>1. IInv => OnePlace
  <2> SUFFICES ASSUME IInv PROVE OnePlace
    OBVIOUS
  <2>1. \A i \in Prios : \A j \in 1..Len(mlq_ready_queue[i]) :
           mlq_ready_queue[i][j] \in Procs /\ Holds(mlq_ready_queue[i], mlq_ready_queue[i][j])
    BY DEF IInv, SchedTypeOK, Holds
  <2> QED BY <2>1 DEF IInv, Places, Distinct, OnePlace
<1> QED BY <1>1, Inductive, PTL

(* No priority level ever has fewer than no slots left, or more than its   *)
(* share.                                                                  *)
THEOREM BudgetsRespected == SchedSpec => []SlotsInRange
<1>1. IInv => SlotsInRange
  BY DEF IInv, Budgets
<1> QED BY <1>1, Inductive, PTL

(* get_proc returns NULL only when no process is ready.                    *)
LEMMA AllEmpty ==
    ASSUME IInv, GetNothing PROVE \A i \in Prios : mlq_ready_queue[i] = << >>
<1> SUFFICES ASSUME NEW i \in Prios PROVE mlq_ready_queue[i] = << >>
  OBVIOUS
<1>1. Eligible(slot) = {} /\ (reset_slot = 1 => Eligible(FullSlots) = {})
  BY DEF GetNothing, Refill
<1>2. Eligible(FullSlots) = {}
  BY <1>1 DEF IInv, SchedTypeOK, Budgets
<1>3. FullSlots[i] # 0
  BY ConstantsTyped DEF Prios
<1> QED BY <1>2, <1>3 DEF Eligible

(* No CPU is left idle beside a waiting process.                           *)
THEOREM NeverIdleBesideWork == SchedSpec => WorkConserving
<1>1. IInv /\ [SchedNext]_schedVars =>
        [GetNothing => \A i \in Prios : mlq_ready_queue[i] = << >>]_schedVars
  BY AllEmpty
<1> QED BY <1>1, Inductive, PTL DEF SchedSpec, WorkConserving

-------------------------------------------------------------------------------
(***************************************************************************)
(* What the steps leave in the lists: the facts above bound what a list    *)
(* may hold afterwards, these say what it still holds.                     *)
(***************************************************************************)
(* Closing a gap loses the element that was there, and no other.           *)
LEMMA CloseGapKeeps ==
    ASSUME NEW q \in Seq(Procs), NEW i \in 1..Len(q), NEW r \in Procs,
           Holds(q, r), r # q[i]
    PROVE  Holds(CloseGap(q, i), r)
<1> DEFINE c == CloseGap(q, i)
<1>1. /\ Len(c) = Len(q) - 1 /\ Len(q) \in Nat
      /\ \A j \in 1..Len(c) : c[j] = IF j < i THEN q[j] ELSE q[j + 1]
  BY CloseGapFacts
<1> HIDE DEF c
<1>2. PICK k \in 1..Len(q) : q[k] = r
  BY DEF Holds
<1>3. k # i
  BY <1>2
<1>4. CASE k < i
  <2>1. k \in 1..Len(c) /\ c[k] = r
    BY <1>1, <1>2, <1>4
  <2> QED BY <2>1 DEF Holds, c
<1>5. CASE k > i
  <2>1. k - 1 \in 1..Len(c) /\ ~(k - 1 < i) /\ (k - 1) + 1 = k
    BY <1>1, <1>5
  <2>2. c[k - 1] = r
    BY <1>1, <1>2, <2>1
  <2> QED BY <2>1, <2>2 DEF Holds, c
<1> QED BY <1>3, <1>4, <1>5

(* enqueue loses nothing that was there, and adds the element if there is  *)
(* room for it.                                                            *)
LEMMA EnqueueKeeps ==
    ASSUME NEW q \in Seq(Procs), NEW p \in Procs
    PROVE  /\ \A r \in Procs : Holds(q, r) => Holds(enqueue(q, p), r)
           /\ Len(q) < MaxQueueSize => Holds(enqueue(q, p), p)
<1>1. CASE Len(q) >= MaxQueueSize
  BY <1>1, QueueAssumption DEF enqueue
<1>2. CASE ~(Len(q) >= MaxQueueSize)
  <2>1. enqueue(q, p) = Append(q, p)
    BY <1>2 DEF enqueue
  <2>2. /\ Len(Append(q, p)) = Len(q) + 1 /\ Append(q, p)[Len(q) + 1] = p
        /\ \A j \in 1..Len(q) : Append(q, p)[j] = q[j]
    OBVIOUS
  <2> QED BY <2>1, <2>2 DEF Holds
<1> QED BY <1>1, <1>2

(* remove_proc loses the process it is called for, and no other, and that  *)
(* one altogether if it was there once.                                    *)
LEMMA RemoveKeeps ==
    ASSUME NEW q \in Seq(Procs), NEW p \in Procs, Distinct(q)
    PROVE  /\ Distinct(remove_proc(q, p))
           /\ \A r \in Procs : Holds(remove_proc(q, p), r) <=> Holds(q, r) /\ r # p
<1>1. CASE Holds(q, p)
  <2> DEFINE first == CHOOSE i \in 1..Len(q) : q[i] = p /\ \A j \in 1..i - 1 : q[j] # p
  <2>1. PICK i \in 1..Len(q) : q[i] = p
    BY <1>1 DEF Holds
  <2>2. \A j \in 1..i - 1 : q[j] # p
    BY <2>1 DEF Distinct
  <2>3. first \in 1..Len(q) /\ q[first] = p
    BY <2>1, <2>2
  <2>4. remove_proc(q, p) = CloseGap(q, first)
    BY <1>1 DEF remove_proc
  <2> HIDE DEF first
  <2>5. \A r \in Procs : Holds(q, r) /\ r # p => Holds(CloseGap(q, first), r)
    BY <2>3, CloseGapKeeps
  <2> QED BY <1>1, <2>4, <2>5, RemoveFacts
<1>2. CASE ~Holds(q, p)
  BY <1>2 DEF remove_proc
<1> QED BY <1>1, <1>2

(* get_proc takes p from its queue, and from nowhere else, to the end of   *)
(* the list of running processes, with a quantum that is only 0 if p has   *)
(* nothing left to do.                                                     *)
LEMMA Dispatched ==
    ASSUME IInv, NEW p \in Procs, GetProc(p), Distinct(running_list), ~Holds(running_list, p)
    PROVE  /\ Distinct(running_list')
           /\ \A r \in Procs : Holds(running_list', r) => Holds(running_list, r) \/ r = p
           /\ \A r \in Procs : Holds(running_list, r) => Holds(running_list', r)
           /\ Len(running_list) < MaxQueueSize => Holds(running_list', p)
           /\ \A r \in Procs : r # p /\ Holds(mlq_ready_queue[Prio[r]], r)
                                  => Holds(mlq_ready_queue'[Prio[r]], r)
           /\ \A r \in Procs : r # p => quantum'[r] = quantum[r]
           /\ quantum'[p] \in 0..time_slot
           /\ quantum'[p] = 0 => pc[p] >= Size[p]
<1>1. PICK sl \in {slot, FullSlots} : DispatchFrom(sl, p)
  BY DEF GetProc
<1>2. sl \in [Prios -> Nat] /\ \A i \in Prios : sl[i] \in 0..MaxPrio - i
  <2>1. CASE sl = slot
    BY <2>1 DEF IInv, SchedTypeOK, Budgets, SlotsInRange
  <2>2. CASE sl = FullSlots
    BY <2>2, ConstantsTyped DEF Prios
  <2> QED BY <1>1, <2>1, <2>2
<1> DEFINE i == Highest(Eligible(sl))
<1> DEFINE q == mlq_ready_queue[i]
<1>3. i \in Prios /\ q # << >> /\ sl[i] # 0
  BY <1>1, HighestFacts DEF DispatchFrom, Eligible
<1>4. /\ mlq_ready_queue \in [Prios -> Seq(Procs)] /\ q \in Seq(Procs)
      /\ running_list \in Seq(Procs) /\ quantum \in [Procs -> Nat]
      /\ pc \in [Procs -> Nat]
  BY <1>3 DEF IInv, SchedTypeOK
<1>5. /\ p = Dequeued(q)
      /\ mlq_ready_queue' = [mlq_ready_queue EXCEPT ![i] = AfterDequeue(@)]
      /\ quantum' = [quantum EXCEPT ![p] = Grant(sl, i, p)]
      /\ running_list' = enqueue(running_list, p)
  BY <1>1 DEF DispatchFrom
<1> HIDE DEF i, q
<1>6. Distinct(q) /\ \A j \in 1..Len(q) : Prio[q[j]] = i
  BY <1>3, <1>4 DEF IInv, Places, Holds, q
<1>7. MaxIndex(q) = 1 /\ 1 \in 1..Len(q)
  BY <1>3, <1>4, <1>6, DequeueFacts
<1>8. p = q[1] /\ Holds(q, p)
  BY <1>5, <1>7 DEF Dequeued, Holds
<1>9. mlq_ready_queue'[i] = CloseGap(q, 1)
  BY <1>3, <1>4, <1>5, <1>7 DEF AfterDequeue, q
<1>10. ASSUME NEW r \in Procs, r # p, Holds(mlq_ready_queue[Prio[r]], r)
       PROVE  Holds(mlq_ready_queue'[Prio[r]], r)
  <2>1. Prio[r] \in Prios
    BY ConstantsTyped
  <2>2. CASE Prio[r] = i
    BY <1>4, <1>7, <1>8, <1>9, <1>10, <2>2, CloseGapKeeps DEF q
  <2>3. CASE Prio[r] # i
    BY <1>4, <1>5, <1>10, <2>1, <2>3
  <2> QED BY <2>2, <2>3
<1>11. /\ Distinct(running_list')
       /\ \A r \in Procs : Holds(running_list', r) => Holds(running_list, r) \/ r = p
       /\ \A r \in Procs : Holds(running_list, r) => Holds(running_list', r)
       /\ Len(running_list) < MaxQueueSize => Holds(running_list', p)
  BY <1>4, <1>5, EnqueueFacts, EnqueueKeeps
<1>12. quantum'[p] = Grant(sl, i, p) /\ \A r \in Procs : r # p => quantum'[r] = quantum[r]
  BY <1>4, <1>5
<1>13. Grant(sl, i, p) \in 0..time_slot /\ (Grant(sl, i, p) = 0 => pc[p] >= Size[p])
  <2>1. pc[p] <= Size[p]
    BY <1>3, <1>8 DEF IInv, Counters, InReady, q
  <2>2. /\ Size[p] \in Nat /\ pc[p] \in Nat /\ sl[i] \in Nat \ {0}
        /\ time_slot \in Nat \ {0}
    BY <1>2, <1>3, <1>4, ConstantsTyped, SchedAssumption
  <2> QED BY <2>1, <2>2 DEF Grant, Least
<1> QED BY <1>10, <1>11, <1>12, <1>13

(* add_proc and put_proc lose nobody in the queues, and p is found in its  *)
(* own if there was room.                                                  *)
LEMMA Entered ==
    ASSUME IInv, NEW p \in Procs,
           mlq_ready_queue' = [mlq_ready_queue EXCEPT ![Prio[p]] = enqueue(@, p)]
    PROVE  /\ \A r \in Procs : Holds(mlq_ready_queue[Prio[r]], r)
                                  => Holds(mlq_ready_queue'[Prio[r]], r)
           /\ Len(mlq_ready_queue[Prio[p]]) < MaxQueueSize
                => Holds(mlq_ready_queue'[Prio[p]], p)
<1>1. mlq_ready_queue \in [Prios -> Seq(Procs)] /\ Prio \in [Procs -> Prios]
  BY ConstantsTyped DEF IInv, SchedTypeOK
<1>2. /\ mlq_ready_queue'[Prio[p]] = enqueue(mlq_ready_queue[Prio[p]], p)
      /\ \A i \in Prios : i # Prio[p] => mlq_ready_queue'[i] = mlq_ready_queue[i]
  BY <1>1
<1> QED BY <1>1, <1>2, EnqueueKeeps

(* The ready victim of killall is the only one to leave its queue.         *)
LEMMA ReadyKilled ==
    ASSUME IInv, NEW p \in Procs, KillReady(p)
    PROVE  \A r \in Procs : r # p /\ Holds(mlq_ready_queue[Prio[r]], r)
                               => Holds(mlq_ready_queue'[Prio[r]], r)
<1>1. /\ mlq_ready_queue \in [Prios -> Seq(Procs)] /\ Prio \in [Procs -> Prios]
      /\ \A i \in Prios : Distinct(mlq_ready_queue[i])
  BY ConstantsTyped DEF IInv, SchedTypeOK, Places
<1>2. /\ mlq_ready_queue'[Prio[p]] = remove_proc(mlq_ready_queue[Prio[p]], p)
      /\ \A i \in Prios : i # Prio[p] => mlq_ready_queue'[i] = mlq_ready_queue[i]
  BY <1>1 DEF KillReady
<1> QED BY <1>1, <1>2, RemoveKeeps

(***************************************************************************)
(* The scheduler implements RunQueue.                                      *)
(***************************************************************************)
Arrived == {p \in Procs : life[p] \in {"admitted", "freed"}}

(* enqueue is what RunQueue says of joining a line.                        *)
LEMMA JoinsLine ==
    ASSUME IInv, NEW p \in Procs,
           mlq_ready_queue' = [mlq_ready_queue EXCEPT ![Prio[p]] = enqueue(@, p)]
    PROVE  mlq_ready_queue' = RQ!Joined(p)
<1>1. /\ Prio[p] \in Prios /\ mlq_ready_queue \in [Prios -> Seq(Procs)]
      /\ MaxQueueSize \in Nat
  BY ConstantsTyped, QueueAssumption DEF IInv, SchedTypeOK
<1>2. Len(mlq_ready_queue[Prio[p]]) \in Nat
  BY <1>1
<1>3. enqueue(mlq_ready_queue[Prio[p]], p) =
        IF Len(mlq_ready_queue[Prio[p]]) < MaxQueueSize
        THEN Append(mlq_ready_queue[Prio[p]], p) ELSE mlq_ready_queue[Prio[p]]
  BY <1>1, <1>2 DEF enqueue
<1> QED BY <1>3 DEF RQ!Joined

(* What dequeue takes is the front of the line.                            *)
LEMMA TakesFront ==
    ASSUME IInv, NEW p \in Procs, NEW sl \in [Prios -> Nat], DispatchFrom(sl, p)
    PROVE  \E i \in Prios : /\ mlq_ready_queue[i] # << >> /\ p = Head(mlq_ready_queue[i])
                           /\ mlq_ready_queue' = [mlq_ready_queue EXCEPT ![i] = Tail(@)]
<1> DEFINE i == Highest(Eligible(sl))
<1> DEFINE q == mlq_ready_queue[i]
<1>1. i \in Prios /\ q # << >>
  BY HighestFacts DEF DispatchFrom, Eligible
<1>2. /\ p = Dequeued(q)
      /\ mlq_ready_queue' = [mlq_ready_queue EXCEPT ![i] = AfterDequeue(@)]
  BY DEF DispatchFrom
<1> HIDE DEF i
<1>3. q \in Seq(Procs)
  BY <1>1 DEF IInv, SchedTypeOK
<1>4. \A j \in 1..Len(q) : Prio[q[j]] = i
  BY <1>1, <1>3 DEF IInv, Places, Holds
<1> HIDE DEF q
<1>5. MaxIndex(q) = 1 /\ 1 \in 1..Len(q)
  BY <1>1, <1>3, <1>4, DequeueFacts
<1>6. p = Head(q)
  BY <1>2, <1>3, <1>5 DEF Dequeued
<1>7. AfterDequeue(q) = Tail(q)
  <2>1. \A j \in 1..Len(q) - 1 : ~(j < 1)
    OBVIOUS
  <2>2. AfterDequeue(q) = [j \in 1..Len(q) - 1 |-> q[j + 1]]
    BY <1>5, <2>1 DEF AfterDequeue, CloseGap
  <2>3. /\ Tail(q) \in Seq(Procs) /\ Len(Tail(q)) = Len(q) - 1
        /\ \A j \in 1..Len(q) - 1 : Tail(q)[j] = q[j + 1]
    BY <1>3, <1>5
  <2>4. Tail(q) = [j \in 1..Len(q) - 1 |-> Tail(q)[j]]
    BY <2>3, SeqIsFcn, Zenon
  <2>5. [j \in 1..Len(q) - 1 |-> Tail(q)[j]] = [j \in 1..Len(q) - 1 |-> q[j + 1]]
    BY <2>3, Zenon
  <2> QED BY <2>2, <2>4, <2>5, Zenon
<1>8. mlq_ready_queue' = [mlq_ready_queue EXCEPT ![i] = Tail(@)]
  BY <1>2, <1>7 DEF q
<1> QED BY <1>1, <1>6, <1>8 DEF q

(* Killing a waiting process closes its gap in the line.                   *)
LEMMA LeavesLine ==
    ASSUME IInv, NEW p \in Procs, KillReady(p), UNCHANGED held
    PROVE  RQ!Kill(Prio[p])
<1> DEFINE q == mlq_ready_queue[Prio[p]]
<1> DEFINE first == CHOOSE k \in 1..Len(q) : q[k] = p /\ \A j \in 1..k - 1 : q[j] # p
<1>1. /\ Prio[p] \in Prios /\ q \in Seq(Procs) /\ Distinct(q) /\ Holds(q, p)
      /\ life \in [Procs -> Lives]
      /\ mlq_ready_queue' = [mlq_ready_queue EXCEPT ![Prio[p]] = remove_proc(@, p)]
      /\ life' = [life EXCEPT ![p] = "freed"]
  BY ConstantsTyped DEF IInv, SchedTypeOK, Places, KillReady
<1> HIDE DEF q
<1>2. PICK k \in 1..Len(q) : q[k] = p
  BY <1>1 DEF Holds
<1>3. \A j \in 1..k - 1 : q[j] # p
  BY <1>1, <1>2 DEF Distinct
<1>4. first \in 1..Len(q)
  BY <1>2, <1>3
<1>5. remove_proc(q, p) = CloseGap(q, first)
  BY <1>1 DEF remove_proc
<1> HIDE DEF first
<1>6. life[p] = "admitted"
  BY <1>1 DEF IInv, Places, q
<1>7. Arrived' = Arrived
  BY <1>1, <1>6 DEF Arrived
<1>8. q # << >>
  BY <1>1, <1>2
<1> QED BY <1>1, <1>4, <1>5, <1>7, <1>8 DEF RQ!Kill, CloseGap, q, Arrived

(* Every step of the scheduler is a step of RunQueue, or none.             *)
LEMMA StepImplements ==
    IInv /\ [SchedNext]_schedVars => [RQ!Next]_<<mlq_ready_queue, held, Arrived>>
<1> SUFFICES ASSUME IInv, [SchedNext]_schedVars
             PROVE  [RQ!Next]_<<mlq_ready_queue, held, Arrived>>
  OBVIOUS
<1> USE DEF RQ!Next
<1>0. held \subseteq Procs /\ life \in [Procs -> Lives]
  BY DEF IInv, SchedTypeOK
<1>1. CASE /\ \/ GetNothing \/ KillLock \/ KillUnlock
              \/ \E p \in Procs : KillUnlink(p) \/ KillPc(p) \/ KillMark(p)
           /\ UNCHANGED held
  BY <1>1 DEF GetNothing, KillLock, KillUnlock, KillUnlink, KillPc, KillMark, Arrived,
     queueVars, ptrVars
<1>2. ASSUME NEW p \in Procs, Load(p), UNCHANGED held
      PROVE  UNCHANGED <<mlq_ready_queue, held, Arrived>>
  <2>1. Arrived' = Arrived
    BY <1>0, <1>2 DEF Load, Arrived
  <2> QED BY <1>2, <2>1 DEF Load, queueVars
<1>3. ASSUME NEW p \in Procs, AddProc(p), UNCHANGED held PROVE RQ!Arrive(p)
  <2>1. life[p] = "loaded" /\ life' = [life EXCEPT ![p] = "admitted"]
    BY <1>3 DEF AddProc
  <2>2. p \notin Arrived /\ Arrived' = Arrived \cup {p}
    BY <1>0, <2>1 DEF Arrived
  <2>3. mlq_ready_queue' = RQ!Joined(p)
    BY <1>3, JoinsLine DEF AddProc
  <2> QED BY <1>3, <2>2, <2>3 DEF RQ!Arrive, Arrived
<1>4. ASSUME NEW p \in Procs, KillReady(p), UNCHANGED held
      PROVE  \E i \in Prios : RQ!Kill(i)
  BY <1>4, LeavesLine, ConstantsTyped
<1>5. ASSUME NEW p \in Procs, GetProc(p), held' = held \cup {p}
      PROVE  \E i \in Prios : RQ!Dispatch(i)
  <2>1. PICK sl \in {slot, FullSlots} : DispatchFrom(sl, p)
    BY <1>5 DEF GetProc
  <2>2. sl \in [Prios -> Nat]
    BY <2>1, ConstantsTyped DEF IInv, SchedTypeOK
  <2>3. Arrived' = Arrived
    BY <1>5 DEF GetProc, Arrived
  <2> QED BY <1>5, <2>1, <2>2, <2>3, TakesFront DEF RQ!Dispatch, Arrived
<1>6. ASSUME NEW p \in held, UNCHANGED held,
             \/ PutPointers(p) \/ RemoveFromRunning(p)
             \/ \E v \in 1..Size[p] + 1 : WritePc(p, v)
      PROVE  UNCHANGED <<mlq_ready_queue, held, Arrived>>
  BY <1>6 DEF PutPointers, RemoveFromRunning, WritePc, Arrived, queueVars
<1>7. ASSUME NEW p \in held, held' = held \ {p}, PutProc(p) PROVE RQ!Yield(p)
  <2>1. mlq_ready_queue' = RQ!Joined(p) /\ Arrived' = Arrived
    BY <1>0, <1>7, JoinsLine DEF PutProc, Arrived
  <2> QED BY <1>7, <2>1 DEF RQ!Yield, Arrived
<1>8. ASSUME NEW p \in held, held' = held \ {p}, FreePcb(p) PROVE RQ!End(p)
  <2>1. life[p] = "admitted" /\ life' = [life EXCEPT ![p] = "freed"]
    BY <1>0, <1>8 DEF IInv, Places, FreePcb
  <2>2. Arrived' = Arrived
    BY <1>0, <2>1 DEF Arrived
  <2> QED BY <1>8, <2>2 DEF RQ!End, FreePcb, queueVars, Arrived
<1>9. CASE UNCHANGED schedVars
  BY <1>9 DEF schedVars, Arrived
<1> QED BY <1>0, <1>1, <1>2, <1>3, <1>4, <1>5, <1>6, <1>7, <1>8, <1>9 DEF SchedNext

(* The scheduler is lines served from the front: whatever the interleaving *)
(* of its callers and of killall, nobody of its own priority passes a      *)
(* process, nobody who left comes back, and only a full line loses one.    *)
THEOREM SchedulerIsRunQueue == SchedSpec => ImplementsRunQueue
<1>1. SchedInit => RQ!Init
  BY DEF SchedInit, RQ!Init
<1> QED BY <1>1, StepImplements, Inductive, PTL
        DEF SchedSpec, ImplementsRunQueue, RQ!Spec, RQ!runQueueVars, Arrived
==============================================================================
