----------------------------- MODULE MemoryProofs -----------------------------
(***************************************************************************)
(* Proofs about Memory: an inductive invariant, and the safety properties  *)
(* that follow from it.                                                    *)
(***************************************************************************)
EXTENDS Memory, RegionsProofs, ListFacts, FiniteSetTheorems, TLAPS

(* Where the invariant holds: careless programs, whose faults map pages    *)
(* behind the break, may not inherit the page table of an earlier process. *)
Scope == Careful \/ ~Ends

-------------------------------------------------------------------------------
(* The inductive invariant, in parts.                                      *)

Allocating == {"grow", "evict", "evict_unlink"}
Faulting == {"fault", "fault_out", "fault_unlink"}
WithVictim == {"evict", "evict_unlink", "fault_out", "fault_unlink"}

(* mmvm_lock is with the process that is in the middle of an allocation.   *)
LockInv == \A p \in Procs : pc[p] \in Allocating <=> mmvm_lock = p

(* The frames an allocation has and those it still needs are those of its  *)
(* size, for which there is room behind the break.                         *)
Collected(p) ==
    /\ local[p].rgid \in Rgids /\ local[p].size \in Sizes
    /\ local[p].need + Len(local[p].frames) = PagesFor(local[p].size)
    /\ sbrk[p] + Aligned(local[p].size) <= HeapPages * PAGING_PAGESZ

(* A victim is a page in RAM that is no candidate any more.  Only careless *)
(* programs fault, on pages behind the break.                              *)
LocalAt(p) ==
    /\ pc[p] \in Allocating => Collected(p)
    /\ pc[p] \notin Allocating => local[p].frames = << >>
    /\ pc[p] \in {"evict", "evict_unlink"} => local[p].need > 0
    /\ pc[p] \in {"evict_unlink", "fault_unlink"} => local[p].head # << >>
    /\ pc[p] \in WithVictim => /\ local[p].victim \in mapped[p]
                               /\ Online(p, local[p].victim)
                               /\ local[p].victim \notin ToSet(fifo_pgn[p])
    /\ pc[p] \in Faulting => /\ ~Careful /\ local[p].page \notin mapped[p]
                             /\ local[p].page \in WildPages \/ mapped[p] = {}
    /\ pc[p] = "io" => /\ local[p].page \in mapped[p]
                       /\ Online(p, local[p].page)
                            => local[p].fpn = PAGING_PTE_FPN(pgd[p][local[p].page])

(* The area is whole pages, which are mapped; behind it only wild pages    *)
(* are, once there is an area.                                             *)
Brk(p) == Page(sbrk[p])
AreaAt(p) ==
    /\ sbrk[p] = Brk(p) * PAGING_PAGESZ
    /\ 0..Brk(p) - 1 \subseteq mapped[p]
    /\ mapped[p] \subseteq (0..Brk(p) - 1) \cup WildPages
    /\ Brk(p) = 0 => mapped[p] = {}
    /\ \A g \in mapped[p] : pgd[p][g].present = 1
    /\ ~Careful => \A g \in Pages \ mapped[p] : pgd[p][g] = NoPte

(* No region, used or free, reaches behind the break.                      *)
BelowAt(p) ==
    /\ \A r \in Named(p) : symrgtbl[p][r].end <= sbrk[p]
    /\ \A i \in 1..Len(freerg[p]) : freerg[p][i].end <= sbrk[p]

(* FifoIsOnline and RegionsDisjoint of one process.                        *)
FifoAt(p) ==
    /\ Distinct(fifo_pgn[p])
    /\ \A g \in ToSet(fifo_pgn[p]) : g \in mapped[p] /\ Online(p, g)

Apart(table, used, list) ==
    /\ \A r, q \in used : r # q => Bytes(table[r]) \cap Bytes(table[q]) = {}
    /\ \A i, j \in 1..Len(list) : i # j => Bytes(list[i]) \cap Bytes(list[j]) = {}
    /\ \A r \in used, i \in 1..Len(list) : Bytes(table[r]) \cap Bytes(list[i]) = {}

DisjointAt(p) == Apart(symrgtbl[p], live[p], freerg[p])

ProcAt(p) == /\ LocalAt(p) /\ AreaAt(p) /\ BelowAt(p) /\ FifoAt(p)
             /\ Careful => DisjointAt(p)
ProcInv == \A p \in Procs : ProcAt(p)

(* A frame of RAM is free, in the hands of one allocation, behind one page *)
(* of one process, or lost.                                                *)
Taking(p) == ToSet(local[p].frames)

RamApart == \A p, q \in Procs : \A g \in mapped[p], h \in mapped[q] :
    Online(p, g) /\ Online(q, h) /\ PAGING_PTE_FPN(pgd[p][g]) = PAGING_PTE_FPN(pgd[q][h])
      => p = q /\ g = h

RamSets ==
    /\ Distinct(mram_free) /\ \A p \in Procs : Distinct(local[p].frames)
    /\ \A p \in Procs : /\ RamOf(p) \subseteq Ram
                        /\ ToSet(mram_free) \cap (Taking(p) \cup RamOf(p)) = {}
                        /\ lostRam \cap (Taking(p) \cup RamOf(p)) = {}
    /\ \A p, q \in Procs : Taking(p) \cap RamOf(q) = {}
    /\ ToSet(mram_free) \cap lostRam = {}
    /\ \A f \in Ram : \/ f \in ToSet(mram_free) \/ f \in lostRam
                      \/ \E p \in Procs : f \in Taking(p) \/ f \in RamOf(p)

RamInv == RamApart /\ RamSets

(* The same for swap, where a frame is in nobody's hands between two steps *)
(* as long as no page fault takes one without the lock.                    *)
SwapApart == \A p, q \in Procs : \A g \in mapped[p], h \in mapped[q] :
    Swapped(p, g) /\ Swapped(q, h) /\ PAGING_PTE_SWP(pgd[p][g]) = PAGING_PTE_SWP(pgd[q][h])
      => p = q /\ g = h

SwapSets ==
    /\ Distinct(mswp_free)
    /\ \A p \in Procs : pc[p] = "evict_unlink" => local[p].head = mswp_free
    /\ \A p \in Procs : /\ SwapOf(p) \subseteq Swap
                        /\ ToSet(mswp_free) \cap SwapOf(p) = {}
                        /\ lostSwap \cap SwapOf(p) = {}
    /\ ToSet(mswp_free) \cap lostSwap = {}
    /\ \A s \in Swap : \/ s \in ToSet(mswp_free) \/ s \in lostSwap
                       \/ \E p \in Procs : s \in SwapOf(p)

SwapInv == Careful => SwapApart /\ SwapSets /\ PagesPreserved

MInv == TypeOK /\ LockInv /\ ProcInv /\ RamInv /\ SwapInv

-------------------------------------------------------------------------------
(* Constants, page table entries and the records of the model.             *)

(* The bits of an entry that hold the number.                         *)
LEMMA WidthFacts ==
    /\ FpnRange \in Nat \ {0} /\ SwpTypRange \in Nat \ {0} /\ SwpOffRange \in Nat \ {0}
    /\ SwpTypRange * SwpOffRange \in Nat
    /\ SwpTypRange * SwpOffRange = FpnRange * FpnRange
<1>1. FpnRange = 8192 /\ SwpTypRange = 32 /\ SwpOffRange = 2097152
  BY SMT DEF FpnRange, SwpTypRange, SwpOffRange
<1> QED BY <1>1, SMT

LEMMA ConstantFacts ==
    /\ PAGING_PAGESZ \in Nat \ {0} /\ HeapPages \in Nat \ {0}
    /\ Pages \subseteq Nat /\ 0 \in Pages
    /\ Sizes \subseteq Nat \ {0} /\ None \notin Procs /\ SwpType \in Nat
    /\ Ram \subseteq 0..FpnRange - 1 /\ Swap \subseteq 0..SwpOffRange - 1
    /\ 0 \in Ram /\ 0 \in Swap
    /\ \A g \in WildPages : g >= HeapPages
<1>1. /\ PAGING_PAGESZ \in Nat \ {0} /\ HeapPages \in Nat \ {0}
      /\ Sizes \subseteq Nat \ {0} /\ None \notin Procs /\ SwpType \in Nat
      /\ WildPages \subseteq Nat \ (0..HeapPages - 1)
      /\ RamFrames \in 1..FpnRange /\ SwapFrames \in 1..SwpOffRange
  BY MemoryAssumption, PageSizeAssumption
<1>2. Pages \subseteq Nat /\ 0 \in Pages /\ \A g \in WildPages : g >= HeapPages
  BY <1>1 DEF Pages
<1>3. Ram \subseteq 0..FpnRange - 1 /\ Swap \subseteq 0..SwpOffRange - 1 /\ 0 \in Ram /\ 0 \in Swap
  BY <1>1, WidthFacts DEF Ram, Swap
<1> QED BY <1>1, <1>2, <1>3

(* An entry with other bits.                                               *)
LEMMA EntryFacts ==
    ASSUME NEW e \in Ptes, NEW low \in Nat, low < SwpTypRange * SwpOffRange,
           NEW b \in {0, 1}
    PROVE  LET n == [e EXCEPT !.present = 1, !.swapped = b, !.low = low] IN
           n \in Ptes /\ n.present = 1 /\ n.swapped = b /\ n.low = low
<1> DEFINE R == 0..SwpTypRange * SwpOffRange - 1
<1>1. low \in R /\ e \in [present : {0, 1}, swapped : {0, 1}, low : R]
  BY WidthFacts DEF Ptes
<1>2. Ptes = [present : {0, 1}, swapped : {0, 1}, low : R]
  BY DEF Ptes
<1> HIDE DEF R
<1> QED BY <1>1, <1>2

(* An entry given a frame names it, and its page is in RAM.                *)
LEMMA SetFpnFacts ==
    ASSUME NEW e \in Ptes, NEW f \in 0..FpnRange - 1
    PROVE  /\ pte_set_fpn(e, f) \in Ptes
           /\ InRam(pte_set_fpn(e, f)) /\ ~InSwap(pte_set_fpn(e, f))
           /\ pte_set_fpn(e, f).present = 1
           /\ PAGING_PTE_FPN(pte_set_fpn(e, f)) = f
<1> DEFINE n == pte_set_fpn(e, f)
           low == e.low - (e.low % FpnRange) + (f % FpnRange)
           W == FpnRange
           N == SwpTypRange * SwpOffRange
<1>1. /\ e.low \in Nat /\ e.low < N /\ f \in Nat /\ f < W
      /\ W = 8192 /\ N = 67108864
  <2>1. e.low \in 0..N - 1 /\ N \in Nat /\ W \in Nat
    BY WidthFacts DEF Ptes
  <2>2. W = 8192 /\ N = 67108864
    BY SMT DEF FpnRange, SwpTypRange, SwpOffRange
  <2> HIDE DEF W, N
  <2>3. e.low \in Nat /\ e.low < N
    BY <2>1
  <2>4. f \in Nat /\ f < W
    BY <2>1 DEF W
  <2> QED BY <2>2, <2>3, <2>4
<1> HIDE DEF W, N
<1>2. low \in Nat /\ low < N /\ low % W = f
  <2>1. low = e.low - (e.low % 8192) + (f % 8192)
    BY <1>1, SMT DEF W
  <2>2. ASSUME NEW l \in Nat, l < 67108864
        PROVE  LET m == l - (l % 8192) + (f % 8192) IN
               m \in Nat /\ m < 67108864 /\ m % 8192 = f
    <3>1. PICK k \in Nat : l = 8192 * k + (l % 8192)
      <4>1. l \div 8192 \in Nat /\ l = 8192 * (l \div 8192) + (l % 8192)
        BY SMT
      <4> QED BY <4>1
    <3>2. f % 8192 = f /\ k < 8192
      BY <1>1, <2>2, <3>1, SMT
    <3>3. l - (l % 8192) + (f % 8192) = 8192 * k + f
      BY <1>1, <3>1, <3>2, SMT
    <3>4. (8192 * k + f) % 8192 = f /\ 8192 * k + f \in Nat /\ 8192 * k + f < 67108864
      BY <1>1, <3>2, SMT
    <3> QED BY <3>3, <3>4, SMT
  <2> HIDE DEF low
  <2> QED BY <1>1, <2>1, <2>2, SMT
<1>3. n = [e EXCEPT !.present = 1, !.swapped = 0, !.low = low]
  BY Zenon DEF pte_set_fpn
<1> HIDE DEF n, low
<1>4. n \in Ptes /\ n.present = 1 /\ n.swapped = 0 /\ n.low = low
  <2>1. 0 \in {0, 1}
    OBVIOUS
  <2> QED BY <1>2, <1>3, <2>1, EntryFacts, Zenon DEF N
<1>5. PAGING_PTE_FPN(n) = f
  BY <1>2, <1>4, Zenon DEF PAGING_PTE_FPN, W
<1> QED BY <1>4, <1>5 DEF n, InRam, InSwap

(* An entry given a swap frame names it, and its page is in swap.          *)
LEMMA SetSwapFacts ==
    ASSUME NEW e \in Ptes, NEW s \in 0..SwpOffRange - 1, NEW typ \in Nat
    PROVE  /\ pte_set_swap(e, typ, s) \in Ptes
           /\ ~InRam(pte_set_swap(e, typ, s)) /\ InSwap(pte_set_swap(e, typ, s))
           /\ pte_set_swap(e, typ, s).present = 1
           /\ PAGING_PTE_SWP(pte_set_swap(e, typ, s)) = s
<1> DEFINE n == pte_set_swap(e, typ, s)
           low == (typ % SwpTypRange) + SwpTypRange * (s % SwpOffRange)
           T == SwpTypRange
           R == SwpOffRange
<1>1. s \in Nat /\ s < R /\ R \in Nat \ {0} /\ T = 32
  <2>1. R \in Nat \ {0} /\ T = 32
    BY WidthFacts, SMT DEF SwpTypRange
  <2> HIDE DEF T, R
  <2>2. s \in Nat /\ s < R
    BY <2>1, SMT DEF R
  <2> QED BY <2>1, <2>2
<1> HIDE DEF T, R
<1>2. low \in Nat /\ low < T * R /\ low \div T = s
  <2>1. low = (typ % T) + T * (s % R)
    BY DEF T, R
  <2>2. s % R = s /\ typ % T \in 0..31
    BY <1>1
  <2> QED BY <1>1, <2>1, <2>2
<1>3. n = [e EXCEPT !.present = 1, !.swapped = 1, !.low = low]
  BY Zenon DEF pte_set_swap
<1> HIDE DEF n, low
<1>4. n \in Ptes /\ n.present = 1 /\ n.swapped = 1 /\ n.low = low
  <2>1. 1 \in {0, 1}
    OBVIOUS
  <2> QED BY <1>2, <1>3, <2>1, EntryFacts, Zenon DEF T, R
<1>5. PAGING_PTE_SWP(n) = s
  BY <1>2, <1>4, Zenon DEF PAGING_PTE_SWP, T
<1> QED BY <1>4, <1>5 DEF n, InRam, InSwap

LEMMA NoPteFacts == /\ NoPte \in Ptes /\ ~InRam(NoPte) /\ ~InSwap(NoPte)
                    /\ PAGING_PTE_SWP(NoPte) = 0 /\ NoPte.present = 0
<1>1. 0 \in 0..SwpTypRange * SwpOffRange - 1 /\ 0 \div SwpTypRange = 0
  BY WidthFacts
<1> QED BY <1>1 DEF NoPte, Ptes, InRam, InSwap, PAGING_PTE_SWP

LEMMA FpnIsNat == ASSUME NEW e \in Ptes
                  PROVE  PAGING_PTE_FPN(e) \in Nat
<1>1. e.low \in Nat /\ FpnRange \in Nat \ {0}
  BY WidthFacts DEF Ptes
<1> QED BY <1>1 DEF PAGING_PTE_FPN

(* The locals of a thread.                                                 *)
Locals == [rgid : Rgids \cup {None}, size : Nat, need : Nat, frames : Seq(Ram),
           page : Pages, victim : Pages, head : Seq(Swap), fpn : Nat]

LEMMA NoLocalFacts == NoLocal \in Locals /\ NoLocal.frames = << >>
  BY ConstantFacts DEF NoLocal, Locals

-------------------------------------------------------------------------------
(* Nobody touches what belongs to another process.                         *)

Same(q) == /\ pgd'[q] = pgd[q] /\ fifo_pgn'[q] = fifo_pgn[q]
           /\ freerg'[q] = freerg[q] /\ symrgtbl'[q] = symrgtbl[q]
           /\ sbrk'[q] = sbrk[q] /\ live'[q] = live[q] /\ mapped'[q] = mapped[q]
           /\ pc'[q] = pc[q] /\ local'[q] = local[q]

LEMMA OthersUntouched ==
    ASSUME TypeOK, NEW p \in Procs, NEW q \in Procs, q # p, Call(p) \/ Step(p)
    PROVE  Same(q)
<1> USE DEF TypeOK, Same, Goto, devVars, areaVars, pageVars, lostVars
<1>1. ASSUME NEW r \in Rgids, NEW size \in Sizes, AllocFits(p, r, size) PROVE Same(q)
  BY <1>1 DEF AllocFits, TakeRegion
<1>2. ASSUME NEW r \in Rgids, NEW size \in Sizes, AllocGrows(p, r, size) PROVE Same(q)
  BY <1>2 DEF AllocGrows
<1>3. ASSUME NEW r \in Rgids, Free(p, r) PROVE Same(q)
  BY <1>3 DEF Free
<1>4. ASSUME NEW g \in Pages, Access(p, g) PROVE Same(q)
  BY <1>4 DEF Access
<1>5. CASE Exit(p)
  BY <1>5 DEF Exit
<1>6. CASE GetFrame(p)
  BY <1>6 DEF GetFrame
<1>7. CASE FindVictim(p)
  BY <1>7 DEF FindVictim
<1>8. CASE FindVictimDies(p) \/ UnlinkDies(p)
  BY <1>8 DEF FindVictimDies, UnlinkDies
<1>9. CASE AllocFails(p)
  BY <1>9 DEF AllocFails, Return
<1>10. CASE ReadSwapHead(p)
  BY <1>10 DEF ReadSwapHead
<1>11. CASE Evict(p)
  BY <1>11 DEF Evict
<1>12. CASE MapRange(p)
  BY <1>12 DEF MapRange, Return, TakeRegion
<1>13. CASE ReadByte(p) \/ WriteByte(p) \/ AccessDies(p) \/ FaultFails(p)
  BY <1>13 DEF ReadByte, WriteByte, AccessDies, FaultFails
<1>14. CASE FaultPage(p) \/ FaultPageNoSwap(p)
  BY <1>14 DEF FaultPage, FaultPageNoSwap, FaultSwaps
<1> QED BY <1>1, <1>2, <1>3, <1>4, <1>5, <1>6, <1>7, <1>8, <1>9, <1>10, <1>11,
           <1>12, <1>13, <1>14 DEF Call, Step

(* What a process does not touch keeps its part of the invariant.          *)
LEMMA ProcAtSame ==
    ASSUME NEW q \in Procs, ProcAt(q), Same(q)
    PROVE  /\ ProcAt(q)' /\ RamOf(q)' = RamOf(q) /\ SwapOf(q)' = SwapOf(q)
           /\ Taking(q)' = Taking(q)
           /\ \A g \in Pages : /\ Online(q, g)' <=> Online(q, g)
                               /\ Swapped(q, g)' <=> Swapped(q, g)
<1> USE DEF Same, Online, Swapped
<1>1. LocalAt(q)'
  BY DEF ProcAt, LocalAt, Collected
<1>2. AreaAt(q)' /\ BelowAt(q)' /\ FifoAt(q)'
  BY DEF ProcAt, AreaAt, BelowAt, FifoAt, Brk, Named
<1>3. Careful => DisjointAt(q)'
  BY DEF ProcAt, DisjointAt
<1>4. RamOf(q)' = RamOf(q) /\ SwapOf(q)' = SwapOf(q) /\ Taking(q)' = Taking(q)
  BY DEF RamOf, SwapOf, Taking
<1> QED BY <1>1, <1>2, <1>3, <1>4 DEF ProcAt

LEMMA OthersKept ==
    ASSUME MInv, NEW p \in Procs, Call(p) \/ Step(p)
    PROVE  \A q \in Procs \ {p} : /\ Same(q) /\ ProcAt(q)'
                                  /\ RamOf(q)' = RamOf(q) /\ SwapOf(q)' = SwapOf(q)
                                  /\ Taking(q)' = Taking(q)
<1>1. TypeOK /\ \A q \in Procs : ProcAt(q)
  BY DEF MInv, ProcInv
<1>2. \A q \in Procs \ {p} : Same(q)
  BY <1>1, OthersUntouched
<1> QED BY <1>1, <1>2, ProcAtSame

LEMMA TypeFacts ==
    ASSUME TypeOK, NEW p \in Procs
    PROVE  /\ freerg[p] \in Seq(Regions) /\ symrgtbl[p] \in [Rgids -> Regions]
           /\ live[p] \in SUBSET Rgids /\ sbrk[p] \in Nat
           /\ mapped[p] \in SUBSET Pages /\ pgd[p] \in [Pages -> Ptes]
           /\ fifo_pgn[p] \in Seq(Pages) /\ mram_free \in Seq(Ram) /\ mswp_free \in Seq(Swap)
           /\ local \in [Procs -> Locals] /\ local[p] \in Locals
<1>1. sbrk[p] \in Nat
  <2>1. HeapPages * PAGING_PAGESZ \in Nat
    BY ConstantFacts
  <2> QED BY <2>1 DEF TypeOK
<1> QED BY <1>1 DEF TypeOK, Locals

-------------------------------------------------------------------------------
(* Regions taken from a list and put back into it.                         *)

LEMMA TakeKeeps ==
    ASSUME NEW list \in Seq(Regions), NEW size \in Nat, HasFit(list, size),
           NEW table \in [Rgids -> Regions], NEW used \in SUBSET Rgids, NEW r \in Rgids
    PROVE  LET new == [table EXCEPT ![r] = Taken(list, size)]
               after == AfterTake(list, size) IN
           /\ new \in [Rgids -> Regions] /\ after \in Seq(Regions)
           /\ \A top \in Nat : (\A i \in 1..Len(list) : list[i].end <= top)
                 => new[r].end <= top /\ \A j \in 1..Len(after) : after[j].end <= top
           /\ Apart(table, used, list) => Apart(new, used \cup {r}, after)
<1> DEFINE new == [table EXCEPT ![r] = Taken(list, size)]
           after == AfterTake(list, size)
           i == FirstFit(list, size)
           K(j) == Source(list, size, j)
<1>1. /\ Taken(list, size) \in Regions
      /\ Taken(list, size) = Region(list[i].start, list[i].start + size)
      /\ i \in 1..Len(list) /\ list[i].start + size <= list[i].end
      /\ after \in Seq(Regions)
      /\ \A j \in 1..Len(after) :
           /\ K(j) \in 1..Len(list)
           /\ K(j) # i => after[j] = list[K(j)]
           /\ K(j) = i => after[j] = Region(list[i].start + size, list[i].end)
      /\ \A j, m \in 1..Len(after) : K(j) = K(m) => j = m
  BY TakeFacts
<1>2. /\ new \in [Rgids -> Regions] /\ new[r] = Taken(list, size)
      /\ \A q \in Rgids \ {r} : new[q] = table[q]
  BY <1>1
<1> HIDE DEF new, after, i, K
<1>3. \A k \in 1..Len(list) : list[k] \in Regions
  OBVIOUS
<1>4. \A a, b \in Nat : Region(a, b).start = a /\ Region(a, b).end = b
  BY DEF Region
<1>5. list[i].start \in Nat /\ list[i].end \in Nat /\ list[i].start + size \in Nat
  BY <1>1, <1>3 DEF Regions
<1>6. new[r].start = list[i].start /\ new[r].end = list[i].start + size
  BY <1>1, <1>2, <1>4, <1>5
<1>7. \A j \in 1..Len(after) :
         /\ after[j].end = list[K(j)].end
         /\ K(j) # i => after[j].start = list[K(j)].start
         /\ K(j) = i => after[j].start = list[i].start + size
  BY <1>1, <1>4, <1>5
<1>8. ASSUME NEW top \in Nat, \A k \in 1..Len(list) : list[k].end <= top
      PROVE  new[r].end <= top /\ \A j \in 1..Len(after) : after[j].end <= top
  <2>1. list[i].end <= top
    BY <1>1, <1>8
  <2>2. new[r].end <= top
    BY <1>1, <1>5, <1>6, <2>1
  <2>3. \A j \in 1..Len(after) : after[j].end <= top
    BY <1>1, <1>7, <1>8
  <2> QED BY <2>2, <2>3
<1>9. Bytes(new[r]) \subseteq Bytes(list[i])
  BY <1>1, <1>5, <1>6 DEF Bytes
<1>10. ASSUME NEW j \in 1..Len(after)
       PROVE  /\ K(j) \in 1..Len(list) /\ Bytes(after[j]) \subseteq Bytes(list[K(j)])
              /\ K(j) = i => Bytes(new[r]) \cap Bytes(after[j]) = {}
  <2> DEFINE k == K(j)
  <2>1. /\ k \in 1..Len(list) /\ after[j].end = list[k].end
        /\ k # i => after[j].start = list[k].start
        /\ k = i => after[j].start = list[i].start + size
        /\ list[k].start \in Nat /\ list[k].end \in Nat
    BY <1>1, <1>3, <1>7 DEF Regions
  <2> HIDE DEF k
  <2>2. Bytes(after[j]) \subseteq Bytes(list[k])
    <3>1. CASE k = i
      BY <1>5, <2>1, <3>1 DEF Bytes
    <3>2. CASE k # i
      BY <2>1, <3>2 DEF Bytes
    <3> QED BY <3>1, <3>2
  <2>3. ASSUME k = i PROVE Bytes(new[r]) \cap Bytes(after[j]) = {}
    <3> DEFINE a == list[i].start + size
               b == list[k].end
               c == list[i].start
    <3>1. /\ Bytes(new[r]) = c..a - 1 /\ Bytes(after[j]) = a..b - 1
          /\ a \in Nat /\ b \in Nat /\ c \in Nat
      BY <1>5, <1>6, <2>1, <2>3 DEF Bytes
    <3> HIDE DEF a, b, c
    <3>2. \A x : ~(x \in c..a - 1 /\ x \in a..b - 1)
      BY <3>1
    <3> QED BY <3>1, <3>2
  <2> QED BY <2>1, <2>2, <2>3 DEF k
<1>11. ASSUME Apart(table, used, list) PROVE Apart(new, used \cup {r}, after)
  <2>1. \A q, x \in used \cup {r} : q # x => Bytes(new[q]) \cap Bytes(new[x]) = {}
    BY <1>1, <1>2, <1>9, <1>11 DEF Apart
  <2>2. ASSUME NEW j \in 1..Len(after), NEW m \in 1..Len(after), j # m
        PROVE  Bytes(after[j]) \cap Bytes(after[m]) = {}
    <3>1. K(j) # K(m)
      BY <1>1, <2>2
    <3>2. Bytes(list[K(j)]) \cap Bytes(list[K(m)]) = {}
      BY <1>10, <1>11, <3>1 DEF Apart
    <3> QED BY <1>10, <3>2
  <2>3. ASSUME NEW q \in used \cup {r}, NEW j \in 1..Len(after)
        PROVE  Bytes(new[q]) \cap Bytes(after[j]) = {}
    <3>1. CASE q # r
      <4>1. Bytes(table[q]) \cap Bytes(list[K(j)]) = {} /\ new[q] = table[q]
        BY <1>2, <1>10, <1>11, <3>1 DEF Apart
      <4> QED BY <1>10, <4>1
    <3>2. CASE q = r /\ K(j) # i
      <4>1. Bytes(list[i]) \cap Bytes(list[K(j)]) = {}
        BY <1>1, <1>10, <1>11, <3>2 DEF Apart
      <4> QED BY <1>9, <1>10, <3>2, <4>1
    <3>3. CASE q = r /\ K(j) = i
      BY <1>10, <3>3
    <3> QED BY <3>1, <3>2, <3>3
  <2> QED BY <2>1, <2>2, <2>3 DEF Apart
<1> QED BY <1>1, <1>2, <1>8, <1>11 DEF new, after

LEMMA PutKeeps ==
    ASSUME NEW list \in Seq(Regions), NEW table \in [Rgids -> Regions],
           NEW used \in SUBSET Rgids, NEW rg \in Regions, Apart(table, used, list),
           \A r \in used : Bytes(table[r]) \cap Bytes(rg) = {},
           \A i \in 1..Len(list) : Bytes(list[i]) \cap Bytes(rg) = {}
    PROVE  Apart(table, used, <<rg>> \o list)
<1> DEFINE t == <<rg>> \o list
<1>1. /\ Len(t) \in Nat /\ t[1] = rg
      /\ \A i \in 2..Len(t) : t[i] = list[i - 1] /\ i - 1 \in 1..Len(list)
  <2>1. Len(list) \in Nat /\ Len(t) = Len(list) + 1
    OBVIOUS
  <2> HIDE DEF t
  <2>2. t[1] = rg /\ \A i \in 2..Len(t) : t[i] = list[i - 1]
    BY ConsFacts DEF t
  <2> QED BY <2>1, <2>2
<1> HIDE DEF t
<1>2. \A i \in 1..Len(t) : i = 1 \/ i \in 2..Len(t)
  BY <1>1
<1>3. \A r \in used, i \in 1..Len(t) : Bytes(table[r]) \cap Bytes(t[i]) = {}
  BY <1>1, <1>2 DEF Apart
<1>4. \A i, j \in 2..Len(t) : i # j => Bytes(t[i]) \cap Bytes(t[j]) = {}
  <2> SUFFICES ASSUME NEW i \in 2..Len(t), NEW j \in 2..Len(t), i # j
               PROVE  Bytes(t[i]) \cap Bytes(t[j]) = {}
    OBVIOUS
  <2>1. i - 1 # j - 1
    OBVIOUS
  <2> QED BY <1>1, <2>1 DEF Apart
<1>5. \A i \in 2..Len(t) : Bytes(t[i]) \cap Bytes(rg) = {}
  BY <1>1
<1>6. \A i, j \in 1..Len(t) : i # j => Bytes(t[i]) \cap Bytes(t[j]) = {}
  BY <1>1, <1>2, <1>4, <1>5
<1> QED BY <1>3, <1>6 DEF Apart, t

-------------------------------------------------------------------------------
(* RamOf and SwapOf, frame by frame.                                       *)
LEMMA FramesOf ==
    ASSUME NEW p \in Procs
    PROVE  /\ \A f : f \in RamOf(p) <=> \E g \in mapped[p] :
                        Online(p, g) /\ PAGING_PTE_FPN(pgd[p][g]) = f
           /\ \A s : s \in SwapOf(p) <=> \E g \in mapped[p] :
                        Swapped(p, g) /\ PAGING_PTE_SWP(pgd[p][g]) = s
  BY DEF RamOf, SwapOf

LEMMA FramesOfNext ==
    ASSUME NEW p \in Procs
    PROVE  /\ \A f : f \in RamOf(p)' <=> \E g \in mapped'[p] :
                        InRam(pgd'[p][g]) /\ PAGING_PTE_FPN(pgd'[p][g]) = f
           /\ \A s : s \in SwapOf(p)' <=> \E g \in mapped'[p] :
                        InSwap(pgd'[p][g]) /\ PAGING_PTE_SWP(pgd'[p][g]) = s
  BY DEF RamOf, SwapOf, Online, Swapped

(* The steps, one by one: first those that leave the frames where they are.*)

(* What DataStay says of a step of careful programs.                       *)
DataMoves == Careful => \A q \in Procs : \A g \in mapped[q] \cap mapped'[q] :
    \/ DataAt(q, g)' = DataAt(q, g)
    \/ DataAt(q, g)' = Mixed(q, g) /\ \E r \in Procs : StrayStore(r)

Kept(p) == TypeOK' /\ LockInv' /\ ProcAt(p)' /\ RamInv' /\ SwapInv' /\ DataMoves

(* Such a step keeps PagesPreserved if the data of new pages are theirs.   *)
LEMMA MovedArePreserved ==
    ASSUME MInv, Careful, DataMoves,
           \A q \in Procs : \A g \in mapped'[q] \ mapped[q] : DataAt(q, g)' \in DataOf(q, g)
    PROVE  PagesPreserved'
<1> SUFFICES ASSUME NEW q \in Procs, NEW g \in mapped'[q]
             PROVE  DataAt(q, g)' \in DataOf(q, g)
  BY DEF PagesPreserved, DataOf, Whole, Mixed
<1>1. CASE g \in mapped[q]
  <2>1. DataAt(q, g) \in DataOf(q, g)
    BY <1>1 DEF MInv, SwapInv, PagesPreserved
  <2>2. DataAt(q, g)' = DataAt(q, g) \/ DataAt(q, g)' = Mixed(q, g)
    BY <1>1 DEF DataMoves
  <2> QED BY <2>1, <2>2 DEF DataOf
<1> QED BY <1>1

(* A page a process mapped is in RAM or in swap, and its data there.       *)
LEMMA MappedIsSomewhere ==
    ASSUME MInv, Careful, NEW q \in Procs, NEW g \in mapped[q]
    PROVE  /\ DataAt(q, g) \in DataOf(q, g)
           /\ Online(q, g) => /\ PAGING_PTE_FPN(pgd[q][g]) \in RamOf(q)
                              /\ PAGING_PTE_FPN(pgd[q][g]) \in Ram
                              /\ DataAt(q, g) = ramHolds[PAGING_PTE_FPN(pgd[q][g])]
           /\ ~Online(q, g) => /\ Swapped(q, g)
                               /\ PAGING_PTE_SWP(pgd[q][g]) \in SwapOf(q)
                               /\ PAGING_PTE_SWP(pgd[q][g]) \in Swap
                               /\ DataAt(q, g) = swapHolds[PAGING_PTE_SWP(pgd[q][g])]
<1>1. /\ DataAt(q, g) \in DataOf(q, g) /\ RamOf(q) \subseteq Ram /\ SwapOf(q) \subseteq Swap
  BY DEF MInv, RamInv, RamSets, SwapInv, SwapSets, PagesPreserved
<1>2. ~Online(q, g) => Swapped(q, g)
  <2>1. pgd[q][g] \in Ptes /\ pgd[q][g].present = 1
    BY TypeFacts DEF MInv, ProcInv, ProcAt, AreaAt, TypeOK
  <2> QED BY <2>1 DEF Online, Swapped, InRam, InSwap, Ptes
<1>3. /\ Online(q, g) => PAGING_PTE_FPN(pgd[q][g]) \in RamOf(q)
      /\ Swapped(q, g) => PAGING_PTE_SWP(pgd[q][g]) \in SwapOf(q)
  BY FramesOf
<1> QED BY <1>1, <1>2, <1>3 DEF DataAt

LEMMA RamPagesStay ==
    ASSUME MInv, UNCHANGED <<pgd, mapped>>
    PROVE  RamApart' /\ \A q \in Procs : RamOf(q)' = RamOf(q) /\ SwapOf(q)' = SwapOf(q)
<1> USE DEF Online, Swapped
<1>1. RamApart'
  BY DEF MInv, RamInv, RamApart
<1>2. \A q \in Procs : RamOf(q)' = RamOf(q) /\ SwapOf(q)' = SwapOf(q)
  BY DEF RamOf, SwapOf
<1> QED BY <1>1, <1>2

LEMMA SwapStays ==
    ASSUME MInv, UNCHANGED <<mswp_free, ramHolds, swapHolds, pgd, mapped, lostSwap>>,
           \A q \in Procs : pc'[q] = "evict_unlink" =>
               \/ pc[q] = "evict_unlink" /\ local'[q].head = local[q].head
               \/ local'[q].head = mswp_free
    PROVE  SwapInv' /\ DataMoves
<1>1. Careful => SwapApart'
  BY DEF MInv, SwapInv, SwapApart, Swapped
<1>2. DataMoves
  BY DEF DataMoves, DataAt, Online
<1>3. Careful => PagesPreserved'
  BY <1>2, MovedArePreserved
<1>4. Careful => SwapSets'
  BY RamPagesStay DEF MInv, SwapInv, SwapSets
<1> QED BY <1>1, <1>2, <1>3, <1>4 DEF SwapInv

LEMMA FramesStay ==
    ASSUME MInv, UNCHANGED <<devVars, pgd, mapped, lostVars>>,
           \A q \in Procs : local'[q].frames = local[q].frames,
           \A q \in Procs : pc'[q] = "evict_unlink" =>
               \/ pc[q] = "evict_unlink" /\ local'[q].head = local[q].head
               \/ local'[q].head = mswp_free
    PROVE  RamInv' /\ SwapInv' /\ DataMoves
<1>1. \A q \in Procs : Taking(q)' = Taking(q)
  BY DEF Taking
<1>2. RamSets'
  BY <1>1, RamPagesStay DEF MInv, RamInv, RamSets, devVars, lostVars
<1> QED BY <1>2, RamPagesStay, SwapStays DEF RamInv, devVars, lostVars

LEMMA AllocFitsKeeps ==
    ASSUME MInv, NEW p \in Procs, NEW r \in Rgids, NEW size \in Sizes, AllocFits(p, r, size)
    PROVE  Kept(p)
<1> DEFINE table == symrgtbl[p]
           after == AfterTake(freerg[p], size)
           new == [table EXCEPT ![r] = Taken(freerg[p], size)]
<1>1. /\ UNCHANGED <<mmvm_lock, devVars, pageVars, sbrk, lostVars, local, crashed>>
      /\ mmvm_lock = None /\ HasFit(freerg[p], size) /\ pc[p] = "run" /\ UNCHANGED pc
      /\ symrgtbl' = [symrgtbl EXCEPT ![p] = new]
      /\ freerg' = [freerg EXCEPT ![p] = after]
      /\ live' = [live EXCEPT ![p] = @ \cup {r}]
  BY DEF AllocFits, Goto, TakeRegion, MInv, TypeOK
<1>2. /\ size \in Nat /\ freerg[p] \in Seq(Regions) /\ table \in [Rgids -> Regions]
      /\ live[p] \in SUBSET Rgids /\ sbrk[p] \in Nat
  BY ConstantFacts, TypeFacts DEF MInv
<1>3. /\ new \in [Rgids -> Regions] /\ after \in Seq(Regions)
      /\ (\A i \in 1..Len(freerg[p]) : freerg[p][i].end <= sbrk[p])
           => new[r].end <= sbrk[p] /\ \A j \in 1..Len(after) : after[j].end <= sbrk[p]
      /\ Apart(table, live[p], freerg[p]) => Apart(new, live[p] \cup {r}, after)
      /\ \A q \in Rgids \ {r} : new[q] = table[q]
  BY <1>1, <1>2, TakeKeeps
<1> HIDE DEF after, new
<1>4. TypeOK'
  BY <1>1, <1>3 DEF MInv, TypeOK, devVars, pageVars, lostVars
<1>5. LockInv' /\ RamInv' /\ SwapInv' /\ DataMoves
  BY <1>1, FramesStay DEF MInv, LockInv, pageVars
<1>6. symrgtbl'[p] = new /\ freerg'[p] = after /\ live'[p] = live[p] \cup {r}
  BY <1>1 DEF MInv, TypeOK
<1>7. LocalAt(p)' /\ AreaAt(p)' /\ FifoAt(p)'
  BY <1>1 DEF MInv, ProcInv, ProcAt, LocalAt, AreaAt, FifoAt, Brk, Allocating, Faulting,
              WithVictim, Online, pageVars
<1>8. BelowAt(p)'
  <2>1. /\ \A q \in Named(p) : table[q].end <= sbrk[p]
        /\ \A i \in 1..Len(freerg[p]) : freerg[p][i].end <= sbrk[p]
        /\ Named(p)' \subseteq Named(p) \cup {r} /\ Named(p) \subseteq Rgids
    BY <1>2, <1>6 DEF MInv, ProcInv, ProcAt, BelowAt, Named
  <2>2. \A q \in Named(p)' : new[q].end <= sbrk[p]
    BY <1>3, <2>1
  <2> QED BY <1>1, <1>3, <1>6, <2>1, <2>2 DEF BelowAt
<1>9. Careful => DisjointAt(p)'
  BY <1>3, <1>6 DEF MInv, ProcInv, ProcAt, DisjointAt
<1> QED BY <1>4, <1>5, <1>7, <1>8, <1>9 DEF Kept, ProcAt

LEMMA FreeKeeps ==
    ASSUME MInv, NEW p \in Procs, NEW r \in Rgids, Free(p, r)
    PROVE  Kept(p)
<1> DEFINE after == <<symrgtbl[p][r]>> \o freerg[p]
<1>1. /\ UNCHANGED <<mmvm_lock, devVars, pageVars, symrgtbl, sbrk, lostVars, local, crashed>>
      /\ mmvm_lock = None /\ pc[p] = "run" /\ UNCHANGED pc
      /\ Careful => r \in live[p]
      /\ freerg' = [freerg EXCEPT ![p] = after]
      /\ live' = [live EXCEPT ![p] = @ \ {r}]
  BY DEF Free, Goto, MInv, TypeOK
<1>2. /\ freerg[p] \in Seq(Regions) /\ symrgtbl[p] \in [Rgids -> Regions]
      /\ symrgtbl[p][r] \in Regions /\ live[p] \in SUBSET Rgids /\ sbrk[p] \in Nat
  BY TypeFacts DEF MInv
<1>3. /\ after \in Seq(Regions) /\ Len(after) = Len(freerg[p]) + 1
      /\ after[1] = symrgtbl[p][r] /\ \A i \in 2..Len(after) : after[i] = freerg[p][i - 1]
  BY <1>2, ConsFacts
<1>4. Careful => Apart(symrgtbl[p], live[p] \ {r}, after)
  <2> SUFFICES ASSUME Careful PROVE Apart(symrgtbl[p], live[p] \ {r}, after)
    OBVIOUS
  <2>1. r \in live[p] /\ Apart(symrgtbl[p], live[p], freerg[p])
    BY <1>1 DEF MInv, ProcInv, ProcAt, DisjointAt
  <2>2. /\ Apart(symrgtbl[p], live[p] \ {r}, freerg[p])
        /\ \A q \in live[p] \ {r} : Bytes(symrgtbl[p][q]) \cap Bytes(symrgtbl[p][r]) = {}
        /\ \A i \in 1..Len(freerg[p]) : Bytes(freerg[p][i]) \cap Bytes(symrgtbl[p][r]) = {}
    BY <2>1 DEF Apart
  <2> QED BY <1>2, <2>2, PutKeeps
<1> HIDE DEF after
<1>5. TypeOK'
  BY <1>1, <1>3 DEF MInv, TypeOK, devVars, pageVars, lostVars
<1>6. LockInv' /\ RamInv' /\ SwapInv' /\ DataMoves
  BY <1>1, FramesStay DEF MInv, LockInv, pageVars
<1>7. freerg'[p] = after /\ live'[p] = live[p] \ {r}
  BY <1>1 DEF MInv, TypeOK
<1>8. LocalAt(p)' /\ AreaAt(p)' /\ FifoAt(p)'
  BY <1>1 DEF MInv, ProcInv, ProcAt, LocalAt, AreaAt, FifoAt, Brk, Allocating, Faulting,
              WithVictim, Online, pageVars
<1>9. BelowAt(p)'
  <2>1. /\ \A q \in Named(p) : symrgtbl[p][q].end <= sbrk[p]
        /\ \A i \in 1..Len(freerg[p]) : freerg[p][i].end <= sbrk[p]
        /\ r \in Named(p) /\ Named(p)' \subseteq Named(p)
    BY <1>1, <1>7 DEF MInv, ProcInv, ProcAt, BelowAt, Named
  <2>2. \A i \in 1..Len(after) : after[i].end <= sbrk[p]
    <3> SUFFICES ASSUME NEW i \in 1..Len(after) PROVE after[i].end <= sbrk[p]
      OBVIOUS
    <3>1. i = 1 \/ (i \in 2..Len(after) /\ i - 1 \in 1..Len(freerg[p]))
      BY <1>2, <1>3
    <3> QED BY <1>3, <2>1, <3>1
  <2> QED BY <1>1, <1>7, <2>1, <2>2 DEF BelowAt
<1>10. Careful => DisjointAt(p)'
  BY <1>1, <1>4, <1>7 DEF DisjointAt
<1> QED BY <1>5, <1>6, <1>8, <1>9, <1>10 DEF Kept, ProcAt

(* Every address below the break is on a mapped page.                      *)
LEMMA BelowIsMapped ==
    ASSUME TypeOK, NEW p \in Procs, AreaAt(p), NEW a \in Nat, a < sbrk[p]
    PROVE  Page(a) \in mapped[p] /\ pgd[p][Page(a)].present = 1 /\ Brk(p) > 0
<1>1. sbrk[p] \in Nat
  BY TypeFacts
<1>2. Brk(p) \in Nat /\ sbrk[p] = Brk(p) * PAGING_PAGESZ
  BY <1>1, PageFacts DEF AreaAt, Brk
<1>3. Page(a) \in Nat /\ Page(a) < Brk(p)
  BY <1>2, PageFacts
<1>4. Page(a) \in 0..Brk(p) - 1
  BY <1>2, <1>3
<1> QED BY <1>2, <1>3, <1>4 DEF AreaAt

LEMMA NamedIsMapped ==
    ASSUME MInv, NEW p \in Procs, NEW g \in PagesOf(p, Named(p))
    PROVE  g \in mapped[p]
<1>1. PICK r \in Named(p) : \E a \in Bytes(symrgtbl[p][r]) : g = Page(a)
  BY DEF PagesOf
<1>2. PICK a \in Bytes(symrgtbl[p][r]) : g = Page(a)
  BY <1>1
<1>3. /\ TypeOK /\ AreaAt(p) /\ symrgtbl[p][r].end <= sbrk[p]
      /\ sbrk[p] \in Nat /\ symrgtbl[p][r] \in Regions
  BY TypeFacts DEF MInv, ProcInv, ProcAt, BelowAt, Named
<1>4. a \in Nat /\ a < sbrk[p]
  BY <1>3 DEF Bytes, Regions
<1> QED BY <1>2, <1>3, <1>4, BelowIsMapped

LEMMA AllocGrowsKeeps ==
    ASSUME MInv, NEW p \in Procs, NEW r \in Rgids, NEW size \in Sizes, AllocGrows(p, r, size)
    PROVE  Kept(p)
<1> DEFINE l == [NoLocal EXCEPT !.rgid = r, !.size = size, !.need = PagesFor(size)]
<1>1. /\ UNCHANGED <<devVars, pageVars, areaVars, lostVars, crashed>>
      /\ mmvm_lock = None /\ ~HasFit(freerg[p], size)
      /\ sbrk[p] + Aligned(size) <= HeapPages * PAGING_PAGESZ
      /\ pc[p] = "run" /\ pc' = [pc EXCEPT ![p] = "grow"]
      /\ mmvm_lock' = p /\ local' = [local EXCEPT ![p] = l]
  BY DEF AllocGrows, Goto
<1>2. /\ l \in Locals /\ l.frames = << >> /\ l.rgid = r /\ l.size = size
      /\ l.need = PagesFor(size) /\ PagesFor(size) \in Nat
  <2>1. size \in Nat /\ PagesFor(size) \in Nat
    BY ConstantFacts, PagesForFacts
  <2> QED BY <2>1, NoLocalFacts DEF Locals
<1> HIDE DEF l
<1>3. TypeOK'
  BY <1>1, <1>2, TypeFacts DEF MInv, TypeOK, Locals, devVars, areaVars, pageVars, lostVars
<1>4. /\ pc'[p] = "grow" /\ local'[p] = l /\ LocalAt(p) /\ local[p].frames = << >>
      /\ \A q \in Procs \ {p} : pc'[q] = pc[q] /\ local'[q] = local[q]
  BY <1>1 DEF MInv, TypeOK, ProcInv, ProcAt, LocalAt, Allocating
<1>5. LockInv'
  BY <1>1, <1>4, ConstantFacts DEF MInv, LockInv, Allocating
<1>6. RamInv' /\ SwapInv' /\ DataMoves
  <2>1. \A q \in Procs : local'[q].frames = local[q].frames
    BY <1>2, <1>4
  <2> QED BY <1>1, <1>4, <2>1, FramesStay DEF pageVars
<1>7. Collected(p)'
  <2>1. l.need + Len(l.frames) = PagesFor(size)
    BY <1>2
  <2> QED BY <1>1, <1>2, <1>4, <2>1 DEF Collected, areaVars
<1>8. LocalAt(p)'
  BY <1>4, <1>7 DEF LocalAt, Allocating, Faulting, WithVictim
<1>9. AreaAt(p)' /\ FifoAt(p)' /\ BelowAt(p)' /\ (Careful => DisjointAt(p)')
  BY <1>1 DEF MInv, ProcInv, ProcAt, AreaAt, FifoAt, BelowAt, DisjointAt, Brk, Named,
              Online, pageVars, areaVars
<1> QED BY <1>3, <1>5, <1>6, <1>8, <1>9 DEF Kept, ProcAt

(* A thread that goes on without a change of its area or its pages.        *)
LEMMA AreaStays ==
    ASSUME MInv, NEW p \in Procs, UNCHANGED <<areaVars, pgd, mapped>>
    PROVE  /\ AreaAt(p)' /\ BelowAt(p)' /\ (Careful => DisjointAt(p)')
           /\ UNCHANGED fifo_pgn => FifoAt(p)'
  BY DEF MInv, ProcInv, ProcAt, AreaAt, FifoAt, BelowAt, DisjointAt, Brk, Named,
         Online, areaVars

LEMMA AccessKeeps ==
    ASSUME MInv, NEW p \in Procs, NEW g \in Pages, Access(p, g)
    PROVE  Kept(p)
<1> DEFINE f == PAGING_PTE_FPN(pgd[p][g])
           l == [NoLocal EXCEPT !.page = g, !.fpn = f]
<1>1. /\ UNCHANGED <<mmvm_lock, devVars, pageVars, areaVars, lostVars, crashed>>
      /\ g \in Reachable(p) /\ pc[p] = "run"
      /\ \/ pgd[p][g].present = 1 /\ pc' = [pc EXCEPT ![p] = "io"]
         \/ pgd[p][g].present = 0 /\ pc' = [pc EXCEPT ![p] = "fault"]
      /\ local' = [local EXCEPT ![p] = l]
  BY DEF Access, Goto
<1>2. l \in Locals /\ l.frames = << >> /\ l.page = g /\ l.fpn = f
  <2>1. f \in Nat
    BY FpnIsNat, TypeFacts DEF MInv
  <2> HIDE DEF f
  <2> QED BY <2>1, NoLocalFacts DEF Locals
<1> HIDE DEF l, f
<1>3. TypeOK'
  BY <1>1, <1>2, TypeFacts DEF MInv, TypeOK, Locals, devVars, areaVars, pageVars, lostVars
<1>4. /\ pc'[p] \in {"io", "fault"} /\ local'[p] = l /\ local[p].frames = << >>
      /\ \A q \in Procs \ {p} : pc'[q] = pc[q] /\ local'[q] = local[q]
      /\ pc'[p] = "io" => pgd[p][g].present = 1
      /\ pc'[p] = "fault" => pgd[p][g].present = 0
  BY <1>1 DEF MInv, TypeOK, ProcInv, ProcAt, LocalAt, Allocating
<1>5. LockInv'
  BY <1>1, <1>4 DEF MInv, LockInv, Allocating
<1>6. RamInv' /\ SwapInv' /\ DataMoves
  <2>1. \A q \in Procs : local'[q].frames = local[q].frames
    BY <1>2, <1>4
  <2> QED BY <1>1, <1>4, <2>1, FramesStay DEF pageVars
<1>7. AreaAt(p) /\ TypeOK
  BY DEF MInv, ProcInv, ProcAt
<1>8. g \in mapped[p] \/ (~Careful /\ g = 0) \/ (~Careful /\ g \in WildPages)
  BY <1>1, NamedIsMapped DEF Reachable
<1>9. g \notin mapped[p] => ~Careful /\ (g \in WildPages \/ mapped[p] = {})
  <2>1. Brk(p) \in Nat
    BY <1>7, TypeFacts, PageFacts DEF Brk
  <2>2. Brk(p) > 0 => 0 \in mapped[p]
    BY <1>7, <2>1 DEF AreaAt
  <2> QED BY <1>7, <1>8, <2>1, <2>2 DEF AreaAt
<1>10. pgd[p][g].present = 1 => g \in mapped[p]
  BY <1>7, <1>9, NoPteFacts DEF AreaAt
<1>11. pgd[p][g].present = 0 => g \notin mapped[p]
  BY <1>7 DEF AreaAt
<1>12. LocalAt(p)'
  BY <1>1, <1>2, <1>4, <1>9, <1>10, <1>11
     DEF LocalAt, Allocating, Faulting, WithVictim, f, pageVars
<1> QED BY <1>1, <1>3, <1>5, <1>6, <1>12, AreaStays DEF Kept, ProcAt, pageVars

LEMMA CallEndsKeeps ==
    ASSUME MInv, NEW p \in Procs, ReadByte(p) \/ FaultFails(p)
    PROVE  Kept(p)
<1>1. /\ UNCHANGED <<mmvm_lock, devVars, pageVars, areaVars, lostVars, crashed>>
      /\ pc[p] \in {"io", "fault"} /\ pc' = [pc EXCEPT ![p] = "run"]
      /\ local' = [local EXCEPT ![p] = NoLocal]
  BY DEF ReadByte, FaultFails, Goto
<1>2. TypeOK'
  BY <1>1, NoLocalFacts, TypeFacts
     DEF MInv, TypeOK, Locals, devVars, areaVars, pageVars, lostVars
<1>3. /\ pc'[p] = "run" /\ local'[p].frames = << >> /\ local[p].frames = << >>
      /\ \A q \in Procs \ {p} : pc'[q] = pc[q] /\ local'[q] = local[q]
  BY <1>1, NoLocalFacts DEF MInv, TypeOK, ProcInv, ProcAt, LocalAt, Allocating
<1>4. LockInv'
  BY <1>1, <1>3 DEF MInv, LockInv, Allocating
<1>5. RamInv' /\ SwapInv' /\ DataMoves
  <2>1. \A q \in Procs : local'[q].frames = local[q].frames
    BY <1>3
  <2> QED BY <1>1, <1>3, <2>1, FramesStay DEF pageVars
<1>6. LocalAt(p)'
  BY <1>3 DEF LocalAt, Allocating, Faulting, WithVictim
<1> QED BY <1>1, <1>2, <1>4, <1>5, <1>6, AreaStays DEF Kept, ProcAt, pageVars

(* A byte stored through the entry of a page in RAM goes to its own frame. *)
LEMMA WriteByteKeeps ==
    ASSUME MInv, NEW p \in Procs, WriteByte(p)
    PROVE  Kept(p)
<1> DEFINE f == local[p].fpn
           h == local[p].page
<1>1. /\ UNCHANGED <<mmvm_lock, mram_free, mswp_free, swapHolds, pageVars, areaVars,
                     lostVars, crashed>>
      /\ pc[p] = "io" /\ pc' = [pc EXCEPT ![p] = "run"]
      /\ local' = [local EXCEPT ![p] = NoLocal]
      /\ ramHolds' = [x \in Ram |-> IF x = f THEN Stored(ramHolds[x], p, h) ELSE ramHolds[x]]
  BY DEF WriteByte, Goto
<1>2. ASSUME NEW data \in Contents PROVE Stored(data, p, h) \in Contents
  BY <1>2 DEF Stored, Contents, Mixed
<1>3. ramHolds' \in [Ram -> Contents]
  <2>1. ramHolds \in [Ram -> Contents]
    BY DEF MInv, TypeOK
  <2>2. \A x \in Ram : ramHolds[x] \in Contents
    BY <2>1
  <2> HIDE DEF f, h
  <2> QED BY <1>1, <1>2, <2>2
<1>4. TypeOK'
  BY <1>1, <1>3, NoLocalFacts, TypeFacts
     DEF MInv, TypeOK, Locals, areaVars, pageVars, lostVars
<1>5. /\ pc'[p] = "run" /\ local'[p].frames = << >> /\ local[p].frames = << >>
      /\ \A q \in Procs \ {p} : pc'[q] = pc[q] /\ local'[q] = local[q]
      /\ \A q \in Procs : local'[q].frames = local[q].frames
  BY <1>1, NoLocalFacts DEF MInv, TypeOK, ProcInv, ProcAt, LocalAt, Allocating
<1>6. LockInv'
  BY <1>1, <1>5 DEF MInv, LockInv, Allocating
<1>7. /\ RamApart' /\ \A q \in Procs : /\ RamOf(q)' = RamOf(q) /\ SwapOf(q)' = SwapOf(q)
                                       /\ Taking(q)' = Taking(q)
  BY <1>1, <1>5, RamPagesStay DEF pageVars, Taking
<1>8. RamInv'
  BY <1>1, <1>5, <1>7 DEF MInv, RamInv, RamSets, lostVars
<1>9. DataMoves
  <2> SUFFICES ASSUME Careful, NEW q \in Procs, NEW g \in mapped[q],
                      DataAt(q, g)' # DataAt(q, g)
               PROVE  DataAt(q, g)' = Mixed(q, g) /\ Swapped(p, h)
    BY DEF DataMoves, StrayStore
  <2> DEFINE x == PAGING_PTE_FPN(pgd[q][g])
  <2>1. Online(q, g) /\ x = f
    <3>1. pgd' = pgd /\ swapHolds' = swapHolds
      BY <1>1 DEF pageVars
    <3>2. Online(q, g)
      BY <3>1 DEF DataAt, Online
    <3>3. x \in Ram
      BY <3>2, MappedIsSomewhere
    <3> QED BY <1>1, <3>1, <3>2, <3>3 DEF DataAt, Online
  <2>2. /\ x \in Ram /\ DataAt(q, g) = ramHolds[x] /\ ramHolds[x] \in DataOf(q, g)
        /\ DataAt(q, g)' = Stored(ramHolds[x], p, h)
    <3>1. x \in Ram /\ DataAt(q, g) = ramHolds[x] /\ ramHolds[x] \in DataOf(q, g)
      BY <2>1, MappedIsSomewhere
    <3>2. DataAt(q, g)' = ramHolds'[x]
      BY <1>1, <2>1 DEF DataAt, Online, pageVars
    <3> QED BY <1>1, <2>1, <3>1, <3>2
  <2>3. DataAt(q, g)' = Mixed(q, g)
    BY <2>2 DEF Stored, DataOf, Whole, Mixed
  <2>4. q # p \/ g # h
    BY <2>2 DEF Stored
  <2>5. h \in mapped[p] /\ (Online(p, h) => f = PAGING_PTE_FPN(pgd[p][h]))
    BY <1>1 DEF MInv, ProcInv, ProcAt, LocalAt
  <2>6. ~Online(p, h)
    BY <2>1, <2>4, <2>5 DEF MInv, RamInv, RamApart
  <2>7. Swapped(p, h)
    BY <2>5, <2>6, MappedIsSomewhere
  <2> QED BY <2>3, <2>7
<1>10. SwapInv'
  <2> SUFFICES ASSUME Careful PROVE SwapApart' /\ SwapSets' /\ PagesPreserved'
    BY DEF SwapInv
  <2>1. SwapApart'
    BY <1>1 DEF MInv, SwapInv, SwapApart, Swapped, pageVars
  <2>2. SwapSets'
    BY <1>1, <1>5, <1>7 DEF MInv, SwapInv, SwapSets, lostVars
  <2>3. PagesPreserved'
    BY <1>1, <1>9, MovedArePreserved DEF pageVars
  <2> QED BY <2>1, <2>2, <2>3
<1>11. LocalAt(p)'
  BY <1>5 DEF LocalAt, Allocating, Faulting, WithVictim
<1> QED BY <1>1, <1>4, <1>6, <1>8, <1>9, <1>10, <1>11, AreaStays DEF Kept, ProcAt, pageVars

LEMMA CrashKeeps ==
    ASSUME MInv, NEW p \in Procs,
           FindVictimDies(p) \/ UnlinkDies(p) \/ AccessDies(p)
    PROVE  Kept(p)
<1>1. /\ UNCHANGED <<mmvm_lock, devVars, pageVars, areaVars, lostVars, pc, local>>
      /\ crashed' = TRUE
  BY DEF FindVictimDies, UnlinkDies, AccessDies
<1>2. TypeOK' /\ LockInv'
  BY <1>1 DEF MInv, TypeOK, LockInv, devVars, areaVars, pageVars, lostVars
<1>3. RamInv' /\ SwapInv' /\ DataMoves
  BY <1>1, FramesStay DEF pageVars
<1>4. LocalAt(p)'
  BY <1>1 DEF MInv, ProcInv, ProcAt, LocalAt, Collected, Online, pageVars, areaVars
<1> QED BY <1>1, <1>2, <1>3, <1>4, AreaStays DEF Kept, ProcAt, pageVars

LEMMA ReadSwapHeadKeeps ==
    ASSUME MInv, NEW p \in Procs, ReadSwapHead(p)
    PROVE  Kept(p)
<1>1. /\ UNCHANGED <<mmvm_lock, devVars, pageVars, areaVars, lostVars, crashed>>
      /\ mswp_free # << >>
      /\ \/ pc[p] = "evict" /\ pc' = [pc EXCEPT ![p] = "evict_unlink"]
         \/ pc[p] = "fault_out" /\ pc' = [pc EXCEPT ![p] = "fault_unlink"]
      /\ local' = [local EXCEPT ![p].head = mswp_free]
  BY DEF ReadSwapHead, Goto
<1>2. /\ local \in [Procs -> Locals] /\ mswp_free \in Seq(Swap)
      /\ pc \in [Procs -> {"run", "grow", "evict", "evict_unlink", "fault",
                           "fault_out", "fault_unlink", "io"}]
  BY TypeFacts DEF MInv, TypeOK
<1>3. /\ local' \in [Procs -> Locals] /\ local'[p].head = mswp_free
      /\ local'[p].rgid = local[p].rgid /\ local'[p].size = local[p].size
      /\ local'[p].need = local[p].need /\ local'[p].frames = local[p].frames
      /\ local'[p].page = local[p].page /\ local'[p].victim = local[p].victim
      /\ \A q \in Procs \ {p} : local'[q] = local[q]
  <2> DEFINE l == [local[p] EXCEPT !.head = mswp_free]
  <2>1. local' = [local EXCEPT ![p] = l] /\ local[p] \in Locals
    BY <1>1, <1>2
  <2>2. /\ l \in Locals /\ l.head = mswp_free
        /\ l.rgid = local[p].rgid /\ l.size = local[p].size
        /\ l.need = local[p].need /\ l.frames = local[p].frames
        /\ l.page = local[p].page /\ l.victim = local[p].victim
    BY <1>2, <2>1 DEF Locals
  <2> HIDE DEF l
  <2> QED BY <1>2, <2>1, <2>2
<1>4. /\ pc' \in [Procs -> {"run", "grow", "evict", "evict_unlink", "fault",
                            "fault_out", "fault_unlink", "io"}]
      /\ \/ pc[p] = "evict" /\ pc'[p] = "evict_unlink"
         \/ pc[p] = "fault_out" /\ pc'[p] = "fault_unlink"
      /\ \A q \in Procs \ {p} : pc'[q] = pc[q]
  BY <1>1, <1>2
<1>5. TypeOK'
  BY <1>1, <1>3, <1>4 DEF MInv, TypeOK, Locals, devVars, areaVars, pageVars, lostVars
<1>6. LockInv'
  BY <1>1, <1>4 DEF MInv, LockInv, Allocating
<1>7. RamInv' /\ SwapInv' /\ DataMoves
  <2>1. \A q \in Procs : local'[q].frames = local[q].frames
    BY <1>3
  <2>2. \A q \in Procs : pc'[q] = "evict_unlink" =>
               \/ pc[q] = "evict_unlink" /\ local'[q].head = local[q].head
               \/ local'[q].head = mswp_free
    BY <1>3, <1>4
  <2> QED BY <1>1, <2>1, <2>2, FramesStay DEF pageVars
<1>8. LocalAt(p)'
  <2>1. LocalAt(p)
    BY DEF MInv, ProcInv, ProcAt
  <2>2. Collected(p) => Collected(p)'
    BY <1>1, <1>3 DEF Collected, areaVars
  <2>3. CASE pc[p] = "evict" /\ pc'[p] = "evict_unlink"
    BY <1>1, <1>3, <2>1, <2>2, <2>3
       DEF LocalAt, Allocating, Faulting, WithVictim, Online, pageVars
  <2>4. CASE pc[p] = "fault_out" /\ pc'[p] = "fault_unlink"
    BY <1>1, <1>3, <2>1, <2>2, <2>4
       DEF LocalAt, Allocating, Faulting, WithVictim, Online, pageVars
  <2> QED BY <1>4, <2>3, <2>4
<1> QED BY <1>1, <1>5, <1>6, <1>7, <1>8, AreaStays DEF Kept, ProcAt, pageVars

LEMMA FindVictimKeeps ==
    ASSUME MInv, NEW p \in Procs, FindVictim(p)
    PROVE  Kept(p)
<1> DEFINE fifo == fifo_pgn[p]
           v == Last(fifo)
<1>1. /\ UNCHANGED <<mmvm_lock, devVars, pgd, mapped, areaVars, lostVars, crashed>>
      /\ Len(fifo) > 1
      /\ \/ /\ pc[p] = "grow" /\ local[p].need > 0
            /\ pc' = [pc EXCEPT ![p] = "evict"]
         \/ pc[p] = "fault" /\ pc' = [pc EXCEPT ![p] = "fault_out"]
      /\ fifo_pgn' = [fifo_pgn EXCEPT ![p] = Front(fifo)]
      /\ local' = [local EXCEPT ![p].victim = v]
  BY DEF FindVictim, AllocNeedsVictim, Goto, Oldest
<1>2. /\ local \in [Procs -> Locals] /\ fifo \in Seq(Pages) /\ fifo # << >>
      /\ pc \in [Procs -> {"run", "grow", "evict", "evict_unlink", "fault",
                           "fault_out", "fault_unlink", "io"}]
      /\ fifo_pgn \in [Procs -> Seq(Pages)]
  <2>1. fifo # << >>
    BY <1>1, EmptyFacts
  <2>2. local \in [Procs -> Locals]
    BY TypeFacts DEF MInv
  <2> QED BY <2>1, <2>2 DEF MInv, TypeOK
<1>3. /\ v \in Pages /\ v \in ToSet(fifo) /\ Front(fifo) \in Seq(Pages)
      /\ ToSet(Front(fifo)) \subseteq ToSet(fifo)
      /\ Distinct(fifo) => Distinct(Front(fifo)) /\ v \notin ToSet(Front(fifo))
  BY <1>2, FrontFacts
<1> HIDE DEF v
<1>4. /\ local' \in [Procs -> Locals] /\ local'[p].victim = v
      /\ local'[p].rgid = local[p].rgid /\ local'[p].size = local[p].size
      /\ local'[p].need = local[p].need /\ local'[p].frames = local[p].frames
      /\ local'[p].page = local[p].page
      /\ \A q \in Procs : local'[q].frames = local[q].frames
      /\ \A q \in Procs \ {p} : local'[q] = local[q]
  <2> DEFINE l == [local[p] EXCEPT !.victim = v]
  <2>1. local' = [local EXCEPT ![p] = l] /\ local[p] \in Locals
    BY <1>1, <1>2 DEF v
  <2>2. /\ l \in Locals /\ l.victim = v
        /\ l.rgid = local[p].rgid /\ l.size = local[p].size
        /\ l.need = local[p].need /\ l.frames = local[p].frames
        /\ l.page = local[p].page
    BY <1>3, <2>1 DEF Locals
  <2> HIDE DEF l
  <2>3. \A q \in Procs \ {p} : local'[q] = local[q]
    BY <1>2, <2>1
  <2> QED BY <1>2, <2>1, <2>2, <2>3
<1>5. /\ pc' \in [Procs -> {"run", "grow", "evict", "evict_unlink", "fault",
                            "fault_out", "fault_unlink", "io"}]
      /\ \/ pc[p] = "grow" /\ pc'[p] = "evict" /\ local[p].need > 0
         \/ pc[p] = "fault" /\ pc'[p] = "fault_out"
      /\ \A q \in Procs \ {p} : pc'[q] = pc[q]
  BY <1>1, <1>2
<1>6. fifo_pgn' \in [Procs -> Seq(Pages)] /\ fifo_pgn'[p] = Front(fifo)
  BY <1>1, <1>2, <1>3
<1>7. TypeOK'
  BY <1>1, <1>4, <1>5, <1>6 DEF MInv, TypeOK, Locals, devVars, areaVars, lostVars
<1>8. LockInv'
  BY <1>1, <1>5 DEF MInv, LockInv, Allocating
<1>9. RamInv' /\ SwapInv' /\ DataMoves
  BY <1>1, <1>4, <1>5, FramesStay
<1>10. FifoAt(p) /\ LocalAt(p)
  BY DEF MInv, ProcInv, ProcAt
<1>11. FifoAt(p)'
  BY <1>1, <1>3, <1>6, <1>10 DEF FifoAt, Online
<1>12. LocalAt(p)'
  <2>1. Collected(p) => Collected(p)'
    BY <1>1, <1>4 DEF Collected, areaVars
  <2>2. v \in mapped[p] /\ Online(p, v) /\ v \notin ToSet(fifo_pgn'[p])
    BY <1>3, <1>6, <1>10 DEF FifoAt
  <2>3. CASE pc[p] = "grow" /\ pc'[p] = "evict" /\ local[p].need > 0
    BY <1>1, <1>4, <1>10, <2>1, <2>2, <2>3
       DEF LocalAt, Allocating, Faulting, WithVictim, Online
  <2>4. CASE pc[p] = "fault" /\ pc'[p] = "fault_out"
    BY <1>1, <1>4, <1>10, <2>1, <2>2, <2>4
       DEF LocalAt, Allocating, Faulting, WithVictim, Online
  <2> QED BY <1>5, <2>3, <2>4
<1> QED BY <1>1, <1>7, <1>8, <1>9, <1>11, <1>12, AreaStays DEF Kept, ProcAt

(* Frames go from the free list to an allocation, or back.                 *)
LEMMA OthersTakeNothing ==
    ASSUME MInv, NEW p \in Procs, pc[p] \in Allocating
    PROVE  \A q \in Procs \ {p} : local[q].frames = << >> /\ Taking(q) = {}
<1>1. \A q \in Procs \ {p} : pc[q] \notin Allocating
  BY DEF MInv, LockInv
<1>2. \A q \in Procs : LocalAt(q)
  BY DEF MInv, ProcInv, ProcAt
<1> QED BY <1>1, <1>2, EmptyFacts DEF LocalAt, Taking

LEMMA RamMoves ==
    ASSUME MInv, NEW p \in Procs, pc[p] \in Allocating,
           \A q \in Procs \ {p} : local'[q] = local[q],
           UNCHANGED <<pgd, mapped, lostRam>>,
           Distinct(mram_free'), Distinct(local'[p].frames),
           ToSet(mram_free') \cup ToSet(local'[p].frames) = ToSet(mram_free) \cup Taking(p),
           ToSet(mram_free') \cap ToSet(local'[p].frames) = {}
    PROVE  RamInv'
<1>1. \A q \in Procs \ {p} : Taking(q)' = {} /\ Taking(q) = {} /\ Distinct(local'[q].frames)
  BY OthersTakeNothing, EmptyFacts DEF Taking
<1>2. Taking(p)' = ToSet(local'[p].frames)
  BY DEF Taking
<1>3. RamApart' /\ \A q \in Procs : RamOf(q)' = RamOf(q)
  BY RamPagesStay
<1>4. RamSets
  BY DEF MInv, RamInv
<1>5. \A q \in Procs : /\ RamOf(q)' \subseteq Ram
                       /\ ToSet(mram_free') \cap (Taking(q)' \cup RamOf(q)') = {}
                       /\ lostRam' \cap (Taking(q)' \cup RamOf(q)') = {}
  BY <1>1, <1>2, <1>3, <1>4 DEF RamSets
<1>6. \A q, r \in Procs : Taking(q)' \cap RamOf(r)' = {}
  BY <1>1, <1>2, <1>3, <1>4 DEF RamSets
<1>7. \A f \in Ram : \/ f \in ToSet(mram_free') \/ f \in lostRam'
                     \/ \E q \in Procs : f \in Taking(q)' \/ f \in RamOf(q)'
  <2> SUFFICES ASSUME NEW f \in Ram
               PROVE  \/ f \in ToSet(mram_free') \/ f \in lostRam'
                      \/ \E q \in Procs : f \in Taking(q)' \/ f \in RamOf(q)'
    OBVIOUS
  <2>1. CASE f \in ToSet(mram_free) \/ f \in Taking(p)
    BY <1>2, <2>1
  <2>2. CASE f \in lostRam
    BY <2>2
  <2>3. CASE \E q \in Procs : f \in RamOf(q)
    BY <1>3, <2>3
  <2> QED BY <1>1, <1>4, <2>1, <2>2, <2>3 DEF RamSets
<1>8. /\ ToSet(mram_free') \cap lostRam' = {}
      /\ \A q \in Procs : Distinct(local'[q].frames)
  BY <1>1, <1>4 DEF RamSets
<1>9. RamSets'
  BY <1>5, <1>6, <1>7, <1>8 DEF RamSets
<1> QED BY <1>3, <1>9 DEF RamInv

LEMMA GetFrameKeeps ==
    ASSUME MInv, NEW p \in Procs, GetFrame(p)
    PROVE  Kept(p)
<1> DEFINE f == Head(mram_free)
           frames == local[p].frames
           more == <<f>> \o frames
           n == local[p].need - 1
           l == [local[p] EXCEPT !.need = n, !.frames = more]
<1>1. /\ UNCHANGED <<mmvm_lock, mswp_free, ramHolds, swapHolds, pageVars,
                     areaVars, lostVars, crashed>>
      /\ local[p].need > 0 /\ mram_free # << >>
      /\ pc[p] = "grow" /\ UNCHANGED pc
      /\ mram_free' = Tail(mram_free)
      /\ local' = [local EXCEPT ![p] = l]
  BY DEF GetFrame, Goto, MInv, TypeOK
<1>2. /\ local \in [Procs -> Locals] /\ local[p] \in Locals /\ mram_free \in Seq(Ram)
      /\ frames \in Seq(Ram) /\ n \in Nat
  BY <1>1, TypeFacts DEF MInv, Locals
<1>3. /\ f \in Ram /\ f \in ToSet(mram_free) /\ Tail(mram_free) \in Seq(Ram)
      /\ Distinct(mram_free) => /\ Distinct(Tail(mram_free))
                                /\ ToSet(Tail(mram_free)) = ToSet(mram_free) \ {f}
  BY <1>1, <1>2, TailFacts
<1> HIDE DEF f
<1>4. /\ more \in Seq(Ram) /\ Len(more) = Len(frames) + 1 /\ Len(frames) \in Nat
      /\ ToSet(more) = ToSet(frames) \cup {f}
      /\ Distinct(frames) /\ f \notin ToSet(frames) => Distinct(more)
  BY <1>2, <1>3, ConsFacts, ElementFacts
<1> HIDE DEF more
<1>5. l \in Locals /\ l.need = n /\ l.frames = more /\ l.rgid = local[p].rgid
      /\ l.size = local[p].size
  BY <1>2, <1>4 DEF Locals
<1> HIDE DEF l
<1>6. /\ local' \in [Procs -> Locals] /\ local'[p] = l
      /\ \A q \in Procs \ {p} : local'[q] = local[q]
  BY <1>1, <1>2, <1>5
<1>7. TypeOK'
  BY <1>1, <1>3, <1>6 DEF MInv, TypeOK, Locals, areaVars, pageVars, lostVars
<1>8. LockInv'
  BY <1>1 DEF MInv, LockInv, Allocating
<1>9. /\ Distinct(mram_free) /\ Distinct(frames)
      /\ f \notin Taking(p) /\ ToSet(mram_free) \cap Taking(p) = {}
      /\ Taking(p) = ToSet(frames)
  BY <1>3 DEF MInv, RamInv, RamSets, Taking
<1>10. RamInv'
  <2>1. /\ Distinct(mram_free') /\ Distinct(local'[p].frames)
        /\ ToSet(mram_free') = ToSet(mram_free) \ {f}
        /\ ToSet(local'[p].frames) = Taking(p) \cup {f}
    BY <1>1, <1>3, <1>4, <1>5, <1>6, <1>9
  <2>2. pc[p] \in Allocating
    BY <1>1 DEF Allocating
  <2> QED BY <1>1, <1>3, <1>6, <1>9, <2>1, <2>2, RamMoves DEF pageVars, lostVars
<1>11. SwapInv' /\ DataMoves
  BY <1>1, <1>6, SwapStays DEF pageVars, lostVars
<1>12. LocalAt(p)'
  <2>1. LocalAt(p)
    BY DEF MInv, ProcInv, ProcAt
  <2>2. Collected(p)
    BY <1>1, <2>1 DEF LocalAt, Allocating
  <2>3. n + Len(more) = local[p].need + Len(frames)
    BY <1>2, <1>4 DEF Locals
  <2>4. Collected(p)'
    BY <1>1, <1>5, <1>6, <2>2, <2>3 DEF Collected, areaVars
  <2> QED BY <1>1, <2>1, <2>4 DEF LocalAt, Allocating, Faulting, WithVictim
<1> QED BY <1>1, <1>7, <1>8, <1>10, <1>11, <1>12, AreaStays DEF Kept, ProcAt, pageVars

LEMMA AllocFailsKeeps ==
    ASSUME MInv, NEW p \in Procs, AllocFails(p)
    PROVE  Kept(p)
<1> DEFINE frames == local[p].frames
           all == Reverse(frames) \o mram_free
<1>1. /\ UNCHANGED <<mswp_free, ramHolds, swapHolds, pageVars, areaVars, lostVars, crashed>>
      /\ pc[p] \in Allocating
      /\ pc' = [pc EXCEPT ![p] = "run"] /\ mmvm_lock' = None
      /\ local' = [local EXCEPT ![p] = NoLocal]
      /\ mram_free' = all
  BY DEF AllocFails, AllocNeedsVictim, Return, GiveBack, Allocating
<1>2. /\ local \in [Procs -> Locals] /\ mram_free \in Seq(Ram) /\ frames \in Seq(Ram)
  BY TypeFacts DEF MInv, Locals
<1>3. /\ Distinct(mram_free) /\ Distinct(frames) /\ ToSet(mram_free) \cap ToSet(frames) = {}
      /\ Taking(p) = ToSet(frames)
  BY DEF MInv, RamInv, RamSets, Taking
<1>4. /\ Reverse(frames) \in Seq(Ram) /\ ToSet(Reverse(frames)) = ToSet(frames)
      /\ Distinct(Reverse(frames))
  BY <1>2, <1>3, ReverseFacts
<1>5. /\ all \in Seq(Ram) /\ ToSet(all) = ToSet(mram_free) \cup ToSet(frames)
      /\ Distinct(all)
  <2>1. ToSet(Reverse(frames)) \cap ToSet(mram_free) = {}
    BY <1>3, <1>4
  <2> QED BY <1>2, <1>3, <1>4, <2>1, JoinFacts
<1> HIDE DEF all
<1>6. /\ local' \in [Procs -> Locals] /\ local'[p].frames = << >> /\ pc'[p] = "run"
      /\ \A q \in Procs \ {p} : local'[q] = local[q] /\ pc'[q] = pc[q]
  BY <1>1, <1>2, NoLocalFacts DEF MInv, TypeOK
<1>7. TypeOK'
  BY <1>1, <1>5, <1>6 DEF MInv, TypeOK, Locals, areaVars, pageVars, lostVars
<1>8. LockInv'
  BY <1>1, <1>6, ConstantFacts DEF MInv, LockInv, Allocating
<1>9. RamInv'
  <2>1. Distinct(local'[p].frames) /\ ToSet(local'[p].frames) = {}
    BY <1>6, EmptyFacts
  <2> QED BY <1>1, <1>3, <1>5, <1>6, <2>1, RamMoves DEF pageVars, lostVars
<1>10. SwapInv' /\ DataMoves
  BY <1>1, <1>6, SwapStays DEF pageVars, lostVars
<1>11. LocalAt(p)'
  BY <1>6 DEF LocalAt, Allocating, Faulting, WithVictim
<1> QED BY <1>1, <1>7, <1>8, <1>9, <1>10, <1>11, AreaStays DEF Kept, ProcAt, pageVars

-------------------------------------------------------------------------------
(* The steps that change page tables.                                      *)

(* No two processes have a frame in common.                                *)
LEMMA RamOfApart ==
    ASSUME MInv, NEW p \in Procs, NEW q \in Procs, p # q
    PROVE  RamOf(p) \cap RamOf(q) = {}
  BY FramesOf DEF MInv, RamInv, RamApart

LEMMA EvictKeeps ==
    ASSUME MInv, NEW p \in Procs, Evict(p)
    PROVE  Kept(p)
<1> DEFINE s == Head(local[p].head)
           v == local[p].victim
           f == PAGING_PTE_FPN(pgd[p][v])
           e == pte_set_swap(pgd[p][v], SwpType, s)
           frames == local[p].frames
           more == <<f>> \o frames
           n == local[p].need - 1
           l == [local[p] EXCEPT !.need = n, !.frames = more, !.victim = 0, !.head = << >>]
<1>1. /\ UNCHANGED <<mmvm_lock, mram_free, ramHolds, fifo_pgn, mapped, areaVars, lostVars,
                     crashed>>
      /\ pc[p] = "evict_unlink" /\ pc' = [pc EXCEPT ![p] = "grow"]
      /\ mswp_free' = Tail(local[p].head)
      /\ swapHolds' = [swapHolds EXCEPT ![s] = ramHolds[f]]
      /\ pgd' = [pgd EXCEPT ![p][v] = e]
      /\ local' = [local EXCEPT ![p] = l]
  BY DEF Evict, Goto, Unlink, Copied, VictimFrame
<1>2. /\ local \in [Procs -> Locals] /\ local[p] \in Locals /\ frames \in Seq(Ram)
      /\ local[p].head \in Seq(Swap) /\ v \in Pages
      /\ pgd[p] \in [Pages -> Ptes] /\ pgd[p][v] \in Ptes
      /\ TypeOK /\ ProcAt(p)
  BY TypeFacts DEF MInv, Locals, ProcInv
<1>3. /\ Collected(p) /\ local[p].need > 0 /\ local[p].head # << >>
      /\ v \in mapped[p] /\ Online(p, v) /\ v \notin ToSet(fifo_pgn[p])
      /\ n \in Nat
  BY <1>1, <1>2 DEF ProcAt, LocalAt, Allocating, WithVictim, Locals
<1>4. /\ s \in Swap /\ s \in ToSet(local[p].head) /\ Tail(local[p].head) \in Seq(Swap)
      /\ Distinct(local[p].head) => /\ Distinct(Tail(local[p].head))
            /\ ToSet(Tail(local[p].head)) = ToSet(local[p].head) \ {s}
  BY <1>2, <1>3, TailFacts
<1>5. f \in RamOf(p) /\ f \in Ram /\ f \notin Taking(p) /\ f \notin ToSet(mram_free)
      /\ f \notin lostRam
  BY <1>3, FramesOf DEF MInv, RamInv, RamSets
<1> HIDE DEF s, f
<1>6. /\ e \in Ptes /\ ~InRam(e) /\ InSwap(e) /\ e.present = 1 /\ PAGING_PTE_SWP(e) = s
  BY <1>2, <1>4, ConstantFacts, SetSwapFacts
<1> HIDE DEF e
<1>7. /\ more \in Seq(Ram) /\ Len(more) = Len(frames) + 1 /\ Len(frames) \in Nat
      /\ ToSet(more) = ToSet(frames) \cup {f}
      /\ Distinct(frames) /\ f \notin ToSet(frames) => Distinct(more)
  BY <1>2, <1>5, ConsFacts, ElementFacts
<1> HIDE DEF more
<1>8. /\ l \in Locals /\ l.need = n /\ l.frames = more /\ l.rgid = local[p].rgid
      /\ l.size = local[p].size
  <2>1. n \in Nat /\ more \in Seq(Ram) /\ 0 \in Pages /\ << >> \in Seq(Swap)
    BY <1>3, <1>7, ConstantFacts
  <2>2. local[p] \in Locals
    BY <1>2
  <2> HIDE DEF n
  <2>3. l \in Locals
    BY <2>1, <2>2 DEF Locals
  <2>4. l.need = n /\ l.frames = more /\ l.rgid = local[p].rgid /\ l.size = local[p].size
    BY <2>2, Zenon DEF Locals
  <2> QED BY <2>3, <2>4
<1> HIDE DEF l
<1>9. /\ local' \in [Procs -> Locals] /\ local'[p] = l /\ pc'[p] = "grow"
      /\ \A q \in Procs \ {p} : local'[q] = local[q] /\ pc'[q] = pc[q]
  BY <1>1, <1>2, <1>8 DEF TypeOK
<1> HIDE DEF v
<1>10. /\ pgd' \in [Procs -> [Pages -> Ptes]]
       /\ pgd'[p][v] = e /\ \A g \in Pages \ {v} : pgd'[p][g] = pgd[p][g]
       /\ \A q \in Procs \ {p} : pgd'[q] = pgd[q]
  BY <1>1, <1>2, <1>6 DEF TypeOK
<1>11. /\ swapHolds' \in [Swap -> Contents] /\ swapHolds'[s] = ramHolds[f]
       /\ \A x \in Swap \ {s} : swapHolds'[x] = swapHolds[x]
  BY <1>1, <1>2, <1>4, <1>5 DEF TypeOK
<1>12. TypeOK'
  BY <1>1, <1>2, <1>4, <1>9, <1>10, <1>11 DEF TypeOK, Locals, areaVars, lostVars
<1>13. LockInv'
  BY <1>1, <1>9 DEF MInv, LockInv, Allocating
<1>14. /\ mapped[p] \subseteq Pages /\ \A q \in Procs : mapped[q] \subseteq Pages
       /\ \A q \in Procs : \A g \in mapped[q] : q # p \/ g # v => pgd'[q][g] = pgd[q][g]
  BY <1>2, <1>10 DEF TypeOK
<1>15. /\ RamOf(p)' = RamOf(p) \ {f} /\ SwapOf(p)' = SwapOf(p) \cup {s}
       /\ \A q \in Procs \ {p} : /\ RamOf(q)' = RamOf(q) /\ SwapOf(q)' = SwapOf(q)
  <2>1. \A q \in Procs \ {p} : /\ RamOf(q)' = RamOf(q) /\ SwapOf(q)' = SwapOf(q)
    BY OthersKept DEF Step
  <2>2. \A g \in mapped[p] : Online(p, g) /\ g # v => PAGING_PTE_FPN(pgd[p][g]) # f
    BY <1>3 DEF MInv, RamInv, RamApart, f
  <2>3. ASSUME NEW x PROVE x \in RamOf(p)' <=> x \in RamOf(p) /\ x # f
    BY <1>1, <1>6, <1>10, <1>14, <2>2, FramesOf, FramesOfNext DEF Online, f
  <2>4. ASSUME NEW x PROVE x \in SwapOf(p)' <=> x \in SwapOf(p) \/ x = s
    <3>1. ~InSwap(pgd[p][v])
      BY <1>3 DEF Online, InRam, InSwap
    <3> QED BY <1>1, <1>3, <1>6, <1>10, <1>14, <3>1, FramesOf, FramesOfNext DEF Swapped
  <2> QED BY <2>1, <2>3, <2>4
<1>16. RamInv'
  <2>1. RamApart'
    BY <1>1, <1>6, <1>10, <1>14 DEF MInv, RamInv, RamApart, Online
  <2>2. RamSets
    BY DEF MInv, RamInv
  <2>3. /\ Taking(p)' = Taking(p) \cup {f} /\ Distinct(local'[p].frames)
        /\ \A q \in Procs \ {p} : Taking(q)' = Taking(q) /\ local'[q].frames = local[q].frames
    BY <1>5, <1>7, <1>8, <1>9, <2>2 DEF Taking, RamSets
  <2>4. \A q \in Procs \ {p} : f \notin RamOf(q)
    BY <1>5, RamOfApart
  <2>5. \A q, r \in Procs : Taking(q)' \cap RamOf(r)' = {}
    BY <1>15, <2>2, <2>3, <2>4 DEF RamSets
  <2>6. \A q \in Procs : /\ RamOf(q)' \subseteq Ram
                         /\ ToSet(mram_free') \cap (Taking(q)' \cup RamOf(q)') = {}
                         /\ lostRam' \cap (Taking(q)' \cup RamOf(q)') = {}
    BY <1>1, <1>5, <1>15, <2>2, <2>3 DEF RamSets, lostVars
  <2>7. \A x \in Ram : \/ x \in ToSet(mram_free') \/ x \in lostRam'
                       \/ \E q \in Procs : x \in Taking(q)' \/ x \in RamOf(q)'
    <3> SUFFICES ASSUME NEW x \in Ram
                 PROVE  \/ x \in ToSet(mram_free') \/ x \in lostRam'
                        \/ \E q \in Procs : x \in Taking(q)' \/ x \in RamOf(q)'
      OBVIOUS
    <3>1. \/ x \in ToSet(mram_free) \/ x \in lostRam
          \/ \E q \in Procs : x \in Taking(q) \/ x \in RamOf(q)
      BY <2>2 DEF RamSets
    <3>2. \A q \in Procs : Taking(q) \subseteq Taking(q)' /\ RamOf(q) \subseteq RamOf(q)' \cup Taking(p)'
      BY <1>15, <2>3
    <3> QED BY <1>1, <3>1, <3>2 DEF lostVars
  <2>8. RamSets'
    BY <1>1, <2>2, <2>3, <2>5, <2>6, <2>7 DEF RamSets, lostVars
  <2> QED BY <2>1, <2>8 DEF RamInv
<1>22. DataMoves
  <2> SUFFICES ASSUME Careful, NEW q \in Procs, NEW g \in mapped[q]
               PROVE  DataAt(q, g)' = DataAt(q, g)
    BY DEF DataMoves
  <2>1. SwapSets /\ local[p].head = mswp_free
    BY <1>1 DEF MInv, SwapInv, SwapSets
  <2>2. s \notin SwapOf(q)
    BY <1>4, <2>1 DEF SwapSets
  <2>3. CASE q = p /\ g = v
    <3>1. DataAt(q, g) = ramHolds[f]
      BY <1>3, <2>3 DEF DataAt, f
    <3>2. pgd'[q][g] = e
      BY <1>10, <2>3
    <3> QED BY <1>6, <1>11, <3>1, <3>2 DEF DataAt, Online
  <2>4. CASE q # p \/ g # v
    <3>1. pgd'[q][g] = pgd[q][g]
      BY <1>14, <2>4
    <3>2. ~Online(q, g) => PAGING_PTE_SWP(pgd[q][g]) \in Swap \ {s}
      BY <2>2, MappedIsSomewhere
    <3> QED BY <1>1, <1>11, <3>1, <3>2 DEF DataAt, Online
  <2> QED BY <2>3, <2>4
<1>17. SwapInv'
  <2> SUFFICES ASSUME Careful PROVE SwapApart' /\ SwapSets' /\ PagesPreserved'
    BY DEF SwapInv
  <2>1. SwapApart /\ SwapSets /\ PagesPreserved
    BY DEF MInv, SwapInv
  <2>2. local[p].head = mswp_free /\ Distinct(mswp_free)
    BY <1>1, <2>1 DEF SwapSets
  <2>3. ToSet(mswp_free') = ToSet(mswp_free) \ {s} /\ Distinct(mswp_free') /\ s \in ToSet(mswp_free)
    BY <1>1, <1>4, <2>2
  <2>4. \A q \in Procs : s \notin SwapOf(q)
    BY <2>1, <2>3 DEF SwapSets
  <2>5. \A q \in Procs : \A g \in mapped[q] : Swapped(q, g) => PAGING_PTE_SWP(pgd[q][g]) # s
    BY <2>4, FramesOf
  <2>6. SwapApart'
    BY <1>1, <1>6, <1>10, <1>14, <2>1, <2>5 DEF SwapApart, Swapped
  <2>7. PagesPreserved'
    BY <1>1, <1>22, MovedArePreserved
  <2>8. SwapSets'
    <3>1. \A q \in Procs : pc'[q] # "evict_unlink"
      BY <1>1, <1>9 DEF MInv, LockInv, Allocating
    <3>2. \A x \in Swap : \/ x \in ToSet(mswp_free') \/ x \in lostSwap'
                          \/ \E q \in Procs : x \in SwapOf(q)'
      <4>1. \A q \in Procs : SwapOf(q) \subseteq SwapOf(q)'
        BY <1>15
      <4> QED BY <1>1, <1>15, <2>1, <2>3, <4>1 DEF SwapSets, lostVars
    <3>3. s \notin lostSwap
      BY <2>1, <2>3 DEF SwapSets
    <3>4. \A q \in Procs : /\ SwapOf(q)' \subseteq Swap
                           /\ ToSet(mswp_free') \cap SwapOf(q)' = {}
                           /\ lostSwap' \cap SwapOf(q)' = {}
      BY <1>1, <1>4, <1>15, <2>1, <2>3, <3>3 DEF SwapSets, lostVars
    <3> QED BY <1>1, <2>1, <2>3, <3>1, <3>2, <3>4 DEF SwapSets, lostVars
  <2> QED BY <2>6, <2>7, <2>8
<1>18. LocalAt(p)'
  <2>1. n + Len(more) = local[p].need + Len(frames)
    BY <1>2, <1>7 DEF Locals
  <2>2. Collected(p)'
    BY <1>1, <1>3, <1>8, <1>9, <2>1 DEF Collected, areaVars
  <2> QED BY <1>9, <2>2 DEF LocalAt, Allocating, Faulting, WithVictim
<1>19. AreaAt(p)'
  BY <1>1, <1>2, <1>3, <1>6, <1>10, <1>14 DEF ProcAt, AreaAt, Brk, areaVars
<1>20. FifoAt(p)'
  BY <1>1, <1>2, <1>3, <1>14 DEF ProcAt, FifoAt, Online
<1>21. BelowAt(p)' /\ (Careful => DisjointAt(p)')
  BY <1>1, <1>2 DEF ProcAt, BelowAt, DisjointAt, Named, areaVars
<1> QED BY <1>12, <1>13, <1>16, <1>17, <1>18, <1>19, <1>20, <1>21, <1>22 DEF Kept, ProcAt

LEMMA FaultSwapsKeeps ==
    ASSUME MInv, NEW p \in Procs, NEW s \in Swap, FaultPage(p) \/ FaultPageNoSwap(p),
           FaultSwaps(p, s), mswp_free' \in Seq(Swap),
           pc[p] \in {"fault_out", "fault_unlink"}, pc' = [pc EXCEPT ![p] = "io"],
           UNCHANGED <<mmvm_lock, mram_free, areaVars, lostVars, crashed>>
    PROVE  Kept(p)
<1> DEFINE v == local[p].victim
           g == local[p].page
           f == PAGING_PTE_FPN(pgd[p][v])
           out == pte_set_swap(pgd[p][v], SwpType, s)
           in == pte_set_fpn(pgd[p][g], f)
           l == [NoLocal EXCEPT !.page = g, !.fpn = f]
           from == PAGING_PTE_SWP(pgd[p][g])
<1>1. /\ local \in [Procs -> Locals] /\ v \in Pages /\ g \in Pages
      /\ pgd[p] \in [Pages -> Ptes] /\ pgd[p][v] \in Ptes /\ pgd[p][g] \in Ptes
      /\ fifo_pgn[p] \in Seq(Pages) /\ mapped[p] \subseteq Pages
      /\ TypeOK /\ ProcAt(p)
  BY TypeFacts DEF MInv, Locals, ProcInv
<1>2. /\ ~Careful /\ v \in mapped[p] /\ Online(p, v) /\ v \notin ToSet(fifo_pgn[p])
      /\ g \notin mapped[p] /\ g \in WildPages /\ g # v
      /\ local[p].frames = << >>
  BY <1>1 DEF ProcAt, LocalAt, Allocating, Faulting, WithVictim
<1>3. pgd[p][g] = NoPte /\ from = 0 /\ 0 \in Swap
  <2>1. pgd[p][g] = NoPte
    BY <1>1, <1>2 DEF ProcAt, AreaAt
  <2> QED BY <2>1, NoPteFacts, ConstantFacts
<1>4. /\ swapHolds' = [swapHolds EXCEPT ![s] = ramHolds[f]]
      /\ ramHolds' = [ramHolds EXCEPT ![f] = swapHolds'[0]]
      /\ pgd' = [pgd EXCEPT ![p] = [pgd[p] EXCEPT ![v] = out, ![g] = in]]
      /\ fifo_pgn' = [fifo_pgn EXCEPT ![p] = <<g>> \o fifo_pgn[p]]
      /\ mapped' = [mapped EXCEPT ![p] = mapped[p] \cup {g}]
      /\ local' = [local EXCEPT ![p] = l]
  <2>1. swapHolds' = [swapHolds EXCEPT ![s] = ramHolds[f]]
    BY DEF FaultSwaps, VictimFrame, Copied
  <2>2. ramHolds' = [ramHolds EXCEPT ![f] = swapHolds'[from]]
    BY DEF FaultSwaps, VictimFrame, Copied
  <2>3. /\ mapped' = [mapped EXCEPT ![p] = mapped[p] \cup {g}]
        /\ local' = [local EXCEPT ![p] = l]
        /\ fifo_pgn' = [fifo_pgn EXCEPT ![p] = <<g>> \o fifo_pgn[p]]
    BY DEF FaultSwaps, VictimFrame
  <2>4. pgd' = [pgd EXCEPT ![p][v] = out, ![p][g] = pte_set_fpn(@, f)]
    BY DEF FaultSwaps, VictimFrame
  <2> HIDE DEF out
  <2>5. pgd' = [pgd EXCEPT ![p] = [pgd[p] EXCEPT ![v] = out, ![g] = in]]
    BY <1>1, <1>2, <2>4 DEF TypeOK
  <2> QED BY <1>3, <2>1, <2>2, <2>3, <2>5
<1>5. f \in RamOf(p) /\ f \in Ram
  BY <1>2, FramesOf DEF MInv, RamInv, RamSets
<1> HIDE DEF from, f
<1>6. /\ out \in Ptes /\ ~InRam(out) /\ out.present = 1
      /\ in \in Ptes /\ InRam(in) /\ in.present = 1 /\ PAGING_PTE_FPN(in) = f
  BY <1>1, <1>5, ConstantFacts, SetSwapFacts, SetFpnFacts
<1> HIDE DEF out, in
<1>7. l \in Locals /\ l.frames = << >> /\ l.page = g /\ l.fpn = f
  <2>1. f \in Nat
    BY <1>5, ConstantFacts, WidthFacts
  <2> HIDE DEF g
  <2> QED BY <1>1, <2>1, NoLocalFacts DEF Locals
<1> HIDE DEF l
<1> HIDE DEF v, g
<1>8. /\ pgd' \in [Procs -> [Pages -> Ptes]]
      /\ pgd'[p][v] = out /\ pgd'[p][g] = in
      /\ \A h \in Pages \ {v, g} : pgd'[p][h] = pgd[p][h]
      /\ \A q \in Procs \ {p} : pgd'[q] = pgd[q]
  <2> DEFINE t == [pgd[p] EXCEPT ![v] = out, ![g] = in]
  <2>1. t \in [Pages -> Ptes] /\ t[v] = out /\ t[g] = in
        /\ \A h \in Pages \ {v, g} : t[h] = pgd[p][h]
    BY <1>1, <1>2, <1>6
  <2> HIDE DEF t
  <2> QED BY <1>1, <1>4, <2>1 DEF t, TypeOK
<1>9. /\ mapped'[p] = mapped[p] \cup {g} /\ \A q \in Procs \ {p} : mapped'[q] = mapped[q]
      /\ mapped' \in [Procs -> SUBSET Pages] /\ \A q \in Procs : mapped[q] \subseteq Pages
  BY <1>1, <1>4 DEF TypeOK
<1>10. /\ local' \in [Procs -> Locals] /\ local'[p] = l /\ pc'[p] = "io"
       /\ \A q \in Procs \ {p} : local'[q] = local[q] /\ pc'[q] = pc[q]
       /\ \A q \in Procs : local'[q].frames = local[q].frames
  BY <1>1, <1>2, <1>4, <1>7 DEF TypeOK
<1>11. /\ swapHolds' \in [Swap -> Contents] /\ ramHolds' \in [Ram -> Contents]
  <2>1. swapHolds' \in [Swap -> Contents]
    BY <1>1, <1>4, <1>5 DEF TypeOK
  <2>2. swapHolds'[0] \in Contents
    BY <1>3, <2>1
  <2> QED BY <1>1, <1>4, <2>1, <2>2 DEF TypeOK
<1>12. /\ <<g>> \o fifo_pgn[p] \in Seq(Pages)
       /\ ToSet(<<g>> \o fifo_pgn[p]) = ToSet(fifo_pgn[p]) \cup {g}
       /\ Distinct(fifo_pgn[p]) /\ g \notin ToSet(fifo_pgn[p])
            => Distinct(<<g>> \o fifo_pgn[p])
  BY <1>1, ConsFacts
<1>13. fifo_pgn' \in [Procs -> Seq(Pages)] /\ fifo_pgn'[p] = <<g>> \o fifo_pgn[p]
  BY <1>1, <1>4, <1>12 DEF TypeOK
<1>14. TypeOK'
  BY <1>1, <1>8, <1>9, <1>10, <1>11, <1>13 DEF TypeOK, Locals, areaVars, lostVars
<1>15. LockInv'
  BY <1>10 DEF MInv, LockInv, Allocating
<1>16. \A q \in Procs : \A h \in mapped'[q] :
          \/ q = p /\ h \in {v, g}
          \/ h \in mapped[q] /\ pgd'[q][h] = pgd[q][h]
  BY <1>8, <1>9
<1>17. \A q \in Procs : RamOf(q)' = RamOf(q)
  <2>1. \A q \in Procs \ {p} : RamOf(q)' = RamOf(q)
    BY OthersKept DEF Step
  <2>2. ASSUME NEW x \in RamOf(p) PROVE x \in RamOf(p)'
    <3>1. PICK h \in mapped[p] : Online(p, h) /\ PAGING_PTE_FPN(pgd[p][h]) = x
      BY <2>2, FramesOf
    <3>2. CASE h = v
      BY <1>6, <1>8, <1>9, <3>1, <3>2, FramesOfNext DEF f
    <3>3. CASE h # v
      BY <1>2, <1>8, <1>9, <3>1, <3>3, FramesOfNext DEF Online
    <3> QED BY <3>2, <3>3
  <2>3. ASSUME NEW x \in RamOf(p)' PROVE x \in RamOf(p)
    <3>1. PICK h \in mapped'[p] : InRam(pgd'[p][h]) /\ PAGING_PTE_FPN(pgd'[p][h]) = x
      BY <2>3, FramesOfNext
    <3>2. CASE h \in {v, g}
      BY <1>5, <1>6, <1>8, <3>1, <3>2
    <3>3. CASE h \in mapped[p] /\ pgd'[p][h] = pgd[p][h]
      BY <3>1, <3>3, FramesOf DEF Online
    <3> QED BY <1>16, <3>2, <3>3
  <2>4. RamOf(p)' = RamOf(p)
    BY <2>2, <2>3
  <2> QED BY <2>1, <2>4
<1>18. RamInv'
  <2>1. RamApart'
    <3> SUFFICES ASSUME NEW q \in Procs, NEW r \in Procs,
                        NEW h \in mapped'[q], NEW k \in mapped'[r],
                        InRam(pgd'[q][h]), InRam(pgd'[r][k]),
                        PAGING_PTE_FPN(pgd'[q][h]) = PAGING_PTE_FPN(pgd'[r][k])
                 PROVE  q = r /\ h = k
      BY DEF RamApart, Online
    <3>1. \A x \in Procs : \A y \in mapped[x] :
             InRam(pgd[x][y]) /\ PAGING_PTE_FPN(pgd[x][y]) = f => x = p /\ y = v
      BY <1>2 DEF MInv, RamInv, RamApart, Online, f
    <3>2. CASE q = p /\ h \in {v, g}
      <4>1. h = g /\ PAGING_PTE_FPN(pgd'[q][h]) = f
        BY <1>6, <1>8, <3>2
      <4> QED BY <1>2, <1>6, <1>8, <1>16, <3>1, <3>2, <4>1
    <3>3. CASE r = p /\ k \in {v, g}
      <4>1. k = g /\ PAGING_PTE_FPN(pgd'[r][k]) = f
        BY <1>6, <1>8, <3>3
      <4> QED BY <1>2, <1>6, <1>8, <1>16, <3>1, <3>3, <4>1
    <3>4. CASE /\ h \in mapped[q] /\ pgd'[q][h] = pgd[q][h]
               /\ k \in mapped[r] /\ pgd'[r][k] = pgd[r][k]
      BY <3>4 DEF MInv, RamInv, RamApart, Online
    <3> QED BY <1>16, <3>2, <3>3, <3>4
  <2>2. \A q \in Procs : Taking(q)' = Taking(q)
    BY <1>10 DEF Taking
  <2>3. RamSets'
    BY <1>10, <1>17, <2>2 DEF MInv, RamInv, RamSets, lostVars
  <2> QED BY <2>1, <2>3 DEF RamInv
<1>19. SwapInv' /\ DataMoves
  BY <1>2 DEF SwapInv, DataMoves
<1>20. LocalAt(p)'
  BY <1>6, <1>7, <1>8, <1>9, <1>10 DEF LocalAt, Allocating, Faulting, WithVictim
<1>21. AreaAt(p)'
  <2>1. sbrk' = sbrk /\ Brk(p)' = Brk(p) /\ Brk(p) # 0
    BY <1>1, <1>2 DEF ProcAt, AreaAt, Brk, areaVars
  <2>2. \A h \in mapped'[p] : pgd'[p][h].present = 1
    BY <1>1, <1>6, <1>8, <1>16 DEF ProcAt, AreaAt
  <2>3. \A h \in Pages \ mapped'[p] : pgd'[p][h] = NoPte
    BY <1>1, <1>2, <1>8, <1>9 DEF ProcAt, AreaAt
  <2> QED BY <1>1, <1>2, <1>9, <2>1, <2>2, <2>3 DEF ProcAt, AreaAt
<1>22. FifoAt(p)'
  <2>1. Distinct(fifo_pgn[p]) /\ \A h \in ToSet(fifo_pgn[p]) : h \in mapped[p] /\ Online(p, h)
    BY <1>1 DEF ProcAt, FifoAt
  <2>2. \A h \in ToSet(fifo_pgn[p]) : h \in mapped'[p] /\ InRam(pgd'[p][h])
    BY <1>2, <1>8, <1>9, <2>1 DEF Online
  <2>3. g \in mapped'[p] /\ InRam(pgd'[p][g])
    BY <1>6, <1>8, <1>9
  <2> QED BY <1>2, <1>12, <1>13, <2>1, <2>2, <2>3 DEF FifoAt, Online
<1>23. BelowAt(p)' /\ (Careful => DisjointAt(p)')
  BY <1>1 DEF ProcAt, BelowAt, DisjointAt, Named, areaVars
<1> QED BY <1>14, <1>15, <1>18, <1>19, <1>20, <1>21, <1>22, <1>23 DEF Kept, ProcAt

LEMMA FaultKeeps ==
    ASSUME MInv, NEW p \in Procs, FaultPage(p) \/ FaultPageNoSwap(p)
    PROVE  Kept(p)
<1>1. CASE FaultPage(p)
  <2> DEFINE head == local[p].head
  <2>1. /\ FaultSwaps(p, Head(head)) /\ mswp_free' = Tail(head)
        /\ pc[p] = "fault_unlink" /\ pc' = [pc EXCEPT ![p] = "io"]
        /\ UNCHANGED <<mmvm_lock, mram_free, areaVars, lostVars, crashed>>
    BY <1>1 DEF FaultPage, Goto, Unlink
  <2>2. head \in Seq(Swap) /\ head # << >>
    BY <2>1, TypeFacts DEF MInv, Locals, ProcInv, ProcAt, LocalAt
  <2>3. Head(head) \in Swap /\ Tail(head) \in Seq(Swap)
    BY <2>2, TailFacts
  <2> QED BY <1>1, <2>1, <2>3, FaultSwapsKeeps
<1>2. CASE FaultPageNoSwap(p)
  <2>1. PICK s \in Swap : FaultSwaps(p, s)
    BY <1>2 DEF FaultPageNoSwap
  <2>2. /\ mswp_free' \in Seq(Swap)
        /\ pc[p] = "fault_out" /\ pc' = [pc EXCEPT ![p] = "io"]
        /\ UNCHANGED <<mmvm_lock, mram_free, areaVars, lostVars, crashed>>
    BY <1>2, TypeFacts DEF FaultPageNoSwap, Goto, MInv
  <2> QED BY <1>2, <2>1, <2>2, FaultSwapsKeeps
<1> QED BY <1>1, <1>2

LEMMA ExitKeeps ==
    ASSUME MInv, Scope, NEW p \in Procs, Exit(p)
    PROVE  Kept(p)
<1>1. /\ UNCHANGED <<mmvm_lock, mram_free, mswp_free, local, crashed>>
      /\ Careful /\ pc[p] = "run" /\ UNCHANGED pc
      /\ lostRam' = lostRam \cup RamOf(p) /\ lostSwap' = lostSwap \cup SwapOf(p)
      /\ pgd' \in {pgd, [pgd EXCEPT ![p] = NoPages]}
      /\ symrgtbl' \in {symrgtbl, [symrgtbl EXCEPT ![p] = NoSymbols]}
      /\ fifo_pgn' = [fifo_pgn EXCEPT ![p] = << >>]
      /\ freerg' = [freerg EXCEPT ![p] = <<Region(0, 0)>>]
      /\ sbrk' = [sbrk EXCEPT ![p] = 0]
      /\ live' = [live EXCEPT ![p] = {}] /\ mapped' = [mapped EXCEPT ![p] = {}]
  BY DEF Exit, Goto, Scope, FirstArea, MInv, TypeOK
<1>2. /\ ramHolds' = [f \in Ram |-> IF \E g \in Pages : ramHolds[f] \in DataOf(p, g)
                                    THEN None ELSE ramHolds[f]]
      /\ swapHolds' = [f \in Swap |-> IF \E g \in Pages : swapHolds[f] \in DataOf(p, g)
                                      THEN None ELSE swapHolds[f]]
  BY DEF Exit, Disowned, MInv, TypeOK
<1>3. TypeOK /\ ProcAt(p) /\ RamSets /\ RamApart
  BY DEF MInv, ProcInv, RamInv
<1>4. SwapSets /\ SwapApart /\ PagesPreserved
  BY <1>1 DEF MInv, SwapInv
<1>5. /\ RamOf(p) \subseteq Ram /\ SwapOf(p) \subseteq Swap
  BY <1>3, <1>4 DEF RamSets, SwapSets
<1>6. TypeOK'
  <2>1. NoPages \in [Pages -> Ptes] /\ NoSymbols \in [Rgids -> Regions]
        /\ Region(0, 0) \in Regions /\ <<Region(0, 0)>> \in Seq(Regions)
    <3>1. Region(0, 0) \in Regions
      BY DEF Regions, Region
    <3> QED BY <3>1, NoPteFacts DEF NoPages, NoSymbols
  <2>2. pgd' \in [Procs -> [Pages -> Ptes]] /\ symrgtbl' \in [Procs -> [Rgids -> Regions]]
    <3>1. pgd \in [Procs -> [Pages -> Ptes]] /\ symrgtbl \in [Procs -> [Rgids -> Regions]]
      BY <1>3 DEF TypeOK
    <3>2. pgd' = pgd \/ pgd' = [pgd EXCEPT ![p] = NoPages]
      BY <1>1
    <3>3. symrgtbl' = symrgtbl \/ symrgtbl' = [symrgtbl EXCEPT ![p] = NoSymbols]
      BY <1>1
    <3>4. pgd' \in [Procs -> [Pages -> Ptes]]
      BY <2>1, <3>1, <3>2
    <3>5. symrgtbl' \in [Procs -> [Rgids -> Regions]]
      BY <2>1, <3>1, <3>3
    <3> QED BY <3>4, <3>5
  <2>3. ramHolds' \in [Ram -> Contents] /\ swapHolds' \in [Swap -> Contents]
    BY <1>2, <1>3 DEF TypeOK, Contents
  <2>4. 0 \in 0..HeapPages * PAGING_PAGESZ
    BY ConstantFacts
  <2>5. /\ fifo_pgn' \in [Procs -> Seq(Pages)] /\ freerg' \in [Procs -> Seq(Regions)]
        /\ sbrk' \in [Procs -> 0..HeapPages * PAGING_PAGESZ]
        /\ live' \in [Procs -> SUBSET Rgids] /\ mapped' \in [Procs -> SUBSET Pages]
        /\ lostRam' \subseteq Ram /\ lostSwap' \subseteq Swap
    BY <1>1, <1>3, <1>5, <2>1, <2>4 DEF TypeOK
  <2> QED BY <1>1, <1>3, <2>2, <2>3, <2>5 DEF TypeOK
<1>7. LockInv'
  BY <1>1 DEF MInv, LockInv
<1>8. /\ fifo_pgn'[p] = << >> /\ freerg'[p] = <<Region(0, 0)>> /\ sbrk'[p] = 0
      /\ live'[p] = {} /\ mapped'[p] = {}
      /\ \A q \in Procs \ {p} : mapped'[q] = mapped[q] /\ pgd'[q] = pgd[q]
      /\ \A q \in Procs : mapped[q] \subseteq Pages
  BY <1>1, <1>3 DEF TypeOK
<1>9. /\ RamOf(p)' = {} /\ SwapOf(p)' = {}
      /\ \A q \in Procs \ {p} : RamOf(q)' = RamOf(q) /\ SwapOf(q)' = SwapOf(q)
      /\ \A q \in Procs : Taking(q)' = Taking(q)
  <2>1. RamOf(p)' = {} /\ SwapOf(p)' = {}
    BY <1>8, FramesOfNext
  <2> QED BY <1>1, <2>1, OthersKept DEF Call, Taking
<1>10. \A q \in Procs \ {p} : RamOf(p) \cap RamOf(q) = {}
  BY RamOfApart
<1>11. \A q \in Procs \ {p} : SwapOf(p) \cap SwapOf(q) = {}
  BY <1>4, FramesOf DEF SwapApart
<1>12. RamInv'
  <2>1. RamApart'
    BY <1>3, <1>8 DEF RamApart, Online
  <2>2. \A q \in Procs : /\ RamOf(q)' \subseteq Ram
                         /\ ToSet(mram_free) \cap (Taking(q) \cup RamOf(q)') = {}
                         /\ lostRam' \cap (Taking(q) \cup RamOf(q)') = {}
    BY <1>1, <1>3, <1>9, <1>10 DEF RamSets
  <2>3. \A q, r \in Procs : Taking(q) \cap RamOf(r)' = {}
    BY <1>3, <1>9 DEF RamSets
  <2>4. \A f \in Ram : \/ f \in ToSet(mram_free) \/ f \in lostRam'
                       \/ \E q \in Procs : f \in Taking(q) \/ f \in RamOf(q)'
    <3> SUFFICES ASSUME NEW f \in Ram, f \notin ToSet(mram_free), f \notin lostRam'
                 PROVE  \E q \in Procs : f \in Taking(q) \/ f \in RamOf(q)'
      OBVIOUS
    <3>1. PICK q \in Procs : f \in Taking(q) \/ f \in RamOf(q)
      BY <1>1, <1>3 DEF RamSets
    <3> QED BY <1>1, <1>9, <3>1
  <2>5. ToSet(mram_free) \cap lostRam' = {}
    BY <1>1, <1>3 DEF RamSets
  <2>6. RamSets'
    BY <1>1, <1>3, <1>9, <2>2, <2>3, <2>4, <2>5 DEF RamSets
  <2> QED BY <2>1, <2>6 DEF RamInv
<1>19. DataMoves
  <2> SUFFICES ASSUME NEW q \in Procs, NEW g \in mapped[q], q # p
               PROVE  DataAt(q, g)' = DataAt(q, g)
    BY <1>8 DEF DataMoves
  <2>1. pgd'[q][g] = pgd[q][g]
    BY <1>8
  <2>2. \A h : DataOf(q, g) \cap DataOf(p, h) = {}
    BY DEF DataOf, Whole, Mixed
  <2>3. CASE Online(q, g)
    <3> DEFINE x == PAGING_PTE_FPN(pgd[q][g])
    <3>1. x \in Ram /\ ramHolds[x] \in DataOf(q, g) /\ DataAt(q, g) = ramHolds[x]
      BY <1>1, <2>3, MappedIsSomewhere
    <3>2. DataAt(q, g)' = ramHolds'[x]
      BY <2>1, <2>3 DEF DataAt, Online
    <3> HIDE DEF x
    <3> QED BY <1>2, <2>2, <3>1, <3>2
  <2>4. CASE ~Online(q, g)
    <3> DEFINE x == PAGING_PTE_SWP(pgd[q][g])
    <3>1. x \in Swap /\ swapHolds[x] \in DataOf(q, g) /\ DataAt(q, g) = swapHolds[x]
      BY <1>1, <2>4, MappedIsSomewhere
    <3>2. DataAt(q, g)' = swapHolds'[x]
      BY <2>1, <2>4 DEF DataAt, Online
    <3> HIDE DEF x
    <3> QED BY <1>2, <2>2, <3>1, <3>2
  <2> QED BY <2>3, <2>4
<1>13. SwapInv'
  <2>1. SwapApart'
    BY <1>4, <1>8 DEF SwapApart, Swapped
  <2>2. \A q \in Procs : /\ SwapOf(q)' \subseteq Swap
                         /\ ToSet(mswp_free) \cap SwapOf(q)' = {}
                         /\ lostSwap' \cap SwapOf(q)' = {}
    BY <1>1, <1>4, <1>9, <1>11 DEF SwapSets
  <2>3. \A s \in Swap : \/ s \in ToSet(mswp_free) \/ s \in lostSwap'
                        \/ \E q \in Procs : s \in SwapOf(q)'
    BY <1>1, <1>4, <1>9 DEF SwapSets
  <2>4. SwapSets'
    BY <1>1, <1>4, <2>2, <2>3 DEF SwapSets
  <2>5. PagesPreserved'
    BY <1>1, <1>8, <1>19, MovedArePreserved
  <2> QED BY <2>1, <2>4, <2>5 DEF SwapInv
<1>14. LocalAt(p)'
  BY <1>1, <1>3 DEF ProcAt, LocalAt, Allocating, Faulting, WithVictim
<1>15. AreaAt(p)'
  <2>1. Page(0) = 0 /\ 0 * PAGING_PAGESZ = 0
    BY ConstantFacts DEF Page
  <2> QED BY <1>1, <1>8, <2>1 DEF AreaAt, Brk
<1>16. FifoAt(p)'
  BY <1>8, EmptyFacts DEF FifoAt
<1>17. /\ Len(freerg'[p]) = 1 /\ freerg'[p][1].end = 0
  BY <1>8 DEF Region
<1>18. BelowAt(p)' /\ DisjointAt(p)'
  BY <1>1, <1>8, <1>17 DEF BelowAt, Named, DisjointAt, Apart
<1> QED BY <1>6, <1>7, <1>12, <1>13, <1>14, <1>15, <1>16, <1>18, <1>19 DEF Kept, ProcAt

(* The pages that an allocation adds are behind the break, and unmapped.   *)
LEMMA NewPages ==
    ASSUME MInv, NEW p \in Procs, pc[p] = "grow", local[p].need = 0
    PROVE  LET n == Len(local[p].frames)  b == Brk(p) IN
           /\ n \in Nat /\ n = PagesFor(local[p].size) /\ b \in Nat
           /\ sbrk[p] = b * PAGING_PAGESZ /\ Page(sbrk[p]) = b
           /\ sbrk[p] + n * PAGING_PAGESZ = (b + n) * PAGING_PAGESZ
           /\ sbrk[p] + n * PAGING_PAGESZ \in 0..HeapPages * PAGING_PAGESZ
           /\ sbrk[p] + local[p].size <= sbrk[p] + n * PAGING_PAGESZ
           /\ b..b + n - 1 \subseteq 0..HeapPages - 1
           /\ b..b + n - 1 \subseteq Pages
           /\ (b..b + n - 1) \cap mapped[p] = {}
<1> DEFINE n == Len(local[p].frames)
           b == Brk(p)
           size == local[p].size
           N == b..b + n - 1
<1>1. /\ Collected(p) /\ AreaAt(p) /\ local[p] \in Locals
      /\ sbrk[p] \in Nat /\ mapped[p] \subseteq Pages
  BY TypeFacts DEF MInv, ProcInv, ProcAt, LocalAt, Allocating
<1>2. n \in Nat /\ size \in Nat \ {0}
  BY <1>1, ConstantFacts DEF Collected, Locals
<1>3. n = PagesFor(size)
  BY <1>1, <1>2 DEF Collected
<1>4. /\ Aligned(size) = n * PAGING_PAGESZ /\ Aligned(size) >= size
      /\ Aligned(size) \in Nat
  BY <1>2, <1>3, PagesForFacts
<1>5. b \in Nat /\ sbrk[p] = b * PAGING_PAGESZ /\ Page(sbrk[p]) = b
  BY <1>1, PageFacts DEF AreaAt, Brk
<1>6. HeapPages \in Nat /\ HeapPages * PAGING_PAGESZ \in Nat
  BY ConstantFacts
<1>7. sbrk[p] + n * PAGING_PAGESZ <= HeapPages * PAGING_PAGESZ
  BY <1>1, <1>4 DEF Collected
<1> HIDE DEF n, b, size
<1>8. /\ sbrk[p] + n * PAGING_PAGESZ = (b + n) * PAGING_PAGESZ
      /\ b + n <= HeapPages
  <2>1. b * PAGING_PAGESZ + n * PAGING_PAGESZ = (b + n) * PAGING_PAGESZ
    BY <1>2, <1>5, <1>6, PagesSum
  <2>2. sbrk[p] + n * PAGING_PAGESZ = (b + n) * PAGING_PAGESZ
    BY <1>5, <2>1
  <2>3. (b + n) * PAGING_PAGESZ <= HeapPages * PAGING_PAGESZ
    BY <1>7, <2>2
  <2> DEFINE k == b + n
  <2>4. k \in Nat
    BY <1>2, <1>5
  <2>5. k * PAGING_PAGESZ <= HeapPages * PAGING_PAGESZ
    BY <2>3
  <2> HIDE DEF k
  <2>6. k <= HeapPages
    BY <1>6, <2>4, <2>5, PagesSum
  <2> QED BY <2>2, <2>6 DEF k
<1>9. N \subseteq 0..HeapPages - 1
  BY <1>2, <1>5, <1>6, <1>8
<1>10. N \subseteq Pages
  BY <1>9 DEF Pages
<1>11. N \cap mapped[p] = {}
  <2>1. \A g \in N : g \notin 0..b - 1 /\ g \notin WildPages
    BY <1>2, <1>5, <1>6, <1>9, ConstantFacts
  <2> QED BY <1>1, <2>1 DEF AreaAt, b
<1>12. sbrk[p] + n * PAGING_PAGESZ \in 0..HeapPages * PAGING_PAGESZ
       /\ sbrk[p] + size <= sbrk[p] + n * PAGING_PAGESZ
  BY <1>1, <1>2, <1>4, <1>6, <1>7
<1> QED BY <1>2, <1>3, <1>5, <1>8, <1>9, <1>10, <1>11, <1>12 DEF n, b, size

LEMMA MapRangeKeeps ==
    ASSUME MInv, NEW p \in Procs, MapRange(p)
    PROVE  Kept(p)
<1> DEFINE frames == local[p].frames
           n == Len(frames)
           b == Brk(p)
           old == sbrk[p]
           top == old + n * PAGING_PAGESZ
           N == b..b + n - 1
           r == local[p].rgid
           size == local[p].size
           list == <<Grown(old, n)>> \o freerg[p]
           after == AfterTake(list, size)
           table == [symrgtbl[p] EXCEPT ![r] = Taken(list, size)]
           down == [i \in 1..n |-> b + n - i]
           fifo == down \o fifo_pgn[p]
           pages == [g \in Pages |-> IF g - b + 1 \in 1..n
                                     THEN pte_set_fpn(pgd[p][g], frames[g - b + 1])
                                     ELSE pgd[p][g]]
           holds == [f \in Ram |-> IF \E i \in 1..n : frames[i] = f
                                   THEN Whole(p, b - 1 + CHOOSE i \in 1..n : frames[i] = f)
                                   ELSE ramHolds[f]]
<1>1. pc[p] = "grow" /\ local[p].need = 0
  BY DEF MapRange
<1>2. /\ n \in Nat /\ n = PagesFor(size) /\ b \in Nat
      /\ old = b * PAGING_PAGESZ /\ Page(old) = b
      /\ top = (b + n) * PAGING_PAGESZ /\ top \in 0..HeapPages * PAGING_PAGESZ
      /\ old + size <= top
      /\ N \subseteq 0..HeapPages - 1 /\ N \subseteq Pages /\ N \cap mapped[p] = {}
  BY <1>1, NewPages
<1>3. /\ UNCHANGED <<mram_free, mswp_free, swapHolds, lostVars, crashed>>
      /\ mmvm_lock' = None
      /\ pc' = [pc EXCEPT ![p] = "run"] /\ local' = [local EXCEPT ![p] = NoLocal]
      /\ pgd' = [pgd EXCEPT ![p] = pages]
      /\ ramHolds' = holds
      /\ fifo_pgn' = [fifo_pgn EXCEPT ![p] = fifo]
      /\ mapped' = [mapped EXCEPT ![p] = mapped[p] \cup N]
      /\ sbrk' = [sbrk EXCEPT ![p] = top]
  <2>1. Page(sbrk[p]) = b
    BY <1>2
  <2> QED BY <2>1 DEF MapRange, Return
<1>4. /\ symrgtbl' = [symrgtbl EXCEPT ![p][r] = Taken(list, size)]
      /\ freerg' = [freerg EXCEPT ![p] = after]
      /\ live' = [live EXCEPT ![p] = live[p] \cup {r}]
  BY DEF MapRange, TakeRegion
<1>5. /\ TypeOK /\ ProcAt(p) /\ Collected(p)
      /\ local \in [Procs -> Locals] /\ frames \in Seq(Ram)
      /\ freerg[p] \in Seq(Regions) /\ symrgtbl[p] \in [Rgids -> Regions]
      /\ live[p] \in SUBSET Rgids /\ r \in Rgids /\ size \in Nat /\ old \in Nat
      /\ mapped[p] \subseteq Pages /\ pgd[p] \in [Pages -> Ptes]
      /\ fifo_pgn[p] \in Seq(Pages)
  <2>1. TypeOK /\ ProcAt(p)
    BY DEF MInv, ProcInv
  <2>2. Collected(p)
    BY <1>1, <2>1 DEF ProcAt, LocalAt, Allocating
  <2> QED BY <2>1, <2>2, TypeFacts, ConstantFacts DEF Collected, Locals
<1>6. /\ Distinct(frames) /\ ToSet(frames) = Taking(p) /\ Distinct(fifo_pgn[p])
      /\ \A f : f \in ToSet(frames) <=> \E i \in 1..n : frames[i] = f
      /\ \A i \in 1..n : frames[i] \in Ram
      /\ \A h \in ToSet(fifo_pgn[p]) : h \in mapped[p] /\ Online(p, h)
  BY <1>5, ElementFacts DEF MInv, RamInv, RamSets, ProcAt, FifoAt, Taking
<1> HIDE DEF frames, n, b, top

(* The entries of the new pages, and what the frames hold.                 *)
<1>7. /\ pages \in [Pages -> Ptes]
      /\ \A g \in Pages \ N : pages[g] = pgd[p][g]
      /\ \A g \in N : /\ InRam(pages[g]) /\ ~InSwap(pages[g]) /\ pages[g].present = 1
                      /\ g - b + 1 \in 1..n
                      /\ PAGING_PTE_FPN(pages[g]) = frames[g - b + 1]
  <2>1. ASSUME NEW g \in N
        PROVE  /\ g - b + 1 \in 1..n /\ frames[g - b + 1] \in 0..FpnRange - 1
               /\ pgd[p][g] \in Ptes
               /\ pages[g] = pte_set_fpn(pgd[p][g], frames[g - b + 1])
    <3>1. g \in Pages /\ g \in Nat /\ g >= b /\ g <= b + n - 1
      BY <1>2
    <3>2. g - b + 1 \in 1..n
      BY <1>2, <3>1
    <3> QED BY <1>5, <1>6, <3>1, <3>2, ConstantFacts
  <2>2. ASSUME NEW g \in Pages \ N PROVE pages[g] = pgd[p][g]
    <3>1. g \in Nat
      BY ConstantFacts
    <3>2. g - b + 1 \notin 1..n
      BY <1>2, <2>2, <3>1
    <3> QED BY <3>2
  <2>3. \A g \in N : /\ InRam(pages[g]) /\ ~InSwap(pages[g]) /\ pages[g].present = 1
                     /\ pages[g] \in Ptes
                     /\ PAGING_PTE_FPN(pages[g]) = frames[g - b + 1]
    BY <2>1, SetFpnFacts
  <2>4. \A g \in Pages : pages[g] \in Ptes
    BY <1>5, <2>2, <2>3
  <2>5. pages \in [Pages -> Ptes]
    BY <2>4
  <2> HIDE DEF pages
  <2> QED BY <2>1, <2>2, <2>3, <2>5
<1>8. \A i \in 1..n : b + i - 1 \in N /\ (b + i - 1) - b + 1 = i
  BY <1>2
<1>9. /\ \A i \in 1..n : holds[frames[i]] = Whole(p, b - 1 + i)
      /\ \A f \in Ram : f \notin ToSet(frames) => holds[f] = ramHolds[f]
  <2>1. ASSUME NEW i \in 1..n PROVE holds[frames[i]] = Whole(p, b - 1 + i)
    <3>1. \A j \in 1..n : frames[j] = frames[i] => j = i
      BY <1>6 DEF Distinct, n
    <3>2. (CHOOSE j \in 1..n : frames[j] = frames[i]) = i
      BY <3>1
    <3> QED BY <1>6, <3>2
  <2> QED BY <1>6, <2>1
<1>10. holds \in [Ram -> Contents]
  <2> DEFINE h == holds
  <2>1. h = [f \in Ram |-> h[f]]
    BY DEF holds
  <2>2. ramHolds \in [Ram -> Contents]
    BY <1>5 DEF TypeOK
  <2>3. /\ \A i \in 1..n : h[frames[i]] = Whole(p, b - 1 + i)
        /\ \A f \in Ram : f \notin ToSet(frames) => h[f] = ramHolds[f]
    BY <1>9
  <2> HIDE DEF h, holds
  <2>4. \A i \in 1..n : Whole(p, b - 1 + i) \in Contents
    <3> SUFFICES ASSUME NEW i \in 1..n PROVE Whole(p, b - 1 + i) \in Contents
      OBVIOUS
    <3>1. b + i - 1 \in Pages /\ b + i - 1 = b - 1 + i
      BY <1>2, <1>8
    <3> QED BY <3>1 DEF Contents, Whole
  <2>5. \A f \in Ram : h[f] \in Contents
    <3> SUFFICES ASSUME NEW f \in Ram PROVE h[f] \in Contents
      OBVIOUS
    <3>1. CASE f \in ToSet(frames)
      <4>1. PICK i \in 1..n : frames[i] = f
        BY <1>6, <3>1, Zenon
      <4>2. h[frames[i]] \in Contents
        BY <2>3, <2>4, Zenon
      <4> QED BY <4>1, <4>2
    <3>2. CASE f \notin ToSet(frames)
      BY <2>2, <2>3, <3>2
    <3> QED BY <3>1, <3>2
  <2>6. h \in [Ram -> Contents]
    BY <2>1, <2>5
  <2> QED BY <2>6 DEF h
<1> HIDE DEF pages, holds

(* The candidates.                                                         *)
<1>11. /\ fifo \in Seq(Pages) /\ ToSet(fifo) = N \cup ToSet(fifo_pgn[p])
       /\ Distinct(fifo)
  <2>1. down \in Seq(N) /\ ToSet(down) = N /\ Distinct(down)
    BY <1>2, DescendingFacts
  <2>2. down \in Seq(Pages)
    <3>1. \A i \in 1..n : b + n - i \in N
      BY <1>2
    <3>2. \A i \in 1..n : b + n - i \in Pages
      <4>1. N \subseteq Pages
        BY <1>2
      <4> HIDE DEF N
      <4> QED BY <3>1, <4>1
    <3>3. down \in [1..n -> Pages]
      BY <3>2
    <3> HIDE DEF down
    <3> QED BY <1>2, <3>3, SeqDef
  <2>3. N \cap ToSet(fifo_pgn[p]) = {}
    BY <1>2, <1>6
  <2> HIDE DEF down, N
  <2> QED BY <1>5, <1>6, <2>1, <2>2, <2>3, JoinFacts
<1> HIDE DEF fifo

(* The regions.                                                            *)
<1>12. /\ Grown(old, n) \in Regions /\ Grown(old, n).start = old
       /\ Grown(old, n).end = top
  <2>1. Grown(old, n) = [start |-> old, end |-> top] /\ top \in Nat
    BY <1>2 DEF Grown, Region, top
  <2> QED BY <1>5, <2>1 DEF Regions
<1>13. /\ list \in Seq(Regions) /\ list[1] = Grown(old, n) /\ Len(list) = Len(freerg[p]) + 1
       /\ \A i \in 2..Len(list) : list[i] = freerg[p][i - 1]
  BY <1>5, <1>12, ConsFacts
<1> HIDE DEF list
<1>14. 1 \in 1..Len(list) /\ HasFit(list, size)
  <2>1. 1 \in 1..Len(list)
    BY <1>5, <1>13
  <2>2. Fits(list[1], size)
    BY <1>2, <1>12, <1>13 DEF Fits
  <2> QED BY <2>1, <2>2 DEF HasFit
<1>15. \A i \in 1..Len(list) : list[i].end <= top
  <2> SUFFICES ASSUME NEW i \in 1..Len(list) PROVE list[i].end <= top
    OBVIOUS
  <2>1. CASE i = 1
    BY <1>2, <1>12, <1>13, <2>1
  <2>2. CASE i # 1
    <3>1. Len(freerg[p]) \in Nat
      BY <1>5
    <3>2. i \in 2..Len(list) /\ i - 1 \in 1..Len(freerg[p])
      BY <1>13, <2>2, <3>1
    <3>3. list[i] = freerg[p][i - 1]
      BY <1>13, <3>2
    <3>4. freerg[p][i - 1] \in Regions /\ freerg[p][i - 1].end <= old
      BY <1>5, <3>2 DEF ProcAt, BelowAt
    <3>5. freerg[p][i - 1].end \in Nat
      BY <3>4 DEF Regions
    <3>6. old <= top /\ top \in Nat
      <4>1. size \in Nat /\ old + size <= top /\ top \in Nat
        BY <1>2, <1>5
      <4> QED BY <1>5, <4>1
    <3> DEFINE e == freerg[p][i - 1].end
    <3>7. e \in Nat /\ e <= old /\ old <= top /\ old \in Nat /\ top \in Nat
      BY <1>5, <3>4, <3>5, <3>6
    <3>8. list[i].end = e
      BY <3>3
    <3> HIDE DEF e
    <3> QED BY <3>7, <3>8
  <2> QED BY <2>1, <2>2
<1>16. Careful => Apart(symrgtbl[p], live[p], list)
  <2> SUFFICES ASSUME Careful PROVE Apart(symrgtbl[p], live[p], list)
    OBVIOUS
  <2>1. Apart(symrgtbl[p], live[p], freerg[p])
    BY <1>5 DEF ProcAt, DisjointAt
  <2>2. \A rg \in Regions : rg.end <= old => Bytes(rg) \cap Bytes(Grown(old, n)) = {}
    <3> SUFFICES ASSUME NEW rg \in Regions, rg.end <= old
                 PROVE  Bytes(rg) \cap Bytes(Grown(old, n)) = {}
      OBVIOUS
    <3>1. /\ Bytes(rg) = rg.start..rg.end - 1 /\ rg.start \in Nat /\ rg.end \in Nat
          /\ Bytes(Grown(old, n)) = old..top - 1 /\ top \in Nat
      BY <1>2, <1>12 DEF Bytes, Regions
    <3>2. \A x : ~(x \in rg.start..rg.end - 1 /\ x \in old..top - 1)
      BY <1>5, <3>1
    <3> QED BY <3>1, <3>2
  <2>3. /\ \A q \in live[p] : Bytes(symrgtbl[p][q]) \cap Bytes(Grown(old, n)) = {}
        /\ \A i \in 1..Len(freerg[p]) : Bytes(freerg[p][i]) \cap Bytes(Grown(old, n)) = {}
    BY <1>5, <2>2 DEF ProcAt, BelowAt, Named
  <2> QED BY <1>5, <1>12, <2>1, <2>3, PutKeeps DEF list
<1>17. /\ table \in [Rgids -> Regions] /\ after \in Seq(Regions)
       /\ table[r].end <= top /\ \A j \in 1..Len(after) : after[j].end <= top
       /\ Careful => Apart(table, live[p] \cup {r}, after)
       /\ \A q \in Rgids \ {r} : table[q] = symrgtbl[p][q]
  <2>1. table \in [Rgids -> Regions] /\ \A q \in Rgids \ {r} : table[q] = symrgtbl[p][q]
    BY <1>5, <1>13, <1>14, TakeKeeps
  <2>2. top \in Nat
    BY <1>2
  <2>3. after \in Seq(Regions)
    BY <1>5, <1>13, <1>14, TakeKeeps
  <2>4. table[r].end <= top /\ \A j \in 1..Len(after) : after[j].end <= top
    BY <1>5, <1>13, <1>14, <1>15, <2>2, TakeKeeps
  <2>5. Careful => Apart(table, live[p] \cup {r}, after)
    BY <1>5, <1>13, <1>14, <1>16, TakeKeeps
  <2> QED BY <2>1, <2>3, <2>4, <2>5
<1>18. symrgtbl' = [symrgtbl EXCEPT ![p] = table]
  BY <1>4, <1>5 DEF TypeOK
<1> HIDE DEF table, after, N

<1>19. /\ pgd' \in [Procs -> [Pages -> Ptes]] /\ fifo_pgn' \in [Procs -> Seq(Pages)]
       /\ mapped' \in [Procs -> SUBSET Pages] /\ sbrk' \in [Procs -> 0..HeapPages * PAGING_PAGESZ]
       /\ symrgtbl' \in [Procs -> [Rgids -> Regions]] /\ freerg' \in [Procs -> Seq(Regions)]
       /\ live' \in [Procs -> SUBSET Rgids] /\ local' \in [Procs -> Locals]
       /\ ramHolds' \in [Ram -> Contents]
  <2>1. pgd' \in [Procs -> [Pages -> Ptes]]
    BY <1>3, <1>5, <1>7 DEF TypeOK
  <2>2. fifo_pgn' \in [Procs -> Seq(Pages)]
    BY <1>3, <1>5, <1>11 DEF TypeOK
  <2>3. mapped' \in [Procs -> SUBSET Pages]
    <3>1. mapped[p] \cup N \in SUBSET Pages
      BY <1>2, <1>5 DEF N
    <3> QED BY <1>3, <1>5, <3>1 DEF TypeOK
  <2>4. sbrk' \in [Procs -> 0..HeapPages * PAGING_PAGESZ]
    <3> DEFINE B == 0..HeapPages * PAGING_PAGESZ
    <3>1. sbrk \in [Procs -> B] /\ top \in B
      BY <1>2, <1>5 DEF TypeOK
    <3> HIDE DEF B
    <3>2. sbrk' \in [Procs -> B]
      BY <1>3, <3>1
    <3> QED BY <3>2 DEF B
  <2>5. symrgtbl' \in [Procs -> [Rgids -> Regions]]
    BY <1>5, <1>17, <1>18 DEF TypeOK
  <2>6. freerg' \in [Procs -> Seq(Regions)]
    BY <1>4, <1>5, <1>17 DEF TypeOK
  <2>7. live' \in [Procs -> SUBSET Rgids]
    BY <1>4, <1>5 DEF TypeOK
  <2>8. local' \in [Procs -> Locals]
    BY <1>3, <1>5, NoLocalFacts
  <2>9. ramHolds' \in [Ram -> Contents]
    BY <1>3, <1>10
  <2> QED BY <2>1, <2>2, <2>3, <2>4, <2>5, <2>6, <2>7, <2>8, <2>9
<1>20. TypeOK'
  BY <1>3, <1>5, <1>19 DEF TypeOK, Locals, lostVars
<1>21. /\ pgd'[p] = pages /\ fifo_pgn'[p] = fifo /\ mapped'[p] = mapped[p] \cup N
       /\ sbrk'[p] = top /\ symrgtbl'[p] = table /\ freerg'[p] = after
       /\ live'[p] = live[p] \cup {r} /\ local'[p] = NoLocal /\ pc'[p] = "run"
       /\ \A q \in Procs \ {p} : /\ pgd'[q] = pgd[q] /\ mapped'[q] = mapped[q]
                                 /\ local'[q] = local[q] /\ pc'[q] = pc[q]
       /\ \A q \in Procs : mapped[q] \subseteq Pages
  BY <1>3, <1>4, <1>5, <1>18 DEF TypeOK
<1>22. LockInv'
  BY <1>1, <1>3, <1>21, ConstantFacts DEF MInv, LockInv, Allocating
<1>23. \A q \in Procs : \A g \in mapped'[q] :
          \/ q = p /\ g \in N /\ pgd'[q][g] = pages[g]
          \/ g \in mapped[q] /\ (q = p => g \notin N) /\ pgd'[q][g] = pgd[q][g]
  <2>1. \A g \in mapped[p] : g \notin N /\ pages[g] = pgd[p][g]
    BY <1>2, <1>5, <1>7 DEF N
  <2> QED BY <1>21, <2>1
<1>24. /\ RamOf(p)' = RamOf(p) \cup Taking(p) /\ SwapOf(p)' = SwapOf(p)
       /\ \A q \in Procs \ {p} : /\ RamOf(q)' = RamOf(q) /\ SwapOf(q)' = SwapOf(q)
  <2>1. \A q \in Procs \ {p} : /\ RamOf(q)' = RamOf(q) /\ SwapOf(q)' = SwapOf(q)
    BY OthersKept DEF Step
  <2>2. \A g \in mapped[p] : g \in mapped'[p] /\ pgd'[p][g] = pgd[p][g]
    BY <1>2, <1>5, <1>7, <1>21 DEF N
  <2>3. ASSUME NEW x \in Taking(p) PROVE x \in RamOf(p)'
    <3>1. PICK i \in 1..n : frames[i] = x
      BY <1>6
    <3>2. b + i - 1 \in N /\ InRam(pages[b + i - 1]) /\ PAGING_PTE_FPN(pages[b + i - 1]) = x
      BY <1>7, <1>8, <3>1 DEF N
    <3> QED BY <1>21, <3>2, FramesOfNext
  <2>4. ASSUME NEW x \in RamOf(p)' PROVE x \in RamOf(p) \cup Taking(p)
    <3>1. PICK g \in mapped'[p] : InRam(pgd'[p][g]) /\ PAGING_PTE_FPN(pgd'[p][g]) = x
      BY <2>4, FramesOfNext
    <3>2. CASE g \in N /\ pgd'[p][g] = pages[g]
      BY <1>6, <1>7, <3>1, <3>2 DEF N
    <3>3. CASE g \in mapped[p] /\ pgd'[p][g] = pgd[p][g]
      BY <3>1, <3>3, FramesOf DEF Online
    <3> QED BY <1>23, <3>2, <3>3
  <2>5. ASSUME NEW x \in RamOf(p) PROVE x \in RamOf(p)'
    BY <2>2, <2>5, FramesOf, FramesOfNext DEF Online
  <2>6. RamOf(p)' = RamOf(p) \cup Taking(p)
    BY <2>3, <2>4, <2>5
  <2>7. ASSUME NEW x PROVE x \in SwapOf(p)' <=> x \in SwapOf(p)
    <3>1. \A g \in N : ~InSwap(pages[g])
      BY <1>7 DEF N
    <3> QED BY <1>23, <2>2, <3>1, FramesOf, FramesOfNext DEF Swapped
  <2>8. SwapOf(p)' = SwapOf(p)
    BY <2>7
  <2> QED BY <2>1, <2>6, <2>8
<1>25. RamInv'
  <2>1. RamSets /\ RamApart
    BY DEF MInv, RamInv
  <2>2. RamApart'
    <3> SUFFICES ASSUME NEW q \in Procs, NEW x \in Procs,
                        NEW h \in mapped'[q], NEW k \in mapped'[x],
                        InRam(pgd'[q][h]), InRam(pgd'[x][k]),
                        PAGING_PTE_FPN(pgd'[q][h]) = PAGING_PTE_FPN(pgd'[x][k])
                 PROVE  q = x /\ h = k
      BY DEF RamApart, Online
    <3>1. \A g \in N : PAGING_PTE_FPN(pages[g]) \in Taking(p)
      BY <1>6, <1>7 DEF N
    <3>2. \A y \in Procs : \A g \in mapped[y] :
             InRam(pgd[y][g]) => PAGING_PTE_FPN(pgd[y][g]) \notin Taking(p)
      BY <2>1, FramesOf DEF RamSets, Online
    <3>3. CASE /\ q = p /\ h \in N /\ pgd'[q][h] = pages[h]
               /\ x = p /\ k \in N /\ pgd'[x][k] = pages[k]
      <4>1. /\ h - b + 1 \in 1..n /\ k - b + 1 \in 1..n
            /\ frames[h - b + 1] = frames[k - b + 1]
        BY <1>7, <3>3 DEF N
      <4>2. h - b + 1 = k - b + 1
        BY <1>6, <4>1 DEF Distinct, n
      <4>3. h \in Nat /\ k \in Nat
        BY <1>2, <3>3, ConstantFacts DEF N
      <4> QED BY <1>2, <3>3, <4>2, <4>3
    <3>4. CASE /\ h \in mapped[q] /\ pgd'[q][h] = pgd[q][h]
               /\ k \in mapped[x] /\ pgd'[x][k] = pgd[x][k]
      BY <2>1, <3>4 DEF RamApart, Online
    <3> QED BY <1>23, <3>1, <3>2, <3>3, <3>4
  <2>3. /\ Taking(p)' = {} /\ Distinct(local'[p].frames)
        /\ \A q \in Procs \ {p} : /\ Taking(q)' = Taking(q) /\ Taking(q) = {}
                                  /\ Distinct(local'[q].frames)
    <3>1. pc[p] \in Allocating
      BY <1>1 DEF Allocating
    <3> QED BY <1>21, <3>1, OthersTakeNothing, EmptyFacts, NoLocalFacts DEF Taking
  <2>4. \A q \in Procs : /\ RamOf(q)' \subseteq Ram
                         /\ ToSet(mram_free') \cap (Taking(q)' \cup RamOf(q)') = {}
                         /\ lostRam' \cap (Taking(q)' \cup RamOf(q)') = {}
    <3>1. Taking(p) \subseteq Ram
      BY <1>6
    <3> QED BY <1>3, <1>24, <2>1, <2>3, <3>1 DEF RamSets, lostVars
  <2>5. \A f \in Ram : \/ f \in ToSet(mram_free') \/ f \in lostRam'
                       \/ \E q \in Procs : f \in Taking(q)' \/ f \in RamOf(q)'
    <3>1. \A q \in Procs : Taking(q) \cup RamOf(q) \subseteq RamOf(q)' \cup Taking(q)'
      BY <1>24, <2>3
    <3> QED BY <1>3, <2>1, <3>1 DEF RamSets, lostVars
  <2>6. RamSets'
    BY <1>3, <2>1, <2>3, <2>4, <2>5 DEF RamSets, lostVars
  <2> QED BY <2>2, <2>6 DEF RamInv
<1>32. DataMoves
  <2> SUFFICES ASSUME Careful, NEW q \in Procs, NEW g \in mapped[q], g \in mapped'[q]
               PROVE  DataAt(q, g)' = DataAt(q, g)
    BY DEF DataMoves
  <2>1. pgd'[q][g] = pgd[q][g]
    BY <1>2, <1>23 DEF N
  <2>2. CASE Online(q, g)
    <3> DEFINE x == PAGING_PTE_FPN(pgd[q][g])
    <3>1. x \in Ram /\ x \in RamOf(q) /\ DataAt(q, g) = ramHolds[x]
      BY <2>2, MappedIsSomewhere
    <3>2. x \notin Taking(p)
      BY <3>1 DEF MInv, RamInv, RamSets
    <3>3. DataAt(q, g)' = holds[x]
      BY <1>3, <2>1, <2>2 DEF DataAt, Online
    <3> HIDE DEF x
    <3> QED BY <1>6, <1>9, <3>1, <3>2, <3>3
  <2>3. CASE ~Online(q, g)
    BY <1>3, <2>1, <2>3 DEF DataAt, Online
  <2> QED BY <2>2, <2>3
<1>33. ASSUME NEW q \in Procs, NEW g \in mapped'[q] \ mapped[q]
       PROVE  DataAt(q, g)' \in DataOf(q, g)
  <2>1. q = p /\ g \in N /\ pgd'[q][g] = pages[g]
    BY <1>23
  <2>2. /\ InRam(pages[g]) /\ g - b + 1 \in 1..n
        /\ PAGING_PTE_FPN(pages[g]) = frames[g - b + 1] /\ g \in Nat
    BY <1>2, <1>7, <2>1, ConstantFacts DEF N
  <2>3. b - 1 + (g - b + 1) = g
    BY <1>2, <2>2
  <2>4. holds[frames[g - b + 1]] = Whole(p, g)
    BY <1>9, <2>2, <2>3
  <2>5. DataAt(q, g)' = Whole(p, g)
    BY <1>3, <2>1, <2>2, <2>4 DEF DataAt, Online
  <2> QED BY <2>1, <2>5 DEF DataOf
<1>26. SwapInv'
  <2> SUFFICES ASSUME Careful PROVE SwapApart' /\ SwapSets' /\ PagesPreserved'
    BY DEF SwapInv
  <2>1. SwapApart /\ SwapSets /\ PagesPreserved
    BY DEF MInv, SwapInv
  <2>2. \A g \in N : ~InSwap(pages[g])
    BY <1>7 DEF N
  <2>3. SwapApart'
    BY <1>23, <2>1, <2>2 DEF SwapApart, Swapped
  <2>4. \A q \in Procs : pc'[q] # "evict_unlink"
    BY <1>1, <1>21 DEF MInv, LockInv, Allocating
  <2>5. SwapSets'
    <3>1. \A q \in Procs : SwapOf(q)' = SwapOf(q)
      BY <1>24
    <3> QED BY <1>3, <2>1, <2>4, <3>1 DEF SwapSets, lostVars
  <2>6. PagesPreserved'
    BY <1>32, <1>33, MovedArePreserved
  <2> QED BY <2>3, <2>5, <2>6
<1>27. LocalAt(p)'
  BY <1>21, NoLocalFacts DEF LocalAt, Allocating, Faulting, WithVictim
<1>28. AreaAt(p)'
  <2>1. Brk(p)' = b + n
    BY <1>2, <1>21, PageFacts DEF Brk
  <2>2. n > 0
    <3>1. size \in Nat \ {0}
      BY <1>5, ConstantFacts DEF Collected
    <3>2. PagesFor(size) \in Nat \ {0}
      BY <3>1, PagesForFacts
    <3> QED BY <1>2, <3>2
  <2>3. 0..b + n - 1 = (0..b - 1) \cup N
    BY <1>2 DEF N
  <2>4. /\ 0..b - 1 \subseteq mapped[p] /\ mapped[p] \subseteq (0..b - 1) \cup WildPages
        /\ \A g \in mapped[p] : pgd[p][g].present = 1
        /\ ~Careful => \A g \in Pages \ mapped[p] : pgd[p][g] = NoPte
    BY <1>5 DEF ProcAt, AreaAt, b
  <2>5. \A g \in mapped'[p] : pgd'[p][g].present = 1
    BY <1>7, <1>23, <2>4 DEF N
  <2>6. ~Careful => \A g \in Pages \ mapped'[p] : pgd'[p][g] = NoPte
    BY <1>7, <1>21, <2>4 DEF N
  <2> QED BY <1>2, <1>21, <2>1, <2>2, <2>3, <2>4, <2>5, <2>6 DEF AreaAt
<1>29. FifoAt(p)'
  <2>1. \A g \in N : InRam(pages[g])
    BY <1>7 DEF N
  <2> QED BY <1>6, <1>11, <1>21, <1>23, <2>1 DEF FifoAt, Online, N
<1>30. BelowAt(p)'
  <2>1. \A q \in Named(p)' : table[q].end <= top
    <3> SUFFICES ASSUME NEW q \in Named(p)' PROVE table[q].end <= top
      OBVIOUS
    <3>1. q = r \/ (q \in Named(p) /\ q \in Rgids \ {r})
      BY <1>5, <1>21 DEF Named
    <3>2. CASE q \in Named(p) /\ q \in Rgids \ {r}
      <4>1. table[q] = symrgtbl[p][q] /\ symrgtbl[p][q].end <= old
            /\ symrgtbl[p][q].end \in Nat
        BY <1>5, <1>17, <3>2 DEF ProcAt, BelowAt, Regions
      <4> QED BY <1>2, <1>5, <4>1
    <3> QED BY <1>17, <3>1, <3>2
  <2> QED BY <1>17, <1>21, <2>1 DEF BelowAt
<1>31. Careful => DisjointAt(p)'
  BY <1>17, <1>21 DEF DisjointAt
<1> QED BY <1>20, <1>22, <1>25, <1>26, <1>27, <1>28, <1>29, <1>30, <1>31,
           <1>32 DEF Kept, ProcAt

-------------------------------------------------------------------------------
(* The invariant holds initially, and every step keeps it.                 *)

LEMMA AllFreeFacts ==
    ASSUME NEW n \in Nat
    PROVE  /\ AllFree(n) \in Seq(0..n - 1) /\ ToSet(AllFree(n)) = 0..n - 1
           /\ Distinct(AllFree(n))
<1> DEFINE s == AllFree(n)
<1>1. s \in [1..n -> 0..n - 1] /\ \A i \in 1..n : s[i] = i - 1
  BY DEF AllFree
<1> HIDE DEF s
<1>2. s \in Seq(0..n - 1) /\ Len(s) = n
  BY <1>1, SeqDef
<1>3. \A f \in 0..n - 1 : f + 1 \in 1..n /\ s[f + 1] = f
  BY <1>1
<1>4. ToSet(s) = 0..n - 1
  <2>1. /\ ToSet(s) \subseteq 0..n - 1
        /\ \A x : x \in ToSet(s) <=> \E i \in 1..n : s[i] = x
    BY <1>2, ElementFacts
  <2>2. \A f \in 0..n - 1 : f \in ToSet(s)
    BY <1>3, <2>1
  <2> QED BY <2>1, <2>2
<1>5. Distinct(s)
  BY <1>1, <1>2 DEF Distinct
<1> QED BY <1>2, <1>4, <1>5 DEF s

LEMMA InitEstablishes == Init => MInv
<1> SUFFICES ASSUME Init PROVE MInv
  OBVIOUS
<1>1. /\ mmvm_lock = None
      /\ mram_free = AllFree(RamFrames) /\ mswp_free = AllFree(SwapFrames)
      /\ ramHolds = [f \in Ram |-> None] /\ swapHolds = [s \in Swap |-> None]
      /\ lostRam = {} /\ lostSwap = {} /\ crashed = FALSE
  BY DEF Init
<1>2. /\ pgd = [p \in Procs |-> NoPages] /\ fifo_pgn = [p \in Procs |-> << >>]
      /\ freerg = [p \in Procs |-> <<Region(0, 0)>>]
      /\ symrgtbl = [p \in Procs |-> NoSymbols] /\ sbrk = [p \in Procs |-> 0]
      /\ live = [p \in Procs |-> {}] /\ mapped = [p \in Procs |-> {}]
      /\ pc = [p \in Procs |-> "run"] /\ local = [p \in Procs |-> NoLocal]
  BY DEF Init
<1>3. /\ mram_free \in Seq(Ram) /\ ToSet(mram_free) = Ram /\ Distinct(mram_free)
      /\ mswp_free \in Seq(Swap) /\ ToSet(mswp_free) = Swap /\ Distinct(mswp_free)
  <2>1. RamFrames \in Nat /\ SwapFrames \in Nat
    BY MemoryAssumption, WidthFacts
  <2> QED BY <1>1, <2>1, AllFreeFacts DEF Ram, Swap
<1>4. /\ Region(0, 0) \in Regions /\ Region(0, 0).end = 0 /\ Bytes(Region(0, 0)) = {}
      /\ <<Region(0, 0)>> \in Seq(Regions)
  BY DEF Region, Regions, Bytes
<1>5. /\ NoPages \in [Pages -> Ptes] /\ NoSymbols \in [Rgids -> Regions]
      /\ \A g \in Pages : NoPages[g] = NoPte
      /\ \A r \in Rgids : NoSymbols[r] = Region(0, 0)
  BY <1>4, NoPteFacts DEF NoPages, NoSymbols
<1>6. 0 \in 0..HeapPages * PAGING_PAGESZ
  BY ConstantFacts
<1>7. TypeOK
  <2>1. /\ ramHolds \in [Ram -> Contents] /\ swapHolds \in [Swap -> Contents]
    BY <1>1 DEF Contents
  <2>2. /\ pgd \in [Procs -> [Pages -> Ptes]]
        /\ freerg \in [Procs -> Seq(Regions)] /\ symrgtbl \in [Procs -> [Rgids -> Regions]]
    BY <1>2, <1>4, <1>5
  <2>3. /\ live \in [Procs -> SUBSET Rgids] /\ mapped \in [Procs -> SUBSET Pages]
        /\ fifo_pgn \in [Procs -> Seq(Pages)]
    BY <1>2
  <2>4. sbrk \in [Procs -> 0..HeapPages * PAGING_PAGESZ]
    BY <1>2, <1>6
  <2>5. local \in [Procs -> Locals]
    BY <1>2, NoLocalFacts
  <2>6. pc \in [Procs -> {"run", "grow", "evict", "evict_unlink", "fault",
                          "fault_out", "fault_unlink", "io"}]
    BY <1>2
  <2> QED BY <1>1, <1>3, <2>1, <2>2, <2>3, <2>4, <2>5, <2>6 DEF TypeOK, Locals
<1>8. LockInv
  BY <1>1, <1>2, ConstantFacts DEF LockInv, Allocating
<1>9. \A p \in Procs : RamOf(p) = {} /\ SwapOf(p) = {} /\ Taking(p) = {}
                       /\ Distinct(local[p].frames)
  <2>1. \A p \in Procs : RamOf(p) = {} /\ SwapOf(p) = {}
    BY <1>2, FramesOf
  <2>2. \A p \in Procs : local[p].frames = << >>
    BY <1>2, NoLocalFacts
  <2> QED BY <2>1, <2>2, EmptyFacts DEF Taking
<1>10. ASSUME NEW p \in Procs PROVE ProcAt(p)
  <2>1. /\ mapped[p] = {} /\ sbrk[p] = 0 /\ live[p] = {} /\ fifo_pgn[p] = << >>
        /\ freerg[p] = <<Region(0, 0)>> /\ symrgtbl[p] = NoSymbols /\ pgd[p] = NoPages
        /\ pc[p] = "run" /\ local[p].frames = << >>
    BY <1>2, NoLocalFacts
  <2>2. LocalAt(p)
    BY <2>1 DEF LocalAt, Allocating, Faulting, WithVictim
  <2>3. Page(0) = 0 /\ 0 * PAGING_PAGESZ = 0
    BY ConstantFacts DEF Page
  <2>4. AreaAt(p)
    BY <1>5, <2>1, <2>3 DEF AreaAt, Brk
  <2>5. \A i \in 1..Len(freerg[p]) : i = 1 /\ freerg[p][i] = Region(0, 0)
    BY <2>1
  <2>6. BelowAt(p)
    <3>1. Named(p) \subseteq Rgids
      BY <2>1 DEF Named
    <3> QED BY <1>4, <1>5, <2>1, <2>5, <3>1 DEF BelowAt
  <2>7. FifoAt(p)
    BY <2>1, EmptyFacts DEF FifoAt
  <2>8. DisjointAt(p)
    BY <2>1, <2>5 DEF DisjointAt, Apart
  <2> QED BY <2>2, <2>4, <2>6, <2>7, <2>8 DEF ProcAt
<1>11. \A p \in Procs : mapped[p] = {} /\ pc[p] = "run"
  BY <1>2
<1>12. RamInv
  BY <1>1, <1>3, <1>9, <1>11 DEF RamInv, RamApart, RamSets
<1>13. SwapInv
  BY <1>1, <1>3, <1>9, <1>11 DEF SwapInv, SwapApart, SwapSets, PagesPreserved
<1> QED BY <1>7, <1>8, <1>10, <1>12, <1>13 DEF MInv, ProcInv

LEMMA CallKeeps ==
    ASSUME MInv, Scope, NEW p \in Procs, Call(p)
    PROVE  Kept(p)
<1>1. ASSUME NEW r \in Rgids, NEW size \in Sizes, AllocFits(p, r, size) PROVE Kept(p)
  BY <1>1, AllocFitsKeeps
<1>2. ASSUME NEW r \in Rgids, NEW size \in Sizes, AllocGrows(p, r, size) PROVE Kept(p)
  BY <1>2, AllocGrowsKeeps
<1>3. ASSUME NEW r \in Rgids, Free(p, r) PROVE Kept(p)
  BY <1>3, FreeKeeps
<1>4. ASSUME NEW g \in Pages, Access(p, g) PROVE Kept(p)
  BY <1>4, AccessKeeps
<1>5. CASE Exit(p)
  BY <1>5, ExitKeeps
<1> QED BY <1>1, <1>2, <1>3, <1>4, <1>5 DEF Call

LEMMA StepKeeps ==
    ASSUME MInv, NEW p \in Procs, Step(p)
    PROVE  Kept(p)
  BY GetFrameKeeps, FindVictimKeeps, CrashKeeps, AllocFailsKeeps, ReadSwapHeadKeeps,
     EvictKeeps, MapRangeKeeps, CallEndsKeeps, WriteByteKeeps, FaultKeeps DEF Step

LEMMA NextKeeps == MInv /\ Scope /\ [Next]_vars => MInv'
<1> SUFFICES ASSUME MInv, Scope, [Next]_vars PROVE MInv'
  OBVIOUS
<1>1. ASSUME NEW p \in Procs, Call(p) \/ Step(p) PROVE MInv'
  <2>1. Kept(p)
    BY <1>1, CallKeeps, StepKeeps
  <2>2. \A q \in Procs \ {p} : ProcAt(q)'
    BY <1>1, OthersKept
  <2>3. \A q \in Procs : ProcAt(q)'
    BY <2>1, <2>2 DEF Kept
  <2> QED BY <2>1, <2>3 DEF Kept, MInv, ProcInv
<1>2. CASE UNCHANGED vars
  <2>1. /\ TypeOK' /\ LockInv'
    BY <1>2 DEF MInv, vars, TypeOK, LockInv
  <2>2. \A p \in Procs : Same(p) /\ ProcAt(p)
    BY <1>2 DEF MInv, ProcInv, vars, Same
  <2>3. ProcInv'
    BY <2>2, ProcAtSame DEF ProcInv
  <2>4. RamInv' /\ SwapInv'
    <3>1. UNCHANGED <<devVars, pgd, mapped, lostVars, local, pc>>
      BY <1>2 DEF vars, devVars, lostVars
    <3> QED BY <3>1, FramesStay
  <2> QED BY <2>1, <2>3, <2>4 DEF MInv
<1> QED BY <1>1, <1>2 DEF Next, Halted

(* From here on, the theorems about every behaviour.                       *)
THEOREM Inductive == ASSUME Scope PROVE SafeSpec => []MInv
<1>1. MInv /\ [Next]_vars => MInv'
  BY NextKeeps
<1> QED BY <1>1, InitEstablishes, PTL DEF SafeSpec

(* The state keeps its type: free lists, entries, regions and the locals   *)
(* of every thread, through every call, fault and end of a process.        *)
THEOREM MemoryTypeOK == ASSUME Scope PROVE SafeSpec => []TypeOK
<1>1. MInv => TypeOK
  BY DEF MInv
<1> QED BY <1>1, Inductive, PTL

(* A set of which all members are equal has one.                           *)
LEMMA OneMember ==
    ASSUME NEW S, NEW x \in S, \A y \in S : y = x
    PROVE  Cardinality(S) = 1
<1>1. S = {x}
  OBVIOUS
<1> QED BY <1>1, FS_Singleton

LEMMA RamPlacesFacts ==
    ASSUME NEW f
    PROVE  \A y : y \in RamPlaces(f) <=>
             \/ \E i \in Occurrences(mram_free, f) : y = <<"free", None, i>>
             \/ \E p \in Procs : \E i \in Occurrences(local[p].frames, f) : y = <<"taken", p, i>>
             \/ \E p \in Procs : \E g \in mapped[p] :
                   Online(p, g) /\ PAGING_PTE_FPN(pgd[p][g]) = f /\ y = <<"page", p, g>>
             \/ f \in lostRam /\ y = <<"lost", None, 0>>
<1> DEFINE free == {<<"free", None, i>> : i \in Occurrences(mram_free, f)}
           taken == {{<<"taken", p, i>> : i \in Occurrences(local[p].frames, f)} : p \in Procs}
           paged == {{<<"page", p, g>> : g \in {h \in mapped[p] :
                         Online(p, h) /\ PAGING_PTE_FPN(pgd[p][h]) = f}} : p \in Procs}
           lost == {<<"lost", None, 0>> : x \in lostRam \cap {f}}
<1>1. \A y : y \in free <=> \E i \in Occurrences(mram_free, f) : y = <<"free", None, i>>
  OBVIOUS
<1>2. \A y : y \in UNION taken <=>
        \E p \in Procs : \E i \in Occurrences(local[p].frames, f) : y = <<"taken", p, i>>
  OBVIOUS
<1>3. \A y : y \in UNION paged <=>
        \E p \in Procs : \E g \in mapped[p] :
           Online(p, g) /\ PAGING_PTE_FPN(pgd[p][g]) = f /\ y = <<"page", p, g>>
  OBVIOUS
<1>4. \A y : y \in lost <=> f \in lostRam /\ y = <<"lost", None, 0>>
  OBVIOUS
<1>5. RamPlaces(f) = free \cup (UNION taken) \cup (UNION paged) \cup lost
  BY DEF RamPlaces
<1> HIDE DEF free, taken, paged, lost
<1> QED BY <1>1, <1>2, <1>3, <1>4, <1>5

LEMMA SwapPlacesFacts ==
    ASSUME NEW s
    PROVE  \A y : y \in SwapPlaces(s) <=>
             \/ \E i \in Occurrences(mswp_free, s) : y = <<"free", None, i>>
             \/ \E p \in Procs : \E g \in mapped[p] :
                   Swapped(p, g) /\ PAGING_PTE_SWP(pgd[p][g]) = s /\ y = <<"page", p, g>>
             \/ s \in lostSwap /\ y = <<"lost", None, 0>>
<1> DEFINE free == {<<"free", None, i>> : i \in Occurrences(mswp_free, s)}
           paged == {{<<"page", p, g>> : g \in {h \in mapped[p] :
                         Swapped(p, h) /\ PAGING_PTE_SWP(pgd[p][h]) = s}} : p \in Procs}
           lost == {<<"lost", None, 0>> : x \in lostSwap \cap {s}}
<1>1. \A y : y \in free <=> \E i \in Occurrences(mswp_free, s) : y = <<"free", None, i>>
  OBVIOUS
<1>2. \A y : y \in UNION paged <=>
        \E p \in Procs : \E g \in mapped[p] :
           Swapped(p, g) /\ PAGING_PTE_SWP(pgd[p][g]) = s /\ y = <<"page", p, g>>
  OBVIOUS
<1>3. \A y : y \in lost <=> s \in lostSwap /\ y = <<"lost", None, 0>>
  OBVIOUS
<1>4. SwapPlaces(s) = free \cup (UNION paged) \cup lost
  BY DEF SwapPlaces
<1> HIDE DEF free, paged, lost
<1> QED BY <1>1, <1>2, <1>3, <1>4

(* Where a number occurs in a list of distinct ones.                       *)
LEMMA OccurrenceFacts ==
    ASSUME NEW S, NEW s \in Seq(S), NEW x
    PROVE  /\ x \in ToSet(s) <=> \E i : i \in Occurrences(s, x)
           /\ Distinct(s) => \A i, j \in Occurrences(s, x) : i = j
<1>1. \A i : i \in Occurrences(s, x) <=> i \in 1..Len(s) /\ s[i] = x
  BY DEF Occurrences
<1>2. x \in ToSet(s) <=> \E i : i \in Occurrences(s, x)
  BY <1>1, ElementFacts
<1>3. Distinct(s) => \A i, j \in Occurrences(s, x) : i = j
  BY <1>1 DEF Distinct
<1> QED BY <1>2, <1>3

(* Every frame of RAM is in exactly one place: free, collected by one      *)
(* allocation, behind one page of one process, or lost with a process.     *)
THEOREM RamFramesAreAccounted == ASSUME Scope PROVE SafeSpec => []RamFramesAccounted
<1>1. MInv => RamFramesAccounted
  <2> SUFFICES ASSUME MInv, NEW f \in Ram PROVE Cardinality(RamPlaces(f)) = 1
    BY DEF RamFramesAccounted
  <2>1. RamApart /\ RamSets /\ LockInv
    BY DEF MInv, RamInv
  <2>2. /\ mram_free \in Seq(Ram)
        /\ \A p \in Procs : local[p].frames \in Seq(Ram)
    BY DEF MInv, TypeOK
  <2>3. /\ f \in ToSet(mram_free) <=> \E i : i \in Occurrences(mram_free, f)
        /\ \A i, j \in Occurrences(mram_free, f) : i = j
    BY <2>1, <2>2, OccurrenceFacts DEF RamSets
  <2>4. ASSUME NEW p \in Procs
        PROVE  /\ f \in Taking(p) <=> \E i : i \in Occurrences(local[p].frames, f)
               /\ \A i, j \in Occurrences(local[p].frames, f) : i = j
    BY <2>1, <2>2, OccurrenceFacts DEF RamSets, Taking
  <2>5. \A p \in Procs : f \in RamOf(p) <=>
            \E g \in mapped[p] : Online(p, g) /\ PAGING_PTE_FPN(pgd[p][g]) = f
    BY FramesOf
  <2>6. \A p, q \in Procs : f \in Taking(p) /\ f \in Taking(q) => p = q
    <3> SUFFICES ASSUME NEW p \in Procs, NEW q \in Procs, f \in Taking(p), f \in Taking(q)
                 PROVE  p = q
      OBVIOUS
    <3>1. \A x \in Procs : f \in Taking(x) => pc[x] \in Allocating
      BY EmptyFacts DEF MInv, ProcInv, ProcAt, LocalAt, Taking
    <3> QED BY <2>1, <3>1 DEF LockInv
  <2>7. \A p \in Procs : f \in RamOf(p) =>
          \A q \in Procs : \A g \in mapped[p], h \in mapped[q] :
             (/\ Online(p, g) /\ PAGING_PTE_FPN(pgd[p][g]) = f
              /\ Online(q, h) /\ PAGING_PTE_FPN(pgd[q][h]) = f) => p = q /\ g = h
    <3> SUFFICES ASSUME NEW p \in Procs, NEW q \in Procs,
                        NEW g \in mapped[p], NEW h \in mapped[q],
                        Online(p, g), PAGING_PTE_FPN(pgd[p][g]) = f,
                        Online(q, h), PAGING_PTE_FPN(pgd[q][h]) = f
                 PROVE  p = q /\ g = h
      OBVIOUS
    <3>1. PAGING_PTE_FPN(pgd[p][g]) = PAGING_PTE_FPN(pgd[q][h])
      OBVIOUS
    <3> QED BY <2>1, <3>1 DEF RamApart
  <2>8. /\ \A p, q \in Procs : ~(f \in Taking(p) /\ f \in RamOf(q))
        /\ f \in ToSet(mram_free) => /\ f \notin lostRam
                                     /\ \A p \in Procs : f \notin Taking(p) /\ f \notin RamOf(p)
        /\ f \in lostRam => \A p \in Procs : f \notin Taking(p) /\ f \notin RamOf(p)
    BY <2>1 DEF RamSets
  <2>9. CASE f \in ToSet(mram_free)
    <3>1. PICK i : i \in Occurrences(mram_free, f)
      BY <2>3, <2>9
    <3> DEFINE x == <<"free", None, i>>
    <3>2. x \in RamPlaces(f)
      BY <3>1, RamPlacesFacts
    <3>3. \A y \in RamPlaces(f) : y = x
      BY <2>3, <2>4, <2>5, <2>8, <2>9, <3>1, RamPlacesFacts
    <3> QED BY <3>2, <3>3, OneMember
  <2>10. CASE \E p \in Procs : f \in Taking(p)
    <3>1. PICK p \in Procs : f \in Taking(p)
      BY <2>10
    <3>2. PICK i : i \in Occurrences(local[p].frames, f)
      BY <2>4, <3>1
    <3> DEFINE x == <<"taken", p, i>>
    <3>3. x \in RamPlaces(f)
      BY <3>2, RamPlacesFacts
    <3>4. \A y \in RamPlaces(f) : y = x
      BY <2>3, <2>4, <2>5, <2>6, <2>8, <3>1, <3>2, RamPlacesFacts
    <3> QED BY <3>3, <3>4, OneMember
  <2>11. CASE \E p \in Procs : f \in RamOf(p)
    <3>1. PICK p \in Procs : f \in RamOf(p)
      BY <2>11
    <3>2. PICK g \in mapped[p] : Online(p, g) /\ PAGING_PTE_FPN(pgd[p][g]) = f
      BY <2>5, <3>1
    <3> DEFINE x == <<"page", p, g>>
    <3>3. x \in RamPlaces(f)
      BY <3>2, RamPlacesFacts
    <3>4. \A y \in RamPlaces(f) : y = x
      BY <2>3, <2>4, <2>7, <2>8, <3>1, <3>2, RamPlacesFacts
    <3> QED BY <3>3, <3>4, OneMember
  <2>12. CASE f \in lostRam
    <3> DEFINE x == <<"lost", None, 0>>
    <3>1. x \in RamPlaces(f)
      BY <2>12, RamPlacesFacts
    <3>2. \A y \in RamPlaces(f) : y = x
      BY <2>3, <2>4, <2>5, <2>8, <2>12, RamPlacesFacts
    <3> QED BY <3>1, <3>2, OneMember
  <2> QED BY <2>1, <2>9, <2>10, <2>11, <2>12 DEF RamSets
<1> QED BY <1>1, Inductive, PTL

(* Every frame of swap is free, behind one page of one process, or lost.   *)
(* Careful programs only: they never fault, so that nobody takes a frame   *)
(* without the lock.                                                       *)
THEOREM SwapFramesAreAccounted == ASSUME Careful PROVE SafeSpec => []SwapFramesAccounted
<1>1. MInv => SwapFramesAccounted
  <2> SUFFICES ASSUME MInv, NEW s \in Swap PROVE Cardinality(SwapPlaces(s)) = 1
    BY DEF SwapFramesAccounted
  <2>1. SwapApart /\ SwapSets /\ mswp_free \in Seq(Swap)
    BY DEF MInv, SwapInv, TypeOK
  <2>2. /\ s \in ToSet(mswp_free) <=> \E i : i \in Occurrences(mswp_free, s)
        /\ \A i, j \in Occurrences(mswp_free, s) : i = j
    BY <2>1, OccurrenceFacts DEF SwapSets
  <2>3. \A p \in Procs : s \in SwapOf(p) <=>
            \E g \in mapped[p] : Swapped(p, g) /\ PAGING_PTE_SWP(pgd[p][g]) = s
    BY FramesOf
  <2>4. \A p, q \in Procs : \A g \in mapped[p], h \in mapped[q] :
             (/\ Swapped(p, g) /\ PAGING_PTE_SWP(pgd[p][g]) = s
              /\ Swapped(q, h) /\ PAGING_PTE_SWP(pgd[q][h]) = s) => p = q /\ g = h
    <3> SUFFICES ASSUME NEW p \in Procs, NEW q \in Procs,
                        NEW g \in mapped[p], NEW h \in mapped[q],
                        Swapped(p, g), PAGING_PTE_SWP(pgd[p][g]) = s,
                        Swapped(q, h), PAGING_PTE_SWP(pgd[q][h]) = s
                 PROVE  p = q /\ g = h
      OBVIOUS
    <3>1. PAGING_PTE_SWP(pgd[p][g]) = PAGING_PTE_SWP(pgd[q][h])
      OBVIOUS
    <3> QED BY <2>1, <3>1 DEF SwapApart
  <2>5. /\ s \in ToSet(mswp_free) => s \notin lostSwap /\ \A p \in Procs : s \notin SwapOf(p)
        /\ s \in lostSwap => \A p \in Procs : s \notin SwapOf(p)
    BY <2>1 DEF SwapSets
  <2>6. CASE s \in ToSet(mswp_free)
    <3>1. PICK i : i \in Occurrences(mswp_free, s)
      BY <2>2, <2>6
    <3> DEFINE x == <<"free", None, i>>
    <3>2. x \in SwapPlaces(s)
      BY <3>1, SwapPlacesFacts
    <3>3. \A y \in SwapPlaces(s) : y = x
      BY <2>2, <2>3, <2>5, <2>6, <3>1, SwapPlacesFacts
    <3> QED BY <3>2, <3>3, OneMember
  <2>7. CASE \E p \in Procs : s \in SwapOf(p)
    <3>1. PICK p \in Procs : s \in SwapOf(p)
      BY <2>7
    <3>2. PICK g \in mapped[p] : Swapped(p, g) /\ PAGING_PTE_SWP(pgd[p][g]) = s
      BY <2>3, <3>1
    <3> DEFINE x == <<"page", p, g>>
    <3>3. x \in SwapPlaces(s)
      BY <3>2, SwapPlacesFacts
    <3>4. \A y \in SwapPlaces(s) : y = x
      BY <2>2, <2>4, <2>5, <3>1, <3>2, SwapPlacesFacts
    <3> QED BY <3>3, <3>4, OneMember
  <2>8. CASE s \in lostSwap
    <3> DEFINE x == <<"lost", None, 0>>
    <3>1. x \in SwapPlaces(s)
      BY <2>8, SwapPlacesFacts
    <3>2. \A y \in SwapPlaces(s) : y = x
      BY <2>2, <2>3, <2>5, <2>8, SwapPlacesFacts
    <3> QED BY <3>1, <3>2, OneMember
  <2> QED BY <2>1, <2>6, <2>7, <2>8 DEF SwapSets
<1> QED BY <1>1, Inductive, PTL DEF Scope

(* The frame an entry names, in RAM or in swap, has the data of its page,  *)
(* whatever is allocated, turned out or loaded, or stored at wrong places. *)
THEOREM PagesArePreserved == ASSUME Careful PROVE SafeSpec => []PagesPreserved
<1>1. MInv => PagesPreserved
  BY DEF MInv, SwapInv
<1> QED BY <1>1, Inductive, PTL DEF Scope

(* The data of a page change only if a byte is stored to a page in swap,   *)
(* of any process: eviction, allocation, the end of a process and stores   *)
(* to pages in RAM leave them as they are.                                 *)
THEOREM DataStays == ASSUME Careful PROVE SafeSpec => DataStay
<1>1. MInv /\ [Next]_vars =>
         [\A p \in Procs : \A g \in mapped[p] \cap mapped'[p] :
             \/ DataAt(p, g)' = DataAt(p, g)
             \/ DataAt(p, g)' = Mixed(p, g) /\ \E q \in Procs : StrayStore(q)]_vars
  <2> SUFFICES ASSUME MInv, NEW r \in Procs, Call(r) \/ Step(r) PROVE DataMoves
    BY DEF Next, Halted, DataMoves
  <2> QED BY CallKeeps, StepKeeps DEF Kept, Scope
<1> QED BY <1>1, Inductive, PTL DEF SafeSpec, Scope, DataStay

(* A candidate for eviction is a page in RAM of this process, listed once. *)
THEOREM CandidatesAreOnline == ASSUME Scope PROVE SafeSpec => []FifoIsOnline
<1>1. MInv => FifoIsOnline
  <2> SUFFICES ASSUME MInv, NEW p \in Procs
               PROVE  /\ Distinct(fifo_pgn[p])
                      /\ \A i \in 1..Len(fifo_pgn[p]) :
                            fifo_pgn[p][i] \in mapped[p] /\ Online(p, fifo_pgn[p][i])
    BY DEF FifoIsOnline, Distinct
  <2>1. FifoAt(p) /\ fifo_pgn[p] \in Seq(Pages)
    BY DEF MInv, ProcInv, ProcAt, TypeOK
  <2>2. \A i \in 1..Len(fifo_pgn[p]) : fifo_pgn[p][i] \in ToSet(fifo_pgn[p])
    BY <2>1, ElementFacts
  <2> QED BY <2>1, <2>2 DEF FifoAt
<1> QED BY <1>1, Inductive, PTL

(* The frame number an access found is right when the byte is moved, if    *)
(* the page was in RAM: nobody else turns the pages of a process out.      *)
THEOREM TranslationsAreStable == ASSUME Careful PROVE SafeSpec => []TranslationStable
<1>1. MInv => TranslationStable
  <2> SUFFICES ASSUME MInv, NEW p \in Procs, pc[p] = "io", Online(p, local[p].page)
               PROVE  /\ local[p].fpn \in Ram
                      /\ ramHolds[local[p].fpn] \in DataOf(p, local[p].page)
    BY DEF TranslationStable
  <2>1. /\ local[p].page \in mapped[p]
        /\ local[p].fpn = PAGING_PTE_FPN(pgd[p][local[p].page])
    BY DEF MInv, ProcInv, ProcAt, LocalAt
  <2> QED BY <2>1, MappedIsSomewhere
<1> QED BY <1>1, Inductive, PTL DEF Scope

(* No byte is in two regions in use, in one in use and a free one, or in   *)
(* two free ones.  Careful programs only: the others free a region twice.  *)
THEOREM RegionsAreDisjoint == ASSUME Careful PROVE SafeSpec => []RegionsDisjoint
<1>1. MInv => RegionsDisjoint
  BY DEF MInv, ProcInv, ProcAt, DisjointAt, Apart, RegionsDisjoint
<1> QED BY <1>1, Inductive, PTL DEF Scope

(* An allocation that reports success has memory behind it: every byte of  *)
(* a region lies below the break, on a page the process mapped.            *)
THEOREM RegionsAreBacked == ASSUME Scope PROVE SafeSpec => []RegionsBacked
<1>1. MInv => RegionsBacked
  <2> SUFFICES ASSUME MInv, NEW p \in Procs,
                      NEW a \in UNION ({Bytes(symrgtbl[p][r]) : r \in Named(p)}
                                  \cup {Bytes(freerg[p][i]) : i \in 1..Len(freerg[p])})
               PROVE  a < sbrk[p] /\ Page(a) \in mapped[p] /\ pgd[p][Page(a)].present = 1
    BY DEF RegionsBacked
  <2>1. TypeOK /\ ProcAt(p)
    BY DEF MInv, ProcInv
  <2>2. AreaAt(p) /\ BelowAt(p)
    BY <2>1 DEF ProcAt
  <2>3. \E rg \in Regions : a \in Bytes(rg) /\ rg.end <= sbrk[p]
    <3>1. CASE \E r \in Named(p) : a \in Bytes(symrgtbl[p][r])
      <4>1. PICK r \in Named(p) : a \in Bytes(symrgtbl[p][r])
        BY <3>1
      <4>2. r \in Rgids
        BY <2>1, <4>1, TypeFacts DEF Named
      <4> QED BY <2>1, <2>2, <4>1, <4>2, TypeFacts DEF BelowAt
    <3>2. CASE \E i \in 1..Len(freerg[p]) : a \in Bytes(freerg[p][i])
      BY <2>1, <2>2, <3>2, TypeFacts DEF BelowAt
    <3> QED BY <3>1, <3>2
  <2>4. a \in Nat /\ a < sbrk[p]
    <3>1. PICK rg \in Regions : a \in Bytes(rg) /\ rg.end <= sbrk[p]
      BY <2>3
    <3> QED BY <2>1, <3>1, TypeFacts DEF Bytes, Regions
  <2> QED BY <2>1, <2>2, <2>4, BelowIsMapped
<1> QED BY <1>1, Inductive, PTL
==============================================================================
