------------------------------- MODULE Memory --------------------------------
(***************************************************************************)
(* libmem.c, mm.c, mm-vm.c and the frame lists of mm-memphy.c: what the    *)
(* alloc, free, read and write instructions of the processes do to their   *)
(* address spaces and to the frames of RAM and swap they share.            *)
(*                                                                         *)
(* alloc and free run under mmvm_lock; read and write do not, not even     *)
(* when they take a page fault.  alloc is therefore one step where it only *)
(* touches its own process, and several where it takes frames.             *)
(* The data in a frame are abstracted to the page they belong to, and to   *)
(* whether a byte meant for another page has been stored among them.       *)
(***************************************************************************)
EXTENDS Regions, Pte, FiniteSets, SequencesExt

CONSTANTS Procs,
          Rgids,        \* the region ids the programs use
          Sizes,        \* the sizes they ask for
          RamFrames, SwapFrames,   \* number of frames of each device
          HeapPages,    \* bound on the growth of a process
          Careful,      \* TRUE: programs free and touch live regions only.  FALSE:
                        \* they free what they freed before, and touch what they
                        \* freed or never had (input/proc/p0s) and ...
          WildPages,    \* ... pages behind every region (m0s, in one of 100 bytes)
          Ends,         \* processes end, others are loaded in their place
          SwpType,      \* what active_mswp_id, which nobody sets, holds
          MaxFree,      \* bound on the length of a free list
          None

ASSUME MemoryAssumption ==
    /\ Sizes \subseteq Nat \ {0}
    /\ RamFrames \in 1..FpnRange /\ SwapFrames \in 1..SwpOffRange  \* an entry can name all
    /\ HeapPages \in Nat \ {0} /\ SwpType \in Nat /\ MaxFree \in Nat
    /\ Careful \in BOOLEAN /\ Ends \in BOOLEAN
    /\ WildPages \subseteq Nat \ (0..HeapPages - 1)
    /\ None \notin Procs

VARIABLES mmvm_lock,             \* holder or None
          mram_free, mswp_free,  \* free_fp_list of each device
          ramHolds, swapHolds,   \* the page whose data each frame has
          pgd, fifo_pgn, freerg, symrgtbl, sbrk,   \* mm_struct of each process
          live,                  \* regions allocated and not freed since
          mapped,                \* pages this process, not an earlier one, mapped
          lostRam, lostSwap,     \* frames of processes that ended
          pc, local,             \* where each process is, and its C locals
          crashed                \* the simulator died of a null or stale pointer

devVars  == <<mram_free, mswp_free, ramHolds, swapHolds>>
areaVars == <<freerg, symrgtbl, sbrk, live>>
pageVars == <<pgd, fifo_pgn, mapped>>
lostVars == <<lostRam, lostSwap>>
vars == <<mmvm_lock, mram_free, mswp_free, ramHolds, swapHolds, pgd, fifo_pgn,
          freerg, symrgtbl, sbrk, live, mapped, lostRam, lostSwap, pc, local, crashed>>

Pages == (0..HeapPages - 1) \cup WildPages
Ram  == 0..RamFrames - 1
Swap == 0..SwapFrames - 1

Online(p, g)  == InRam(pgd[p][g])
Swapped(p, g) == InSwap(pgd[p][g])

(* The model's record of the frames behind the pages of a process.         *)
RamOf(p)  == {PAGING_PTE_FPN(pgd[p][g]) : g \in {h \in mapped[p] : Online(p, h)}}
SwapOf(p) == {PAGING_PTE_SWP(pgd[p][g]) : g \in {h \in mapped[p] : Swapped(p, h)}}

NoLocal == [rgid |-> None, size |-> 0, need |-> 0, frames |-> << >>,
            page |-> 0, victim |-> 0, head |-> << >>, fpn |-> 0]

(* The data of a page, as its process left them; the same with a stray     *)
(* byte among them.                                                        *)
Whole(p, g) == <<p, g, "whole">>
Mixed(p, g) == <<p, g, "mixed">>
DataOf(p, g) == {Whole(p, g), Mixed(p, g)}

(* MEMPHY_format.  Mutant: the frames are numbered from 1.                 *)
AllFree_FromOne(n) == [i \in 1..n |-> i]
AllFree(n) == [i \in 1..n |-> i - 1]

(* A page table and a symbol table of zeros.                               *)
NoPages == [g \in Pages |-> NoPte]
NoSymbols == [r \in Rgids |-> Region(0, 0)]

Init ==
    /\ mmvm_lock = None
    /\ mram_free = AllFree(RamFrames) /\ mswp_free = AllFree(SwapFrames)
    /\ ramHolds = [f \in Ram |-> None] /\ swapHolds = [s \in Swap |-> None]
    /\ pgd = [p \in Procs |-> NoPages]
    /\ fifo_pgn = [p \in Procs |-> << >>]
    /\ freerg = [p \in Procs |-> <<Region(0, 0)>>]
    /\ symrgtbl = [p \in Procs |-> NoSymbols]
    /\ sbrk = [p \in Procs |-> 0]
    /\ live = [p \in Procs |-> {}] /\ mapped = [p \in Procs |-> {}]
    /\ lostRam = {} /\ lostSwap = {}
    /\ pc = [p \in Procs |-> "run"] /\ local = [p \in Procs |-> NoLocal]
    /\ crashed = FALSE

Goto(p, from, to) == ~crashed /\ pc[p] = from /\ pc' = [pc EXCEPT ![p] = to]

(* An allocation ends, with or without success.                            *)
Return(p) == /\ pc' = [pc EXCEPT ![p] = "run"]
             /\ mmvm_lock' = None
             /\ local' = [local EXCEPT ![p] = NoLocal]

(* The caller's region table and free list once a region of list is taken. *)
TakeRegion(p, r, size, list) ==
    /\ symrgtbl' = [symrgtbl EXCEPT ![p][r] = Taken(list, size)]
    /\ freerg' = [freerg EXCEPT ![p] = AfterTake(list, size)]
    /\ live' = [live EXCEPT ![p] = @ \cup {r}]

(***************************************************************************)
(* __alloc.  A request that fits a free region is served from it.  Any     *)
(* other makes the area grow by whole pages (one that is larger than RAM   *)
(* is refused, with no effect).                                            *)
(***************************************************************************)
AllocFits(p, r, size) ==
    /\ mmvm_lock = None /\ HasFit(freerg[p], size)
    /\ Goto(p, "run", "run")
    /\ TakeRegion(p, r, size, freerg[p])
    /\ UNCHANGED <<mmvm_lock, devVars, pageVars, sbrk, lostVars, local, crashed>>

AllocGrows(p, r, size) ==
    /\ mmvm_lock = None /\ ~HasFit(freerg[p], size)
    /\ PagesFor(size) <= RamFrames
    /\ sbrk[p] + Aligned(size) <= HeapPages * PAGING_PAGESZ     \* bound
    /\ Goto(p, "run", "grow")
    /\ mmvm_lock' = p
    /\ local' = [local EXCEPT ![p] = [NoLocal EXCEPT !.rgid = r, !.size = size,
                                                     !.need = PagesFor(size)]]
    /\ UNCHANGED <<devVars, pageVars, areaVars, lostVars, crashed>>

(* Mutant: the frame is handed out and stays in the free list.             *)
GetFrame_StaysFree(p) ==
    /\ local[p].need > 0 /\ mram_free # << >>
    /\ Goto(p, "grow", "grow")
    /\ local' = [local EXCEPT ![p].need = @ - 1,
                              ![p].frames = <<Head(mram_free)>> \o @]
    /\ UNCHANGED <<mmvm_lock, devVars, pageVars, areaVars, lostVars, crashed>>

(* alloc_pages_range takes the frames one by one ...                       *)
GetFrame(p) ==
    /\ local[p].need > 0 /\ mram_free # << >>
    /\ Goto(p, "grow", "grow")
    /\ mram_free' = Tail(mram_free)
    /\ local' = [local EXCEPT ![p].need = @ - 1,
                              ![p].frames = <<Head(mram_free)>> \o @]
    /\ UNCHANGED <<mmvm_lock, mswp_free, ramHolds, swapHolds, pageVars,
                   areaVars, lostVars, crashed>>

(* ... and turns its own oldest page out when RAM is full.                 *)
AllocNeedsVictim(p) == pc[p] = "grow" /\ local[p].need > 0 /\ mram_free = << >>

(* find_victim_page unlinks the tail of the list through its predecessor.  *)
(* Mutant: it returns the head.                                            *)
Oldest_Newest(fifo) == Head(fifo)
Oldest(fifo) == Last(fifo)

FindVictim(p) ==
    /\ ~crashed /\ Len(fifo_pgn[p]) > 1
    /\ \/ AllocNeedsVictim(p) /\ pc' = [pc EXCEPT ![p] = "evict"]
       \/ Goto(p, "fault", "fault_out")
    /\ fifo_pgn' = [fifo_pgn EXCEPT ![p] = Front(@)]
    /\ local' = [local EXCEPT ![p].victim = Oldest(fifo_pgn[p])]
    /\ UNCHANGED <<mmvm_lock, devVars, pgd, mapped, areaVars, lostVars, crashed>>

(* The only page of the list has no predecessor: pre->pg_next = NULL with  *)
(* pre = NULL.                                                             *)
FindVictimDies(p) ==
    /\ ~crashed /\ Len(fifo_pgn[p]) = 1
    /\ AllocNeedsVictim(p) \/ pc[p] = "fault"
    /\ crashed' = TRUE
    /\ UNCHANGED <<mmvm_lock, devVars, pageVars, areaVars, lostVars, pc, local>>

(* No victim or no room in swap: the frames go back, the victim is not put *)
(* back into the list.  Mutants: the frames are kept; it waits for memory. *)
GiveBack_Nothing(p) == mram_free
GiveBack(p) == Reverse(local[p].frames) \o mram_free

AllocFails_Retries(p) ==
    /\ \/ AllocNeedsVictim(p) /\ fifo_pgn[p] = << >>
       \/ pc[p] = "evict" /\ mswp_free = << >>
    /\ ~crashed
    /\ pc' = [pc EXCEPT ![p] = "grow"]
    /\ UNCHANGED <<mmvm_lock, devVars, pageVars, areaVars, lostVars, local, crashed>>

AllocFails(p) ==
    /\ \/ AllocNeedsVictim(p) /\ fifo_pgn[p] = << >>
       \/ pc[p] = "evict" /\ mswp_free = << >>
    /\ ~crashed
    /\ Return(p)
    /\ mram_free' = GiveBack(p)
    /\ UNCHANGED <<mswp_free, ramHolds, swapHolds, pageVars, areaVars, lostVars, crashed>>

(***************************************************************************)
(* MEMPHY_get_freefp on the swap device: the head is read, then unlinked   *)
(* and freed.  __alloc does so under mmvm_lock, a page fault without it.   *)
(***************************************************************************)
ReadSwapHead(p) ==
    /\ mswp_free # << >>
    /\ \/ Goto(p, "evict", "evict_unlink")
       \/ Goto(p, "fault_out", "fault_unlink")
    /\ local' = [local EXCEPT ![p].head = mswp_free]
    /\ UNCHANGED <<mmvm_lock, devVars, pageVars, areaVars, lostVars, crashed>>

(* The node read may have been freed by another thread since.              *)
(* Mutant: it is not unlinked.                                             *)
Unlink_Forgotten(p) == UNCHANGED mswp_free
Unlink(p) == mswp_free' = Tail(local[p].head)
UnlinkDies(p) ==
    /\ ~crashed /\ pc[p] \in {"evict_unlink", "fault_unlink"}
    /\ mswp_free # local[p].head
    /\ crashed' = TRUE
    /\ UNCHANGED <<mmvm_lock, devVars, pageVars, areaVars, lostVars, pc, local>>

(* __swap_cp_page: a frame of one device gets the data of one of the other.*)
(* Mutant: nothing is copied.                                              *)
Copied_Forgotten(from, src, to, dst) == to
Copied(from, src, to, dst) == [to EXCEPT ![dst] = from[src]]

VictimFrame(p) == PAGING_PTE_FPN(pgd[p][local[p].victim])

Evict(p) ==
    LET s == Head(local[p].head)
        f == VictimFrame(p) IN
    /\ Goto(p, "evict_unlink", "grow")
    /\ Unlink(p)
    /\ swapHolds' = Copied(ramHolds, f, swapHolds, s)
    /\ pgd' = [pgd EXCEPT ![p][local[p].victim] = pte_set_swap(@, SwpType, s)]
    /\ local' = [local EXCEPT ![p].need = @ - 1, ![p].frames = <<f>> \o @,
                              ![p].victim = 0, ![p].head = << >>]
    /\ UNCHANGED <<mmvm_lock, mram_free, ramHolds, fifo_pgn, mapped, areaVars, lostVars,
                   crashed>>

(* The region that the new pages make.  Mutant: it is one page longer.     *)
Grown_OnePageMore(old, n) == Region(old, old + (n + 1) * PAGING_PAGESZ)
Grown(old, n) == Region(old, old + n * PAGING_PAGESZ)

(* vmap_page_range, the new end of the area, and the second search for a   *)
(* free region, which now finds the pages just added.                      *)
MapRange(p) ==
    LET n   == Len(local[p].frames)
        old == sbrk[p]
        new == 1..n IN
    /\ ~crashed /\ pc[p] = "grow" /\ local[p].need = 0
    /\ Return(p)
    /\ pgd' = [pgd EXCEPT ![p] = [g \in Pages |->
                 IF g - Page(old) + 1 \in new
                 THEN pte_set_fpn(@[g], local[p].frames[g - Page(old) + 1]) ELSE @[g]]]
    /\ ramHolds' = [f \in Ram |->
                 IF \E i \in new : local[p].frames[i] = f
                 THEN Whole(p, Page(old) - 1 + CHOOSE i \in new : local[p].frames[i] = f)
                 ELSE ramHolds[f]]
    /\ fifo_pgn' = [fifo_pgn EXCEPT ![p] = [i \in 1..n |-> Page(old) + n - i] \o @]
    /\ mapped' = [mapped EXCEPT ![p] = @ \cup (Page(old)..Page(old) + n - 1)]
    /\ sbrk' = [sbrk EXCEPT ![p] = @ + n * PAGING_PAGESZ]
    /\ TakeRegion(p, local[p].rgid, local[p].size,
                  <<Grown(old, n)>> \o freerg[p])
    /\ UNCHANGED <<mram_free, mswp_free, swapHolds, lostVars, crashed>>

(* __free: the range of the symbol goes to the front of the free list.     *)
(* The symbol keeps it, so that only careful programs free a region once.  *)
Free(p, r) ==
    /\ mmvm_lock = None /\ symrgtbl[p][r].start < symrgtbl[p][r].end
    /\ Careful => r \in live[p]
    /\ Len(freerg[p]) < MaxFree        \* bound
    /\ Goto(p, "run", "run")
    /\ freerg' = [freerg EXCEPT ![p] = <<symrgtbl[p][r]>> \o @]
    /\ live' = [live EXCEPT ![p] = @ \ {r}]
    /\ UNCHANGED <<mmvm_lock, devVars, pageVars, symrgtbl, sbrk, lostVars, local, crashed>>

(***************************************************************************)
(* __read and __write: pg_getpage finds the frame, then the byte is moved. *)
(* The symbol of a region never allocated starts at 0, on page 0.          *)
(***************************************************************************)
PagesOf(p, rgids) == {Page(a) : a \in UNION {Bytes(symrgtbl[p][r]) : r \in rgids}}
Named(p) == IF Careful THEN live[p] ELSE Rgids
Reachable(p) == PagesOf(p, Named(p)) \cup IF Careful THEN {} ELSE {0} \cup WildPages

Access(p, g) ==
    /\ g \in Reachable(p)
    /\ \/ pgd[p][g].present = 1 /\ Goto(p, "run", "io")
       \/ pgd[p][g].present = 0 /\ Goto(p, "run", "fault")
    /\ local' = [local EXCEPT ![p] = [NoLocal EXCEPT !.page = g, !.fpn = PAGING_PTE_FPN(pgd[p][g])]]
    /\ UNCHANGED <<mmvm_lock, devVars, pageVars, areaVars, lostVars, crashed>>

(* pg_getval moves a byte out of the frame, pg_setval one into it, whosever *)
(* data it holds.  An address behind the storage of the device is not      *)
(* refused: the simulator dies, or moves a byte that is in no frame.       *)
ReadByte(p) ==
    /\ Goto(p, "io", "run")
    /\ local' = [local EXCEPT ![p] = NoLocal]
    /\ UNCHANGED <<mmvm_lock, devVars, pageVars, areaVars, lostVars, crashed>>

Stored(data, p, g) ==
    IF data = None \/ data \in DataOf(p, g) THEN data ELSE Mixed(data[1], data[2])

WriteByte(p) ==
    /\ Goto(p, "io", "run")
    /\ ramHolds' = [f \in Ram |-> IF f = local[p].fpn
                                  THEN Stored(ramHolds[f], p, local[p].page)
                                  ELSE ramHolds[f]]
    /\ local' = [local EXCEPT ![p] = NoLocal]
    /\ UNCHANGED <<mmvm_lock, mram_free, mswp_free, swapHolds, pageVars, areaVars,
                   lostVars, crashed>>

AccessDies(p) ==
    /\ ~crashed /\ pc[p] = "io" /\ local[p].fpn \notin Ram
    /\ crashed' = TRUE
    /\ UNCHANGED <<mmvm_lock, devVars, pageVars, areaVars, lostVars, pc, local>>

FaultFails(p) ==                       \* no page to turn out: -1
    /\ fifo_pgn[p] = << >>
    /\ Goto(p, "fault", "run")
    /\ local' = [local EXCEPT ![p] = NoLocal]
    /\ UNCHANGED <<mmvm_lock, devVars, pageVars, areaVars, lostVars, crashed>>

(* The victim is copied out to swap frame s, the page is copied in from    *)
(* the swap frame its empty entry names (0), and takes the victim's frame. *)
FaultSwaps(p, s) ==
    LET f == VictimFrame(p)
        g == local[p].page IN
    /\ swapHolds' = Copied(ramHolds, f, swapHolds, s)
    /\ ramHolds' = Copied(swapHolds', PAGING_PTE_SWP(pgd[p][g]), ramHolds, f)
    /\ pgd' = [pgd EXCEPT ![p][local[p].victim] = pte_set_swap(@, SwpType, s),
                          ![p][g] = pte_set_fpn(@, f)]
    /\ fifo_pgn' = [fifo_pgn EXCEPT ![p] = <<g>> \o @]
    /\ mapped' = [mapped EXCEPT ![p] = @ \cup {g}]
    /\ local' = [local EXCEPT ![p] = [NoLocal EXCEPT !.page = g, !.fpn = f]]

FaultPage(p) ==
    /\ Goto(p, "fault_unlink", "io")
    /\ Unlink(p)
    /\ FaultSwaps(p, Head(local[p].head))
    /\ UNCHANGED <<mmvm_lock, mram_free, areaVars, lostVars, crashed>>

(* The result of MEMPHY_get_freefp is not tested: with swap full, swpfpn   *)
(* is whatever the stack holds.                                            *)
FaultPageNoSwap(p) ==
    /\ mswp_free = << >>
    /\ Goto(p, "fault_out", "io")
    /\ \E s \in Swap : FaultSwaps(p, s)
    /\ UNCHANGED <<mmvm_lock, mram_free, mswp_free, areaVars, lostVars, crashed>>

(***************************************************************************)
(* The process ends, and a new one gets its place.  delete_pcb gives no    *)
(* frame back.  init_mm clears neither the page table nor the symbols:     *)
(* malloc returns zeros, or what the process before left there.            *)
(* Mutant: the free list of the process before is kept as well.            *)
(***************************************************************************)
FirstArea_Kept(p) == freerg[p]
FirstArea(p) == <<Region(0, 0)>>

Disowned(holds, p) ==     \* the data stay, and are nobody's
    [f \in DOMAIN holds |-> IF \E g \in Pages : holds[f] \in DataOf(p, g) THEN None ELSE holds[f]]

Exit(p) ==
    /\ Ends /\ Goto(p, "run", "run")
    /\ lostRam' = lostRam \cup RamOf(p)
    /\ lostSwap' = lostSwap \cup SwapOf(p)
    /\ pgd' \in {pgd, [pgd EXCEPT ![p] = NoPages]}
    /\ symrgtbl' \in {symrgtbl, [symrgtbl EXCEPT ![p] = NoSymbols]}
    /\ fifo_pgn' = [fifo_pgn EXCEPT ![p] = << >>]
    /\ freerg' = [freerg EXCEPT ![p] = FirstArea(p)]
    /\ sbrk' = [sbrk EXCEPT ![p] = 0]
    /\ live' = [live EXCEPT ![p] = {}] /\ mapped' = [mapped EXCEPT ![p] = {}]
    /\ ramHolds' = Disowned(ramHolds, p) /\ swapHolds' = Disowned(swapHolds, p)
    /\ UNCHANGED <<mmvm_lock, mram_free, mswp_free, local, crashed>>

Step(p) == \/ GetFrame(p) \/ FindVictim(p) \/ FindVictimDies(p) \/ AllocFails(p)
           \/ ReadSwapHead(p) \/ UnlinkDies(p) \/ Evict(p) \/ MapRange(p)
           \/ ReadByte(p) \/ WriteByte(p) \/ AccessDies(p)
           \/ FaultFails(p) \/ FaultPage(p) \/ FaultPageNoSwap(p)

Call(p) == \/ \E r \in Rgids : \/ \E size \in Sizes : \/ AllocFits(p, r, size)
                                                      \/ AllocGrows(p, r, size)
                               \/ Free(p, r)
           \/ \E g \in Pages : Access(p, g)
           \/ Exit(p)

Halted == crashed /\ UNCHANGED vars

Next == Halted \/ \E p \in Procs : Call(p) \/ Step(p)

SafeSpec == Init /\ [][Next]_vars

(* A thread in the middle of a call goes on; new calls need not come.      *)
Spec == SafeSpec /\ \A p \in Procs : WF_vars(Step(p))

-------------------------------------------------------------------------------
Contents == (Procs \X Pages \X {"whole", "mixed"}) \cup {None}

TypeOK ==
    /\ mmvm_lock \in Procs \cup {None}
    /\ mram_free \in Seq(Ram) /\ mswp_free \in Seq(Swap)
    /\ ramHolds \in [Ram -> Contents] /\ swapHolds \in [Swap -> Contents]
    /\ pgd \in [Procs -> [Pages -> Ptes]]
    /\ fifo_pgn \in [Procs -> Seq(Pages)]
    /\ freerg \in [Procs -> Seq(Regions)]
    /\ symrgtbl \in [Procs -> [Rgids -> Regions]]
    /\ sbrk \in [Procs -> 0..HeapPages * PAGING_PAGESZ]
    /\ live \in [Procs -> SUBSET Rgids]
    /\ mapped \in [Procs -> SUBSET Pages]
    /\ lostRam \subseteq Ram /\ lostSwap \subseteq Swap
    /\ pc \in [Procs -> {"run", "grow", "evict", "evict_unlink", "fault",
                         "fault_out", "fault_unlink", "io"}]
    /\ local \in [Procs -> [rgid : Rgids \cup {None}, size : Nat, need : Nat,
                            frames : Seq(Ram), page : Pages, victim : Pages,
                            head : Seq(Swap), fpn : Nat]]
    /\ crashed \in BOOLEAN

Occurrences(seq, x) == {i \in 1..Len(seq) : seq[i] = x}

(* Where a frame is: free; collected by an allocation; behind a page of a  *)
(* process; lost with a process that ended.                                *)
RamPlaces(f) ==
    LET taken == {{<<"taken", p, i>> : i \in Occurrences(local[p].frames, f)} : p \in Procs}
        paged == {{<<"page", p, g>> : g \in {h \in mapped[p] :
                      Online(p, h) /\ PAGING_PTE_FPN(pgd[p][h]) = f}} : p \in Procs} IN
    {<<"free", None, i>> : i \in Occurrences(mram_free, f)}
      \cup (UNION taken) \cup (UNION paged)
      \cup {<<"lost", None, 0>> : x \in lostRam \cap {f}}

SwapPlaces(s) ==
    LET paged == {{<<"page", p, g>> : g \in {h \in mapped[p] :
                      Swapped(p, h) /\ PAGING_PTE_SWP(pgd[p][h]) = s}} : p \in Procs} IN
    {<<"free", None, i>> : i \in Occurrences(mswp_free, s)}
      \cup (UNION paged)
      \cup {<<"lost", None, 0>> : x \in lostSwap \cap {s}}

(* Every frame of RAM is in exactly one place, through evictions, page     *)
(* faults and allocations that fail half way and give their frames back;   *)
(* only the end of a process loses frames, those of its pages.             *)
RamFramesAccounted == \A f \in Ram : Cardinality(RamPlaces(f)) = 1

(* The same for swap.                                                      *)
SwapFramesAccounted == \A s \in Swap : Cardinality(SwapPlaces(s)) = 1

(* The frame an entry names, in RAM or in swap, has the data of its page   *)
(* and no other's: no eviction, half-done allocation or end of any process *)
(* loses them or puts others in their place, whatever the page table held  *)
(* when the process got it.                                                *)
DataAt(p, g) == IF Online(p, g) THEN ramHolds[PAGING_PTE_FPN(pgd[p][g])]
                                ELSE swapHolds[PAGING_PTE_SWP(pgd[p][g])]

PagesPreserved == \A p \in Procs : \A g \in mapped[p] : DataAt(p, g) \in DataOf(p, g)

(* While a process has a page, nobody changes its data wherever they are:  *)
(* not by moving them to swap, taking frames, ending, or by storing to     *)
(* pages in RAM, without a lock.  The code has one exception: pg_setval to *)
(* a page in swap puts the byte into the frame of somebody else.           *)
StrayStore(q) == WriteByte(q) /\ Swapped(q, local[q].page)

DataStay == [][\A p \in Procs : \A g \in mapped[p] \cap mapped'[p] :
                  \/ DataAt(p, g)' = DataAt(p, g)
                  \/ DataAt(p, g)' = Mixed(p, g) /\ \E q \in Procs : StrayStore(q)]_vars

(* The list of candidates for eviction names pages that this process       *)
(* mapped and that are in RAM, each once: a page is never turned out twice.*)
FifoIsOnline == \A p \in Procs :
    /\ \A i, j \in 1..Len(fifo_pgn[p]) : fifo_pgn[p][i] = fifo_pgn[p][j] => i = j
    /\ \A i \in 1..Len(fifo_pgn[p]) :
          fifo_pgn[p][i] \in mapped[p] /\ Online(p, fifo_pgn[p][i])

(* First fit, splitting, growing and freeing never hand out a byte twice:  *)
(* the regions in use and the free regions of a process are disjoint.      *)
RegionsDisjoint == \A p \in Procs :
    LET free == 1..Len(freerg[p]) IN
    /\ \A r, q \in live[p] : r # q =>
          Bytes(symrgtbl[p][r]) \cap Bytes(symrgtbl[p][q]) = {}
    /\ \A i, j \in free : i # j => Bytes(freerg[p][i]) \cap Bytes(freerg[p][j]) = {}
    /\ \A r \in live[p], i \in free :
          Bytes(symrgtbl[p][r]) \cap Bytes(freerg[p][i]) = {}

(* Free regions, and those programs use, lie below the break, and every    *)
(* byte of them on a page this process mapped: an allocation that reports  *)
(* success has memory behind it, even if what was freed is freed again.    *)
RegionsBacked == \A p \in Procs :
    \A a \in UNION ({Bytes(symrgtbl[p][r]) : r \in Named(p)}
                    \cup {Bytes(freerg[p][i]) : i \in 1..Len(freerg[p])}) :
       a < sbrk[p] /\ Page(a) \in mapped[p] /\ pgd[p][Page(a)].present = 1

(* A frame number found by pg_getpage is still right when the byte is      *)
(* moved, unless the page had been swapped out: an access takes no lock,   *)
(* but nobody else turns its pages out.                                    *)
TranslationStable == \A p \in Procs :
    pc[p] = "io" /\ Online(p, local[p].page)
      => local[p].fpn \in Ram /\ ramHolds[local[p].fpn] \in DataOf(p, local[p].page)

(* libmem.c:298, "Get the page to MEMRAM, swap from MEMSWAP if needed":    *)
(* the frame an access uses holds the page it asked for.                   *)
AccessGetsItsPage == \A p \in Procs :
    pc[p] = "io"
      => local[p].fpn \in Ram /\ ramHolds[local[p].fpn] \in DataOf(p, local[p].page)

(* mm.c:160, "Can not find out a victim or a free frame in memswp" is an   *)
(* error __alloc returns, not the end of the simulator.                    *)
OutOfMemoryIsReturned == ~crashed

(* mmvm_lock is released on every path of an allocation, those that fail   *)
(* included, unless the simulator died in it.                              *)
LockReleased == \A p \in Procs : mmvm_lock = p ~> (mmvm_lock # p \/ crashed)
==============================================================================
