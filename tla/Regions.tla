------------------------------- MODULE Regions -------------------------------
(***************************************************************************)
(* The regions of an address space: the list of free regions that          *)
(* get_free_vmrg_area searches (libmem.c) and the page arithmetic of mm.h, *)
(* as operators.  A region is the half-open range start .. end - 1.        *)
(***************************************************************************)
EXTENDS Integers, Sequences, SequencesExt

CONSTANT PAGING_PAGESZ   \* 256 in the code

ASSUME PageSizeAssumption == PAGING_PAGESZ \in Nat \ {0}

Regions == [start : Nat, end : Nat]
Region(s, e) == [start |-> s, end |-> e]
Bytes(rg) == rg.start..rg.end - 1

(* DIV_ROUND_UP, PAGING_PAGE_ALIGNSZ, PAGING_PGN.                          *)
PagesFor(size) == (size + PAGING_PAGESZ - 1) \div PAGING_PAGESZ
Aligned(size) == PagesFor(size) * PAGING_PAGESZ
Page(addr) == addr \div PAGING_PAGESZ

(* First fit: an exact match is unlinked, a larger region loses its front. *)
Fits(rg, size) == rg.start + size <= rg.end
HasFit(list, size) == \E i \in 1..Len(list) : Fits(list[i], size)
FirstFit(list, size) == CHOOSE i \in 1..Len(list) :
                          /\ Fits(list[i], size)
                          /\ \A j \in 1..i - 1 : ~Fits(list[j], size)

Taken(list, size) == LET s == list[FirstFit(list, size)].start IN Region(s, s + size)

(* Mutant: what is left of the region starts one byte early.               *)
AfterTake_Overlaps(list, size) ==
    [list EXCEPT ![FirstFit(list, size)].start = @ + size - 1]

AfterTake(list, size) ==
    LET i == FirstFit(list, size) IN
    IF list[i].start + size = list[i].end
    THEN RemoveAt(list, i)
    ELSE [list EXCEPT ![i] = Region(@.start + size, @.end)]
==============================================================================
