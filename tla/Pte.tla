--------------------------------- MODULE Pte ---------------------------------
(***************************************************************************)
(* Page table entries (mm.h, mm.c): 32-bit words.  Bit 31 says that the    *)
(* entry is in use, bit 30 that its page is in swap.  The frame number has *)
(* bits 0-12; the swap type and offset of a page in swap have bits 0-4 and *)
(* 5-25, over the same bits.  An entry is here its two flags and the       *)
(* number in its bits 0-25; the others are never set.                      *)
(***************************************************************************)
EXTENDS Integers

FpnRange == 8192         \* 2^13
SwpTypRange == 32        \* 2^5
SwpOffRange == 2097152   \* 2^21

Ptes == [present : {0, 1}, swapped : {0, 1}, low : 0..SwpTypRange * SwpOffRange - 1]

NoPte == [present |-> 0, swapped |-> 0, low |-> 0]

PAGING_PTE_FPN(pte) == pte.low % FpnRange
PAGING_PTE_SWP(pte) == pte.low \div SwpTypRange

(* Mutant: the bit that says the page is in swap is not cleared.           *)
pte_set_fpn_StaysSwapped(pte, fpn) ==
    [pte EXCEPT !.present = 1, !.low = @ - (@ % FpnRange) + (fpn % FpnRange)]

(* The bits of a swap offset above the frame number keep their value.      *)
pte_set_fpn(pte, fpn) ==
    [pte EXCEPT !.present = 1, !.swapped = 0,
                !.low = @ - (@ % FpnRange) + (fpn % FpnRange)]

(* Mutant: the entry is not marked as swapped.                             *)
pte_set_swap_NotMarked(pte, typ, off) ==
    [pte EXCEPT !.present = 1, !.low = (typ % SwpTypRange) + SwpTypRange * (off % SwpOffRange)]

pte_set_swap(pte, typ, off) ==
    [pte EXCEPT !.present = 1, !.swapped = 1,
                !.low = (typ % SwpTypRange) + SwpTypRange * (off % SwpOffRange)]

(* In RAM; in swap.  The code itself tests bit 31 alone.                   *)
InRam(pte)  == pte.present = 1 /\ pte.swapped = 0
InSwap(pte) == pte.present = 1 /\ pte.swapped = 1
==============================================================================
