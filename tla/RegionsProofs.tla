----------------------------- MODULE RegionsProofs ----------------------------
(***************************************************************************)
(* For every page size and every list of free regions: the arithmetic of   *)
(* pages and the first-fit search, with its splitting, do what Memory      *)
(* relies on.                                                              *)
(***************************************************************************)
EXTENDS Regions, SequenceTheorems, WellFoundedInduction, TLAPS

(***************************************************************************)
(* Pages.                                                                  *)
(***************************************************************************)
(* Whole pages that hold at least what was asked for.                      *)
LEMMA PagesForFacts ==
    ASSUME NEW size \in Nat \ {0}
    PROVE  /\ PagesFor(size) \in Nat \ {0}
           /\ Aligned(size) = PagesFor(size) * PAGING_PAGESZ
           /\ Aligned(size) \in Nat /\ Aligned(size) >= size
<1>1. PAGING_PAGESZ \in Nat \ {0}
  BY PageSizeAssumption
<1> QED BY <1>1 DEF PagesFor, Aligned

(* An address lies below the start of page k if its page does.             *)
LEMMA PageFacts ==
    ASSUME NEW a \in Nat, NEW k \in Nat
    PROVE  /\ Page(a) \in Nat
           /\ a < k * PAGING_PAGESZ => Page(a) < k
           /\ Page(k * PAGING_PAGESZ) = k
           /\ k * PAGING_PAGESZ \in Nat
<1>1. PAGING_PAGESZ \in Nat \ {0}
  BY PageSizeAssumption
<1> QED BY <1>1 DEF Page

LEMMA PagesSum ==
    ASSUME NEW k \in Nat, NEW n \in Nat, NEW m \in Nat
    PROVE  /\ k * PAGING_PAGESZ + n * PAGING_PAGESZ = (k + n) * PAGING_PAGESZ
           /\ k * PAGING_PAGESZ <= m * PAGING_PAGESZ => k <= m
<1>1. PAGING_PAGESZ \in Nat \ {0}
  BY PageSizeAssumption
<1> QED BY <1>1

(***************************************************************************)
(* First fit.                                                              *)
(***************************************************************************)
(* The search finds a region that is large enough, if there is one.        *)
LEMMA FirstFitFacts ==
    ASSUME NEW list \in Seq(Regions), NEW size \in Nat, HasFit(list, size)
    PROVE  FirstFit(list, size) \in 1..Len(list) /\ Fits(list[FirstFit(list, size)], size)
<1> DEFINE T == {i \in 1..Len(list) : Fits(list[i], size)}
<1>1. T \subseteq Nat /\ T # {}
  BY DEF HasFit
<1> HIDE DEF T
<1>2. PICK i \in T : \A j \in T : ~(<<j, i>> \in OpToRel(<, Nat))
  BY <1>1, WFMin, NatLessThanWellFounded, Zenon
<1>3. \A j \in T : ~(j < i)
  BY <1>1, <1>2, Zenon DEF OpToRel
<1>4. i \in 1..Len(list) /\ Fits(list[i], size)
  BY <1>2, Zenon DEF T
<1>5. \A j \in 1..i - 1 : ~Fits(list[j], size)
  <2> SUFFICES ASSUME NEW j \in 1..i - 1, Fits(list[j], size) PROVE FALSE
    OBVIOUS
  <2>1. j \in T
    BY <1>4 DEF T
  <2> QED BY <1>3, <1>4, <2>1
<1>6. \E k \in 1..Len(list) : Fits(list[k], size) /\ \A j \in 1..k - 1 : ~Fits(list[j], size)
  BY <1>4, <1>5
<1> QED BY <1>6, Zenon DEF FirstFit

(* The region a remaining one was, or was part of, before the allocation.  *)
Source(list, size, j) ==
    LET i == FirstFit(list, size) IN
    IF list[i].start + size = list[i].end /\ j >= i THEN j + 1 ELSE j

(* What is handed out comes from the front of one free region; every       *)
(* region that remains is another one, or what is left of that one.        *)
LEMMA TakeFacts ==
    ASSUME NEW list \in Seq(Regions), NEW size \in Nat, HasFit(list, size)
    PROVE  LET i == FirstFit(list, size)  after == AfterTake(list, size) IN
           /\ Taken(list, size) \in Regions
           /\ Taken(list, size) = Region(list[i].start, list[i].start + size)
           /\ i \in 1..Len(list) /\ list[i].start + size <= list[i].end
           /\ after \in Seq(Regions)
           /\ \A j \in 1..Len(after) :
                LET k == Source(list, size, j) IN
                /\ k \in 1..Len(list)
                /\ k # i => after[j] = list[k]
                /\ k = i => after[j] = Region(list[i].start + size, list[i].end)
           /\ \A j, m \in 1..Len(after) :
                Source(list, size, j) = Source(list, size, m) => j = m
<1> DEFINE i == FirstFit(list, size)
           after == AfterTake(list, size)
<1>1. i \in 1..Len(list) /\ Fits(list[i], size) /\ list[i] \in Regions
  BY FirstFitFacts
<1>2. /\ Taken(list, size) = Region(list[i].start, list[i].start + size)
      /\ Taken(list, size) \in Regions /\ list[i].start + size <= list[i].end
      /\ Region(list[i].start + size, list[i].end) \in Regions
  BY <1>1 DEF Taken, Regions, Region, Fits
<1>3. CASE list[i].start + size = list[i].end
  <2>1. after = SubSeq(list, 1, i - 1) \o SubSeq(list, i + 1, Len(list))
    BY <1>3 DEF AfterTake, RemoveAt
  <2>2. \A j : Source(list, size, j) = IF j >= i THEN j + 1 ELSE j
    BY <1>3 DEF Source
  <2> HIDE DEF i, after
  <2>3. /\ after \in Seq(Regions) /\ Len(after) = Len(list) - 1
        /\ \A j \in 1..Len(after) : after[j] = IF j < i THEN list[j] ELSE list[j + 1]
    <3> DEFINE front == SubSeq(list, 1, i - 1)
               rest == SubSeq(list, i + 1, Len(list))
    <3>1. /\ front \in Seq(Regions) /\ Len(front) = i - 1
          /\ \A j \in 1..i - 1 : front[j] = list[j]
      BY <1>1, SubSeqProperties
    <3>2. /\ rest \in Seq(Regions) /\ Len(rest) = Len(list) - i
          /\ \A j \in 1..Len(list) - i : rest[j] = list[i + j]
      BY <1>1, SubSeqProperties
    <3> HIDE DEF front, rest
    <3>3. /\ front \o rest \in Seq(Regions) /\ Len(front \o rest) = Len(front) + Len(rest)
          /\ \A j \in 1..Len(front) + Len(rest) :
               (front \o rest)[j] = IF j <= Len(front) THEN front[j] ELSE rest[j - Len(front)]
      BY <3>1, <3>2, ConcatProperties
    <3>4. after = front \o rest
      BY <2>1 DEF front, rest
    <3> HIDE DEF after
    <3>5. Len(after) = Len(list) - 1
      <4>1. Len(after) = Len(front) + Len(rest)
        BY <3>3, <3>4
      <4>2. Len(list) \in Nat /\ i \in Nat
        BY <1>1
      <4> QED BY <3>1, <3>2, <4>1, <4>2
    <3>6. ASSUME NEW j \in 1..Len(after)
          PROVE  after[j] = IF j < i THEN list[j] ELSE list[j + 1]
      <4>1. CASE j < i
        BY <1>1, <3>1, <3>2, <3>3, <3>4, <3>5, <4>1
      <4>2. CASE j >= i
        <5>1. j - Len(front) \in 1..Len(list) - i /\ i + (j - Len(front)) = j + 1
          BY <1>1, <3>1, <3>5, <4>2
        <5> QED BY <1>1, <3>1, <3>2, <3>3, <3>4, <3>5, <4>2, <5>1
      <4> QED BY <1>1, <4>1, <4>2
    <3> QED BY <3>3, <3>4, <3>5, <3>6
  <2>n. Len(list) \in Nat /\ i \in 1..Len(list) /\ Len(after) = Len(list) - 1
    BY <1>1, <2>3
  <2>4. ASSUME NEW j \in 1..Len(after)
        PROVE  LET k == Source(list, size, j) IN
               /\ k \in 1..Len(list) /\ k # i
               /\ after[j] = list[k]
    <3>1. CASE j < i
      <4>1. Source(list, size, j) = j
        BY <2>n, <2>2, <3>1
      <4>2. j \in 1..Len(list) /\ j # i
        BY <2>n, <3>1
      <4> QED BY <2>3, <3>1, <4>1, <4>2
    <3>2. CASE j >= i
      <4>1. Source(list, size, j) = j + 1
        BY <2>2, <3>2
      <4>2. j + 1 \in 1..Len(list) /\ j + 1 # i /\ ~(j < i)
        BY <2>n, <3>2
      <4> QED BY <2>3, <4>1, <4>2
    <3> QED BY <2>n, <3>1, <3>2
  <2>5. ASSUME NEW j \in 1..Len(after), NEW m \in 1..Len(after),
               Source(list, size, j) = Source(list, size, m)
        PROVE  j = m
    <3>1. (IF j >= i THEN j + 1 ELSE j) = (IF m >= i THEN m + 1 ELSE m)
      BY <2>2, <2>5
    <3> QED BY <2>n, <3>1
  <2> QED BY <1>1, <1>2, <2>n, <2>3, <2>4, <2>5 DEF i, after
<1>4. CASE list[i].start + size # list[i].end
  <2>1. after = [list EXCEPT ![i] = Region(list[i].start + size, list[i].end)]
    BY <1>4 DEF AfterTake
  <2>2. \A j : Source(list, size, j) = j
    BY <1>4 DEF Source
  <2> HIDE DEF i, after
  <2>3. /\ after \in Seq(Regions) /\ Len(after) = Len(list)
        /\ \A j \in 1..Len(after) :
             after[j] = IF j = i THEN Region(list[i].start + size, list[i].end) ELSE list[j]
    BY <1>1, <1>2, <2>1
  <2> QED BY <1>1, <1>2, <2>2, <2>3 DEF i, after
<1> QED BY <1>3, <1>4
==============================================================================
