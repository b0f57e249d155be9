------------------------------- MODULE ListFacts ------------------------------
(***************************************************************************)
(* What the list operations of Memory do to the elements of a list: which  *)
(* are left, and that none comes twice.                                    *)
(***************************************************************************)
EXTENDS Integers, Sequences, SequencesExt, SequenceTheorems, TLAPS

Distinct(s) == \A i, j \in 1..Len(s) : s[i] = s[j] => i = j

LEMMA ElementFacts ==
    ASSUME NEW S, NEW s \in Seq(S)
    PROVE  /\ Len(s) \in Nat
           /\ \A x : x \in ToSet(s) <=> \E i \in 1..Len(s) : s[i] = x
           /\ ToSet(s) \subseteq S
           /\ s = << >> <=> ToSet(s) = {}
<1>1. Len(s) \in Nat /\ DOMAIN s = 1..Len(s)
  OBVIOUS
<1>2. \A x : x \in ToSet(s) <=> \E i \in 1..Len(s) : s[i] = x
  BY <1>1, Zenon DEF ToSet
<1>3. ToSet(s) \subseteq S
  BY <1>2
<1>4. s # << >> => s[1] \in ToSet(s)
  BY <1>1, <1>2
<1>5. s = << >> => ToSet(s) = {}
  BY <1>2
<1> QED BY <1>1, <1>2, <1>3, <1>4, <1>5

LEMMA EmptyFacts == Distinct(<< >>) /\ ToSet(<< >>) = {} /\ Len(<< >>) = 0
<1>1. Len(<< >>) = 0 /\ << >> \in Seq({})
  OBVIOUS
<1>2. ToSet(<< >>) = {}
  BY <1>1, ElementFacts
<1>3. Distinct(<< >>)
  BY <1>1 DEF Distinct
<1> QED BY <1>1, <1>2, <1>3

(* An element in front.                                                    *)
LEMMA ConsFacts ==
    ASSUME NEW S, NEW s \in Seq(S), NEW x \in S
    PROVE  LET t == <<x>> \o s IN
           /\ t \in Seq(S) /\ Len(t) = Len(s) + 1
           /\ t[1] = x /\ \A i \in 1..Len(s) : t[i + 1] = s[i]
           /\ \A i \in 2..Len(t) : t[i] = s[i - 1]
           /\ ToSet(t) = ToSet(s) \cup {x}
           /\ Distinct(s) /\ x \notin ToSet(s) => Distinct(t)
<1> DEFINE t == <<x>> \o s
<1>1. /\ t \in Seq(S) /\ Len(t) = Len(s) + 1 /\ Len(s) \in Nat
      /\ t[1] = x /\ \A i \in 1..Len(s) : t[i + 1] = s[i]
      /\ \A i \in 2..Len(t) : t[i] = s[i - 1]
  OBVIOUS
<1> HIDE DEF t
<1>2. ToSet(t) \subseteq ToSet(s) \cup {x}
  <2> SUFFICES ASSUME NEW i \in 1..Len(t) PROVE t[i] \in ToSet(s) \cup {x}
    BY <1>1, ElementFacts
  <2>1. i = 1 \/ (i \in 2..Len(t) /\ i - 1 \in 1..Len(s))
    BY <1>1
  <2> QED BY <1>1, <2>1, ElementFacts
<1>3. ToSet(s) \cup {x} \subseteq ToSet(t)
  <2>1. 1 \in 1..Len(t) /\ \A i \in 1..Len(s) : i + 1 \in 1..Len(t)
    BY <1>1
  <2>2. /\ \A y : y \in ToSet(s) <=> \E i \in 1..Len(s) : s[i] = y
        /\ \A y : y \in ToSet(t) <=> \E i \in 1..Len(t) : t[i] = y
    BY <1>1, ElementFacts
  <2>3. x \in ToSet(t)
    BY <1>1, <2>1, <2>2
  <2>4. ASSUME NEW y \in ToSet(s) PROVE y \in ToSet(t)
    <3>1. PICK i \in 1..Len(s) : s[i] = y
      BY <2>2
    <3>2. i + 1 \in 1..Len(t) /\ t[i + 1] = y
      BY <1>1, <2>1, <3>1
    <3> QED BY <2>2, <3>2
  <2> QED BY <2>3, <2>4
<1>4. ASSUME Distinct(s), x \notin ToSet(s) PROVE Distinct(t)
  <2>1. \A i \in 1..Len(s) : s[i] # x
    BY <1>4, ElementFacts
  <2>2. \A i \in 1..Len(t) : i = 1 \/ (i \in 2..Len(t) /\ i - 1 \in 1..Len(s))
    BY <1>1
  <2>3. \A i \in 2..Len(t) : t[i] # t[1]
    <3> SUFFICES ASSUME NEW i \in 2..Len(t) PROVE t[i] # t[1]
      OBVIOUS
    <3>1. i - 1 \in 1..Len(s) /\ t[i] = s[i - 1]
      BY <1>1
    <3> QED BY <1>1, <2>1, <3>1
  <2>4. ASSUME NEW i \in 2..Len(t), NEW j \in 2..Len(t), t[i] = t[j] PROVE i = j
    <3>1. /\ i - 1 \in 1..Len(s) /\ t[i] = s[i - 1]
          /\ j - 1 \in 1..Len(s) /\ t[j] = s[j - 1]
      BY <1>1
    <3>2. i - 1 = j - 1
      BY <1>4, <2>4, <3>1 DEF Distinct
    <3> QED BY <3>2
  <2> QED BY <2>2, <2>3, <2>4 DEF Distinct
<1> QED BY <1>1, <1>2, <1>3, <1>4 DEF t

(* The first element taken off.                                            *)
LEMMA TailFacts ==
    ASSUME NEW S, NEW s \in Seq(S), s # << >>
    PROVE  /\ Head(s) \in S /\ Head(s) \in ToSet(s) /\ Tail(s) \in Seq(S)
           /\ ToSet(Tail(s)) \subseteq ToSet(s)
           /\ Distinct(s) => Distinct(Tail(s)) /\ ToSet(Tail(s)) = ToSet(s) \ {Head(s)}
<1>1. /\ Head(s) = s[1] /\ Head(s) \in S /\ Tail(s) \in Seq(S)
      /\ Len(Tail(s)) = Len(s) - 1 /\ Len(s) \in Nat \ {0}
      /\ \A i \in 1..Len(Tail(s)) : Tail(s)[i] = s[i + 1]
  OBVIOUS
<1> DEFINE t == Tail(s)
           h == Head(s)
<1>2. /\ h = s[1] /\ h \in S /\ t \in Seq(S)
      /\ Len(t) = Len(s) - 1 /\ Len(s) \in Nat \ {0}
      /\ \A i \in 1..Len(t) : t[i] = s[i + 1]
  BY <1>1
<1> HIDE DEF t, h
<1>3. h \in ToSet(s)
  BY <1>2, ElementFacts
<1>4. ToSet(t) \subseteq ToSet(s)
  <2>1. \A i \in 1..Len(t) : i + 1 \in 1..Len(s)
    BY <1>2
  <2> QED BY <1>2, <2>1, ElementFacts
<1>5. ASSUME Distinct(s) PROVE Distinct(t) /\ ToSet(t) = ToSet(s) \ {h}
  <2>1. Distinct(t)
    BY <1>2, <1>5 DEF Distinct
  <2>2. h \notin ToSet(t)
    BY <1>2, <1>5, ElementFacts DEF Distinct
  <2>3. \A i \in 1..Len(s) : i = 1 \/ (i - 1 \in 1..Len(t) /\ t[i - 1] = s[i])
    BY <1>2
  <2>4. ToSet(s) \ {h} \subseteq ToSet(t)
    BY <1>2, <2>3, ElementFacts
  <2> QED BY <1>4, <2>1, <2>2, <2>4
<1> QED BY <1>2, <1>3, <1>4, <1>5 DEF t, h

(* The last element taken off.                                             *)
LEMMA FrontFacts ==
    ASSUME NEW S, NEW s \in Seq(S), s # << >>
    PROVE  /\ Last(s) \in S /\ Last(s) \in ToSet(s) /\ Front(s) \in Seq(S)
           /\ ToSet(Front(s)) \subseteq ToSet(s)
           /\ Distinct(s) => Distinct(Front(s)) /\ Last(s) \notin ToSet(Front(s))
<1> DEFINE t == Front(s)
           l == Last(s)
<1>1. Len(s) \in Nat \ {0}
  OBVIOUS
<1>2. /\ t \in Seq(S) /\ Len(t) = Len(s) - 1
      /\ \A i \in 1..Len(t) : t[i] = s[i]
  <2> DEFINE n == Len(s) - 1
  <2>1. 1 \in Int /\ n \in Nat /\ \A i \in 1..n : s[i] \in S
    BY <1>1
  <2>2. t = SubSeq(s, 1, n)
    BY DEF Front
  <2> HIDE DEF n, t
  <2>3. /\ t \in Seq(S) /\ Len(t) = IF 1 <= n THEN n - 1 + 1 ELSE 0
        /\ \A i \in 1..n - 1 + 1 : t[i] = s[1 + i - 1]
    BY <2>1, <2>2, SubSeqProperties
  <2>4. Len(t) = n
    BY <2>1, <2>3
  <2>5. \A i \in 1..n : t[i] = s[i]
    <3> SUFFICES ASSUME NEW i \in 1..n PROVE t[i] = s[i]
      OBVIOUS
    <3>1. i \in 1..n - 1 + 1 /\ 1 + i - 1 = i
      BY <2>1
    <3> QED BY <2>3, <3>1
  <2> QED BY <2>3, <2>4, <2>5 DEF n
<1>3. l = s[Len(s)]
  BY DEF Last
<1> HIDE DEF t, l
<1>4. l \in S /\ l \in ToSet(s)
  BY <1>1, <1>3, ElementFacts
<1>5. ToSet(t) \subseteq ToSet(s)
  BY <1>1, <1>2, ElementFacts
<1>6. ASSUME Distinct(s) PROVE Distinct(t) /\ l \notin ToSet(t)
  <2>1. Distinct(t)
    BY <1>1, <1>2, <1>6 DEF Distinct
  <2>2. \A i \in 1..Len(t) : t[i] # l
    BY <1>1, <1>2, <1>3, <1>6 DEF Distinct
  <2> QED BY <1>2, <2>1, <2>2, ElementFacts
<1> QED BY <1>2, <1>4, <1>5, <1>6 DEF t, l

(* Two lists in a row.                                                     *)
LEMMA JoinFacts ==
    ASSUME NEW S, NEW s \in Seq(S), NEW t \in Seq(S)
    PROVE  /\ s \o t \in Seq(S)
           /\ ToSet(s \o t) = ToSet(s) \cup ToSet(t)
           /\ Distinct(s) /\ Distinct(t) /\ ToSet(s) \cap ToSet(t) = {} => Distinct(s \o t)
<1> DEFINE u == s \o t
<1>1. /\ u \in Seq(S) /\ Len(u) = Len(s) + Len(t)
      /\ \A i \in 1..Len(s) + Len(t) : u[i] = IF i <= Len(s) THEN s[i] ELSE t[i - Len(s)]
  BY ConcatProperties
<1>2. Len(s) \in Nat /\ Len(t) \in Nat
  OBVIOUS
<1> HIDE DEF u
<1>3. \A i \in 1..Len(u) : \/ i \in 1..Len(s) /\ u[i] = s[i]
                           \/ i > Len(s) /\ i - Len(s) \in 1..Len(t) /\ u[i] = t[i - Len(s)]
  BY <1>1, <1>2
<1>4. /\ \A i \in 1..Len(s) : i \in 1..Len(u) /\ u[i] = s[i]
      /\ \A i \in 1..Len(t) : i + Len(s) \in 1..Len(u) /\ u[i + Len(s)] = t[i]
  <2>1. \A i \in 1..Len(s) : i \in 1..Len(u) /\ u[i] = s[i]
    BY <1>1, <1>2
  <2>2. ASSUME NEW i \in 1..Len(t)
        PROVE  i + Len(s) \in 1..Len(u) /\ u[i + Len(s)] = t[i]
    <3>1. /\ i + Len(s) \in 1..Len(s) + Len(t) /\ ~(i + Len(s) <= Len(s))
          /\ (i + Len(s)) - Len(s) = i
      BY <1>2
    <3> QED BY <1>1, <3>1
  <2> QED BY <2>1, <2>2
<1>5. ToSet(u) = ToSet(s) \cup ToSet(t)
  <2>1. /\ \A y : y \in ToSet(s) <=> \E i \in 1..Len(s) : s[i] = y
        /\ \A y : y \in ToSet(t) <=> \E i \in 1..Len(t) : t[i] = y
        /\ \A y : y \in ToSet(u) <=> \E i \in 1..Len(u) : u[i] = y
    BY <1>1, ElementFacts
  <2>2. ToSet(u) \subseteq ToSet(s) \cup ToSet(t)
    BY <1>3, <2>1
  <2>3. ToSet(s) \subseteq ToSet(u)
    BY <1>4, <2>1
  <2>4. ToSet(t) \subseteq ToSet(u)
    BY <1>4, <2>1
  <2> QED BY <2>2, <2>3, <2>4
<1>6. ASSUME Distinct(s), Distinct(t), ToSet(s) \cap ToSet(t) = {} PROVE Distinct(u)
  <2>1. \A i \in 1..Len(s), j \in 1..Len(t) : s[i] # t[j]
    BY <1>6, ElementFacts
  <2> SUFFICES ASSUME NEW i \in 1..Len(u), NEW j \in 1..Len(u), u[i] = u[j] PROVE i = j
    BY DEF Distinct
  <2>2. CASE i \in 1..Len(s) /\ j \in 1..Len(s)
    BY <1>3, <1>6, <2>2 DEF Distinct
  <2>3. CASE i > Len(s) /\ j > Len(s)
    BY <1>2, <1>3, <1>6, <2>3 DEF Distinct
  <2>4. CASE (i > Len(s)) # (j > Len(s))
    BY <1>2, <1>3, <2>1, <2>4
  <2> QED BY <1>1, <1>2, <2>2, <2>3, <2>4
<1> QED BY <1>1, <1>5, <1>6 DEF u

(* A list turned around.                                                   *)
LEMMA ReverseFacts ==
    ASSUME NEW S, NEW s \in Seq(S)
    PROVE  /\ Reverse(s) \in Seq(S) /\ ToSet(Reverse(s)) = ToSet(s)
           /\ Distinct(s) => Distinct(Reverse(s))
<1> DEFINE r == Reverse(s)
<1>1. Len(s) \in Nat
  OBVIOUS
<1>2. r \in [1..Len(s) -> S] /\ \A i \in 1..Len(s) : r[i] = s[(Len(s) - i) + 1]
  BY <1>1 DEF Reverse
<1> HIDE DEF r
<1>3. r \in Seq(S)
  BY <1>1, <1>2, SeqDef
<1>4. Len(r) = Len(s)
  BY <1>1, <1>2, <1>3
<1>5. \A i \in 1..Len(s) : (Len(s) - i) + 1 \in 1..Len(s)
                           /\ r[(Len(s) - i) + 1] = s[i]
  BY <1>1, <1>2
<1>6. ToSet(r) = ToSet(s)
  <2>1. /\ \A y : y \in ToSet(s) <=> \E i \in 1..Len(s) : s[i] = y
        /\ \A y : y \in ToSet(r) <=> \E i \in 1..Len(s) : r[i] = y
    BY <1>3, <1>4, ElementFacts
  <2>2. ToSet(s) \subseteq ToSet(r)
    BY <1>5, <2>1
  <2>3. ToSet(r) \subseteq ToSet(s)
    BY <1>2, <1>5, <2>1
  <2> QED BY <2>2, <2>3
<1>7. Distinct(s) => Distinct(r)
  BY <1>1, <1>2, <1>4, <1>5 DEF Distinct
<1> QED BY <1>3, <1>6, <1>7 DEF r

(* The descending list of the numbers b .. b + n - 1.                      *)
LEMMA DescendingFacts ==
    ASSUME NEW b \in Nat, NEW n \in Nat
    PROVE  LET s == [i \in 1..n |-> b + n - i] IN
           /\ s \in Seq(b..b + n - 1) /\ ToSet(s) = b..b + n - 1 /\ Distinct(s)
<1> DEFINE s == [i \in 1..n |-> b + n - i]
<1>1. s \in [1..n -> b..b + n - 1] /\ \A i \in 1..n : s[i] = b + n - i
  OBVIOUS
<1> HIDE DEF s
<1>2. s \in Seq(b..b + n - 1)
  BY <1>1, SeqDef
<1>3. Len(s) = n
  BY <1>1, <1>2
<1>4. \A g \in b..b + n - 1 : b + n - g \in 1..n /\ s[b + n - g] = g
  BY <1>1
<1>5. ToSet(s) = b..b + n - 1
  <2>1. \A y : y \in ToSet(s) <=> \E i \in 1..n : s[i] = y
    BY <1>2, <1>3, ElementFacts
  <2>2. b..b + n - 1 \subseteq ToSet(s)
    BY <1>4, <2>1
  <2>3. ToSet(s) \subseteq b..b + n - 1
    BY <1>1, <2>1
  <2> QED BY <2>2, <2>3
<1>6. Distinct(s)
  BY <1>1, <1>3 DEF Distinct
<1> QED BY <1>2, <1>5, <1>6 DEF s
==============================================================================
