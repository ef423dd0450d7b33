-------------------------- MODULE Induction_proofs --------------------------
(***************************************************************************)
(* Least elements and induction over the natural numbers, stated with sets *)
(* in the place of predicates, so that the provers can instantiate them,   *)
(* and what is left of a list when one element is removed.                 *)
(***************************************************************************)
EXTENDS Integers, Sequences, WellFoundedInduction, TLAPS

\* The order of the natural numbers as a relation.
Below == OpToRel(<, Nat)

\* It has no infinite descent.
LEMMA BelowIsWellFounded == IsWellFoundedOn(Below, Nat)
BY NatLessThanWellFounded, Zenon DEF Below

\* It is the order it stands for.
LEMMA BelowIsLess == \A x, y \in Nat : x < y => <<x, y>> \in Below
<1>1. Below = {ss \in Nat \X Nat : ss[1] < ss[2]}
  BY Zenon DEF Below, OpToRel
<1> QED BY <1>1

\* Every set of natural numbers that is not empty has a least element.
LEMMA LeastElement ==
    ASSUME NEW S \in SUBSET Nat, S # {}
    PROVE  \E m \in S : \A k \in S : m <= k
<1>1. \E m \in S : \A k \in S : <<k, m>> \notin Below
  BY WFMin, BelowIsWellFounded
<1>2. \A k, m \in Nat : ~(k < m) => m <= k
  OBVIOUS
<1> QED BY <1>1, <1>2, BelowIsLess

\* A set that holds 0 and the successor of each of its elements is Nat.
LEMMA SetInduction ==
    ASSUME NEW T, 0 \in T, \A n \in Nat : n \in T => n + 1 \in T
    PROVE  Nat \subseteq T
<1> SUFFICES ASSUME Nat \ T # {} PROVE FALSE
  OBVIOUS
<1>1. PICK m \in Nat \ T : \A k \in Nat \ T : m <= k
  BY LeastElement
<1>2. m # 0 /\ m - 1 \in Nat /\ m - 1 \in T
  BY <1>1
<1> QED BY <1>1, <1>2

\* If a position of an interval is marked, one of them is the first.
LEMMA FirstMarked ==
    ASSUME NEW n \in Nat, NEW M, NEW i \in 1 .. n, i \in M
    PROVE  \E j \in 1 .. n : j \in M /\ j <= i /\ \A k \in 1 .. j - 1 : k \notin M
<1> DEFINE S == M \cap (1 .. n)
<1>1. S \in SUBSET Nat /\ i \in S
  OBVIOUS
<1>2. \E j \in S : \A k \in S : j <= k
  <2> HIDE DEF S
  <2> QED BY <1>1, LeastElement
<1> QED BY <1>2

NoTwice(list) == \A i, j \in DOMAIN list : list[i] = list[j] => i = j

Without(list, at) ==
    [i \in 1 .. Len(list) - 1 |-> list[IF i < at THEN i ELSE i + 1]]

\* A list without the element at one position has all others, and in a list
\* without repetitions that element is gone.
LEMMA WithoutElement ==
    ASSUME NEW list \in Seq(Nat), NEW at \in DOMAIN list
    PROVE  LET r == Without(list, at) IN
           /\ r \in Seq(Nat)
           /\ \A j \in DOMAIN r : \E i \in DOMAIN list : r[j] = list[i]
           /\ \A i \in DOMAIN list : i # at => \E j \in DOMAIN r : r[j] = list[i]
           /\ NoTwice(list) =>
                NoTwice(r) /\ \A j \in DOMAIN r : r[j] # list[at]
<1> DEFINE r == Without(list, at)
<1>1. DOMAIN list = 1 .. Len(list) /\ Len(list) \in Nat /\ at \in 1 .. Len(list)
  OBVIOUS
<1>2. DOMAIN r = 1 .. Len(list) - 1
  BY DEF Without
<1>3. \A i \in 1 .. Len(list) - 1 :
        IF i < at THEN i \in DOMAIN list /\ r[i] = list[i]
                  ELSE i + 1 \in DOMAIN list /\ r[i] = list[i + 1]
  BY <1>1 DEF Without
<1> HIDE DEF r
<1>4. \A j \in DOMAIN r : \E i \in DOMAIN list :
        r[j] = list[i] /\ i = IF j < at THEN j ELSE j + 1
  BY <1>2, <1>3
<1>5. r \in Seq(Nat)
  <2>1. \A i \in 1 .. Len(list) - 1 : r[i] \in Nat
    BY <1>3
  <2> QED BY <1>1, <2>1 DEF Without, r
<1>6. \A i \in DOMAIN list : i # at => \E j \in DOMAIN r : r[j] = list[i]
  <2> SUFFICES ASSUME NEW i \in DOMAIN list, i # at
               PROVE  \E j \in DOMAIN r : r[j] = list[i]
    OBVIOUS
  <2>1. CASE i < at
    <3>1. i \in 1 .. Len(list) - 1
      BY <2>1, <1>1
    <3>2. r[i] = list[i]
      BY <2>1, <3>1, <1>3
    <3> QED BY <3>1, <3>2, <1>2
  <2>2. CASE i > at
    <3>1. i - 1 \in 1 .. Len(list) - 1 /\ ~(i - 1 < at) /\ (i - 1) + 1 = i
      BY <2>2, <1>1
    <3>2. r[i - 1] = list[i]
      BY <3>1, <1>3
    <3> QED BY <3>1, <3>2, <1>2
  <2> QED BY <2>1, <2>2, <1>1
<1>7. ASSUME NoTwice(list) PROVE NoTwice(r) /\ \A j \in DOMAIN r : r[j] # list[at]
  <2>1. NoTwice(r)
    <3> SUFFICES ASSUME NEW j \in DOMAIN r, NEW k \in DOMAIN r, r[j] = r[k]
                 PROVE  j = k
      BY DEF NoTwice
    <3>1. \E i \in DOMAIN list : r[j] = list[i] /\ i = IF j < at THEN j ELSE j + 1
      BY <1>4
    <3>2. \E i \in DOMAIN list : r[k] = list[i] /\ i = IF k < at THEN k ELSE k + 1
      BY <1>4
    <3>3. (IF j < at THEN j ELSE j + 1) = (IF k < at THEN k ELSE k + 1)
      BY <3>1, <3>2, <1>7 DEF NoTwice
    <3> QED BY <3>3, <1>1, <1>2
  <2>2. ASSUME NEW j \in DOMAIN r, r[j] = list[at] PROVE FALSE
    <3>1. \E i \in DOMAIN list : r[j] = list[i] /\ i = IF j < at THEN j ELSE j + 1
      BY <1>4
    <3>2. at = IF j < at THEN j ELSE j + 1
      BY <3>1, <2>2, <1>7 DEF NoTwice
    <3> QED BY <3>2, <1>1, <1>2
  <2> QED BY <2>1, <2>2
<1> QED BY <1>4, <1>5, <1>6, <1>7 DEF r
=============================================================================
