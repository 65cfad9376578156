------------------------------ MODULE Induction ------------------------------
(***************************************************************************)
(* Induction over the natural numbers for a family of temporal formulas.   *)
(* A predicate is given to it as a function f on Nat with Boolean values.  *)
(* A module that has a family H(n) obtains f as the witness of             *)
(*   \E f : \A n \in Nat : f[n] <=> H(n)                                   *)
(* which the provers find once the function is Shown to them.              *)
(***************************************************************************)
EXTENDS Integers, WellFoundedInduction, TLAPS

\* A term shown to the provers; it means nothing.
Shown(f) == f

\* Every nonempty set of natural numbers has a least element.
LEMMA LeastNumber ==
  ASSUME NEW S, S \subseteq Nat, S # {}
  PROVE  \E m \in S : \A k \in S : m <= k
<1> DEFINE Less == {p \in Nat \X Nat : p[1] < p[2]}
<1>1. IsWellFoundedOn(Less, Nat)
  BY NatLessThanWellFounded DEF OpToRel
<1>2. PICK m \in S : \A k \in S : ~ <<k, m>> \in Less
  <2> HIDE DEF Less
  <2>1. QED
    BY <1>1, WFMin
<1>3. \A k \in S : m <= k
  <2> SUFFICES ASSUME NEW k \in S PROVE m <= k
    OBVIOUS
  <2>1. k \in Nat /\ m \in Nat /\ <<k, m>> \notin Less
    BY <1>2
  <2>2. <<k, m>>[1] = k /\ <<k, m>>[2] = m
    OBVIOUS
  <2>3. ~(k < m)
    BY <2>1, <2>2
  <2>4. QED
    BY <2>1, <2>3
<1>4. QED
  BY <1>3

\* What holds of 0 and passes from each number to the next holds of all.
LEMMA InductionRule ==
  ASSUME NEW f, f[0], \A n \in Nat : f[n] => f[n + 1]
  PROVE  \A n \in Nat : f[n]
<1> SUFFICES ASSUME NEW k \in Nat, ~f[k] PROVE FALSE
  OBVIOUS
<1> DEFINE T == {n \in Nat : ~f[n]}
<1>1. PICK n \in T : \A m \in T : n <= m
  <2>1. T \in SUBSET Nat /\ T # {}
    OBVIOUS
  <2>2. QED
    BY <2>1, LeastNumber
<1>2. n # 0 /\ n - 1 \in Nat /\ f[n - 1]
  BY <1>1
<1>3. QED
  BY <1>1, <1>2
=============================================================================
