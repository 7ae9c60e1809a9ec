------------------------------ MODULE LeastNumber ------------------------------
(* Least and greatest elements of sets of naturals, for choices of a first or newest one. *)
EXTENDS Naturals, WellFoundedInduction, TLAPS

LessThan == { pair \in Nat \X Nat : pair[1] < pair[2] }

\* Every nonempty set of natural numbers has a least element.
LEMMA LeastExists ==
  ASSUME NEW S, S \subseteq Nat, S # {}
  PROVE  \E m \in S : \A n \in S : m <= n
<1>1. IsWellFoundedOn(LessThan, Nat)
  BY NatLessThanWellFounded DEF OpToRel, LessThan
<1>2. PICK m \in S : \A n \in S : <<n, m>> \notin LessThan
  BY <1>1, WFMin
<1>3. ASSUME NEW n \in S PROVE m <= n
  <2>1. ~(n < m)
    BY <1>2 DEF LessThan
  <2> QED
    BY <2>1
<1> QED
  BY <1>3

\* Every nonempty set of natural numbers with an upper bound has a greatest element.
LEMMA GreatestExists ==
  ASSUME NEW bound \in Nat, NEW S, S \subseteq 0..bound, S # {}
  PROVE  \E m \in S : \A n \in S : n <= m
<1> DEFINE Gaps == { bound - n : n \in S }
<1>1. Gaps \subseteq Nat /\ Gaps # {}
  <2>1. \A n \in S : n \in Nat /\ n <= bound
    OBVIOUS
  <2>2. \A n \in S : bound - n \in Nat
    BY <2>1
  <2> QED
    BY <2>2
<1>2. PICK gap \in Gaps : \A other \in Gaps : gap <= other
  BY <1>1, LeastExists
<1>3. PICK m \in S : gap = bound - m
  OBVIOUS
<1>4. ASSUME NEW n \in S PROVE n <= m
  <2>1. bound - n \in Gaps
    OBVIOUS
  <2> QED
    BY <1>2, <1>3, <2>1
<1> QED
  BY <1>4
===============================================================================
