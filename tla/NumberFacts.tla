----------------------------- MODULE NumberFacts -----------------------------
(***************************************************************************)
(* Facts about numbers and sets the proofs share.  The induction theorems  *)
(* of the library take a predicate as a parameter; the ones here are about *)
(* sets of numbers, and serve for arguments by a least counterexample.     *)
(***************************************************************************)
EXTENDS Integers, FiniteSets, FiniteSetTheorems, WellFoundedInduction, TLAPS

\* A set of natural numbers that is not empty has a least element.
LEMMA LeastNat ==
  ASSUME NEW T, T \subseteq Nat, T # {}
  PROVE  \E n \in T : \A m \in T : n =< m
<1>1. PICK n \in T : \A m \in T : <<m, n>> \notin OpToRel(<, Nat)
  BY NatLessThanWellFounded, WFMin
<1>2. \A m \in T : ~(m < n)
  BY <1>1 DEF OpToRel
<1>3. \A m \in T : m \in Nat /\ n \in Nat
  OBVIOUS
<1>4. \A m \in T : n =< m
  BY <1>2, <1>3
<1> QED
  BY <1>4

\* What holds of 0 and, with a number, of the next one holds of all numbers.
LEMMA EveryNat ==
  ASSUME NEW T, 0 \in T, \A n \in Nat : n \in T => n + 1 \in T
  PROVE  Nat \subseteq T
<1> SUFFICES ASSUME Nat \ T # {} PROVE FALSE
  OBVIOUS
<1>1. PICK n \in Nat \ T : \A m \in Nat \ T : n =< m
  BY LeastNat
<1>2. n - 1 \in Nat /\ n - 1 \in T
  BY <1>1
<1>3. n \in T
  BY <1>2
<1> QED
  BY <1>3

\* Numbers with a bound have a greatest among them.
LEMMA GreatestNat ==
  ASSUME NEW T, T \subseteq Nat, T # {}, NEW b \in Nat, \A n \in T : n =< b
  PROVE  \E n \in T : \A m \in T : m =< n
<1> DEFINE D == {b - n : n \in T}
<1>0. \A n \in T : n \in Nat /\ b - n \in Nat
  OBVIOUS
<1>1. D \subseteq Nat /\ D # {}
  <2>1. PICK n \in T : TRUE
    OBVIOUS
  <2> QED
    BY <1>0, <2>1
<1>2. PICK d \in D : \A e \in D : d =< e
  BY <1>1, LeastNat
<1>3. PICK n \in T : d = b - n
  OBVIOUS
<1>4. \A m \in T : b - n =< b - m
  BY <1>2, <1>3
<1>5. \A m \in T : m =< n
  BY <1>0, <1>3, <1>4
<1> QED
  BY <1>5
=============================================================================
