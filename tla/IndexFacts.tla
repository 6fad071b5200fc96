------------------------------ MODULE IndexFacts ------------------------------
(* Facts about sets of indexes that the proofs of several components use. *)
EXTENDS Integers, FiniteSets, FiniteSetTheorems, WellFoundedInduction, TLAPS

\* Every non-empty set of natural numbers has a least one.  Where a proof needs
\* induction over the naturals, it takes the least counterexample.
LEMMA LeastNat ==
  ASSUME NEW T \in SUBSET Nat, T # {}
  PROVE  \E x \in T : \A y \in T : x <= y
  <1> DEFINE R == OpToRel(<, Nat)
  <1>1. \E x \in T : \A y \in T : ~(<<y, x>> \in R)
    BY NatLessThanWellFounded, WFMin
  <1>2. PICK x \in T : \A y \in T : ~(<<y, x>> \in R)
    BY <1>1
  <1>3. \A y \in T : ~(y < x)
    BY <1>2 DEF OpToRel
  <1> QED  BY <1>3

\* A non-empty set of indexes has a last one.
LEMMA LastIndex ==
  ASSUME NEW n \in Nat, NEW S \in SUBSET (0..n), S # {}
  PROVE  \E k \in S : \A j \in S : j <= k
  <1> DEFINE T == {m \in Nat : \A j \in S : j <= m}
  <1>1. n \in T  OBVIOUS
  <1>2. PICK m \in T : \A y \in T : m <= y
    BY <1>1, LeastNat
  <1>3. m \in S
    <2>1. SUFFICES ASSUME m \notin S PROVE FALSE  OBVIOUS
    <2>2. \A j \in S : j \in Int /\ 0 <= j /\ j <= m /\ j # m
      BY <2>1
    <2>3. m - 1 \in Nat /\ \A j \in S : j <= m - 1
      <3>0. PICK j \in S : TRUE  OBVIOUS
      <3>1. m \in Nat /\ j \in Int /\ 0 <= j /\ j <= m /\ j # m
        BY <2>2
      <3>2. \A i \in Int : i <= m /\ i # m => i <= m - 1  BY <3>1
      <3>3. \A i \in S : i <= m - 1
        <4> HIDE DEF T
        <4> QED  BY <2>2, <3>2
      <3> QED  BY <3>1, <3>3
    <2>4. m - 1 \in T  BY <2>3
    <2> QED  BY <2>4, <1>2
  <1> QED  BY <1>3

LEMMA IntervalSize ==
  ASSUME NEW a \in Nat, NEW b \in Nat, a <= b
  PROVE  /\ IsFiniteSet(a + 1 .. b)
         /\ Cardinality(a + 1 .. b) = b - a
  <1>1. ASSUME NEW i \in Int
        PROVE  /\ IsFiniteSet(i..b)
               /\ Cardinality(i..b) = IF i > b THEN 0 ELSE b - i + 1
    BY FS_Interval
  <1>2. a + 1 \in Int  OBVIOUS
  <1>3. /\ IsFiniteSet(a + 1 .. b)
        /\ Cardinality(a + 1 .. b) = IF a + 1 > b THEN 0 ELSE b - (a + 1) + 1
    BY <1>1, <1>2
  <1> QED  BY <1>3

=============================================================================
