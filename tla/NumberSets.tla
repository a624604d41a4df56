----------------------------- MODULE NumberSets -----------------------------
(***************************************************************************)
(* Least members of sets of natural numbers, from the fact that strict     *)
(* inclusion is well founded on finite sets.                               *)
(***************************************************************************)
EXTENDS Integers, FiniteSets, FiniteSetTheorems, WellFoundedInduction, TLAPS

\* Of any finite sets of numbers with some property one is smallest.
LEMMA SmallestSet ==
  ASSUME NEW Family, Family \subseteq FiniteSubsetsOf(Nat), Family # {}
  PROVE  \E T \in Family : \A U \in Family : ~(U \subseteq T /\ U # T)
  <1>1. IsWellFoundedOn(StrictSubsetOrdering(Nat), FiniteSubsetsOf(Nat))
    BY FS_StrictSubsetOrderingWellFounded
  <1>2. PICK T \in Family : \A U \in Family : ~(<<U, T>> \in StrictSubsetOrdering(Nat))
    BY <1>1, WFMin
  <1>3. \A U \in Family : U \in SUBSET Nat
    BY DEF FiniteSubsetsOf
  <1> QED
    BY <1>2, <1>3 DEF StrictSubsetOrdering

\* A nonempty set of natural numbers has a least member.
LEMMA LeastMember ==
  ASSUME NEW S \in SUBSET Nat, S # {}
  PROVE  \E m \in S : \A k \in S : m <= k
  <1> DEFINE Below == {0..k : k \in S}
  <1>1. Below \subseteq FiniteSubsetsOf(Nat) /\ Below # {}
    <2>1. ASSUME NEW k \in S PROVE 0..k \in FiniteSubsetsOf(Nat)
      BY FS_Interval DEF FiniteSubsetsOf
    <2> QED
      BY <2>1
  <1>2. PICK least \in Below : \A other \in Below : ~(other \subseteq least /\ other # least)
    <2> HIDE DEF Below
    <2> QED
      BY <1>1, SmallestSet
  <1>3. PICK m \in S : least = 0..m
    OBVIOUS
  <1>4. ASSUME NEW k \in S PROVE m <= k
    <2> SUFFICES ASSUME k < m PROVE FALSE
      OBVIOUS
    <2>1. 0..k \subseteq 0..m /\ 0..k # 0..m
      OBVIOUS
    <2> QED
      BY <1>2, <1>3, <2>1
  <1> QED
    BY <1>4

=============================================================================
