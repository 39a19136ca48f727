----------------------------- MODULE CountLemmas -----------------------------
(* Counting positions one after the other, and least and greatest numbers.  *)
EXTENDS Integers, FiniteSets, FiniteSetTheorems, TLAPS

LEMMA CountNone == Cardinality({}) = 0
  BY FS_EmptySet

LEMMA CountFinite ==
    ASSUME NEW n \in Nat, NEW S, S \subseteq 1 .. n
    PROVE  IsFiniteSet(S) /\ Cardinality(S) \in Nat
<1>1. IsFiniteSet(1 .. n)
  BY FS_Interval
<1>2. IsFiniteSet(S)
  BY <1>1, FS_Subset
<1> QED
  BY <1>2, FS_CardinalityType

(* The next position is one more. *)
LEMMA CountNext ==
    ASSUME NEW n \in Nat, NEW S, S \subseteq 1 .. n
    PROVE  Cardinality(S \cup {n + 1}) = Cardinality(S) + 1
<1>1. IsFiniteSet(S)
  BY CountFinite
<1>2. n + 1 \notin S
  OBVIOUS
<1> QED
  BY <1>1, <1>2, FS_AddElement

-------------------------------------------------------------------------------
(* A set of numbers that is not empty has a least element, for the least   *)
(* of the intervals from 0 to them is an interval from 0 to one of them.   *)
LEMMA LeastElement ==
    ASSUME NEW S \in SUBSET Nat, S # {}
    PROVE  \E x \in S : \A y \in S : x <= y
<1> DEFINE T == {0 .. x : x \in S}
           Order == StrictSubsetOrdering(Nat)
<1>1. T \in SUBSET FiniteSubsetsOf(Nat) /\ T # {}
  <2>1. \A x \in S : x \in Nat /\ 0 .. x \in SUBSET Nat /\ IsFiniteSet(0 .. x)
    BY FS_Interval
  <2> QED
    BY <2>1 DEF FiniteSubsetsOf
<1>2. IsWellFoundedOn(Order, FiniteSubsetsOf(Nat))
  BY FS_StrictSubsetOrderingWellFounded
<1>3. PICK t \in T : \A u \in T : ~ (<<u, t>> \in Order)
  <2> HIDE DEF T, Order
  <2> QED
    BY <1>1, <1>2, WFMin, Zenon
<1>4. PICK x \in S : t = 0 .. x
  OBVIOUS
<1>5. SUFFICES ASSUME NEW y \in S, y < x
               PROVE  FALSE
  OBVIOUS
<1>6. 0 .. y \in T /\ ~ (<<0 .. y, 0 .. x>> \in Order)
  BY <1>3, <1>4
<1>7. 0 .. y \in SUBSET Nat /\ 0 .. x \in SUBSET Nat /\ 0 .. y \subseteq 0 .. x
  BY <1>5
<1>8. x \in 0 .. x /\ x \notin 0 .. y
  BY <1>5
<1> QED
  BY <1>6, <1>7, <1>8 DEF StrictSubsetOrdering

(* A bounded one has a greatest element.                                   *)
LEMMA GreatestElement ==
    ASSUME NEW n \in Int, NEW S \in SUBSET (0 .. n), S # {}
    PROVE  \E x \in S : \A y \in S : y <= x
<1> DEFINE T == {n - x : x \in S}
<1>1. \A x \in S : n - x \in Nat /\ x \in Int
  OBVIOUS
<1>2. T \in SUBSET Nat /\ T # {}
  BY <1>1
<1>3. PICK t \in T : \A y \in T : t <= y
  <2> HIDE DEF T
  <2> QED
    BY <1>2, LeastElement
<1>4. PICK x \in S : t = n - x
  OBVIOUS
<1>5. \A y \in S : n - x <= n - y
  BY <1>3, <1>4
<1> QED
  BY <1>1, <1>5

(* What is chosen as the least element is it.                              *)
LEMMA LeastChosen ==
    ASSUME NEW S, S \subseteq Int, NEW m \in S, \A y \in S : m <= y
    PROVE  (CHOOSE x \in S : \A y \in S : x <= y) = m
<1> DEFINE least == CHOOSE x \in S : \A y \in S : x <= y
<1>1. \E x \in S : \A y \in S : x <= y
  OBVIOUS
<1>2. least \in S /\ \A y \in S : least <= y
  BY <1>1, Zenon
<1> HIDE DEF least
<1>3. least <= m /\ m <= least /\ m \in Int /\ least \in Int
  BY <1>2
<1>4. least = m
  BY <1>3
<1> QED
  BY <1>4, Zenon DEF least

LEMMA GreatestChosen ==
    ASSUME NEW S, S \subseteq Int, NEW m \in S, \A y \in S : m >= y
    PROVE  (CHOOSE x \in S : \A y \in S : x >= y) = m
<1> DEFINE greatest == CHOOSE x \in S : \A y \in S : x >= y
<1>1. \E x \in S : \A y \in S : x >= y
  OBVIOUS
<1>2. greatest \in S /\ \A y \in S : greatest >= y
  BY <1>1, Zenon
<1> HIDE DEF greatest
<1>3. greatest <= m /\ m <= greatest /\ m \in Int /\ greatest \in Int
  BY <1>2
<1>4. greatest = m
  BY <1>3
<1> QED
  BY <1>4, Zenon DEF greatest

(* Induction over numbers, for a set of them. *)
LEMMA FromZero ==
    ASSUME NEW S \in SUBSET Nat, 0 \in S, \A n \in S : n + 1 \in S
    PROVE  S = Nat
<1> SUFFICES ASSUME Nat \ S # {} PROVE FALSE
  OBVIOUS
<1>1. PICK x \in Nat \ S : \A y \in Nat \ S : x <= y
  BY LeastElement
<1>2. x - 1 \in S /\ (x - 1) + 1 = x
  BY <1>1
<1> QED
  BY <1>1, <1>2

===============================================================================
