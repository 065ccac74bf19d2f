--------------------------- MODULE Extremes_proofs ---------------------------
(***************************************************************************)
(* A finite set of numbers has a greatest and a least member: what the     *)
(* CHOOSEs of the priority encoders, of the longest prefix and of the      *)
(* lowest and the highest address rest on.                                 *)
(***************************************************************************)
EXTENDS Integers, FiniteSetTheorems, TLAPS

\* A finite set of numbers has a greatest member.
LEMMA GreatestExists ==
  ASSUME NEW S \in SUBSET Int, IsFiniteSet(S), S # {}
  PROVE \E i \in S : \A j \in S : j <= i
<1> DEFINE Above(i) == {j \in S : j > i}
           T == {Above(i) : i \in S}
<1>0. S \subseteq Int
  OBVIOUS
<1>1. IsFiniteSet(S)
  OBVIOUS
<1>2. T \subseteq FiniteSubsetsOf(S) /\ T # {}
  <2>1. T # {}
    OBVIOUS
  <2>2. ASSUME NEW i \in S PROVE Above(i) \in SUBSET S
    OBVIOUS
  <2>3. \A U \in SUBSET S : IsFiniteSet(U)
    BY <1>1, FS_Subset
  <2> QED BY <2>1, <2>2, <2>3, Zenon DEF FiniteSubsetsOf
<1>3. PICK x \in T : \A y \in T : ~ (<<y, x>> \in StrictSubsetOrdering(S))
  <2> HIDE DEF T
  <2> QED BY <1>1, <1>2, FS_StrictSubsetOrderingWellFounded, WFMin
<1>4. PICK i \in S : x = Above(i)
  OBVIOUS
<1>5. ASSUME NEW j \in S, j > i PROVE FALSE
  <2>1. Above(j) \in T
    OBVIOUS
  <2>2. ASSUME NEW k \in S, k > j PROVE k > i
    BY <1>5, <1>0, <2>2
  <2>3. j \in Above(i) /\ j \notin Above(j)
    BY <1>5, <1>0
  <2>4. <<Above(j), Above(i)>> \in StrictSubsetOrdering(S)
    BY <2>2, <2>3, Zenon DEF StrictSubsetOrdering
  <2> QED BY <1>3, <1>4, <2>1, <2>4
<1> QED BY <1>5, <1>0

\* So has a set of slot numbers.
LEMMA MaxExists ==
  ASSUME NEW n \in Nat, NEW S \in SUBSET (1..n), S # {}
  PROVE \E i \in S : \A j \in S : j <= i
<1>1. IsFiniteSet(S)
  <2>1. IsFiniteSet(1..n)
    BY FS_Interval
  <2> QED BY <2>1, FS_Subset
<1> QED BY <1>1, GreatestExists

\* And a least one.
LEMMA MinExists ==
  ASSUME NEW n \in Nat, NEW S \in SUBSET (1..n), S # {}
  PROVE \E i \in S : \A j \in S : i <= j
<1> DEFINE T == {k \in 1..n : n + 1 - k \in S}
<1>1. \A j \in S : j \in 1..n /\ n + 1 - j \in T
  OBVIOUS
<1>2. T \in SUBSET (1..n) /\ T # {}
  BY <1>1
<1>3. PICK k \in T : \A j \in T : j <= k
  <2> HIDE DEF T
  <2> QED BY <1>2, MaxExists
<1>4. n + 1 - k \in S /\ k \in 1..n
  OBVIOUS
<1>5. ASSUME NEW j \in S PROVE n + 1 - k <= j
  <2>1. n + 1 - j <= k /\ j \in 1..n
    BY <1>1, <1>3
  <2> QED BY <2>1, <1>4
<1> QED BY <1>4, <1>5

\* A set of natural numbers has a least member, finite or not.
LEMMA LeastExists ==
  ASSUME NEW S \in SUBSET Nat, S # {}
  PROVE \E i \in S : \A j \in S : i <= j
<1> PICK m \in S : TRUE
  OBVIOUS
<1> DEFINE T == {k \in 1..(m + 1) : k - 1 \in S}
<1>1. T \in SUBSET (1..(m + 1)) /\ m + 1 \in T /\ m + 1 \in Nat
  OBVIOUS
<1>2. PICK k \in T : \A j \in T : k <= j
  <2> HIDE DEF T
  <2> QED BY <1>1, MinExists
<1>3. k - 1 \in S /\ k \in 1..(m + 1)
  OBVIOUS
<1>4. ASSUME NEW j \in S PROVE k - 1 <= j
  <2>1. CASE j <= m
    <3>1. j + 1 \in T
      BY <2>1
    <3> QED BY <1>2, <1>3, <3>1
  <2>2. CASE ~(j <= m)
    BY <1>3, <2>2
  <2> QED BY <2>1, <2>2
<1> QED BY <1>3, <1>4
=============================================================================
