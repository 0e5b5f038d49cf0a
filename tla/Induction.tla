----------------------------- MODULE Induction ------------------------------
(***************************************************************************)
(* Induction as a fact about sets of naturals.  The induction theorems of  *)
(* the library take the predicate to prove as an operator, and no prover   *)
(* used here can give them one.  A predicate P over the naturals is then   *)
(* proved of the set {n \in Nat : P(n)} instead.                           *)
(***************************************************************************)
EXTENDS Integers, FiniteSets, FiniteSetTheorems, WellFoundedInduction, TLAPS

LEMMA LeastExists ==
  ASSUME NEW S \in SUBSET Nat, S # {}
  PROVE  \E n \in S : \A m \in S : n <= m
PROOF
<1>1. \E n \in S : \A m \in S : <<m, n>> \notin OpToRel(<, Nat)
  BY NatLessThanWellFounded, WFMin
<1>2. PICK n \in S : \A m \in S : <<m, n>> \notin OpToRel(<, Nat)
  BY <1>1
<1>3. \A m \in S : ~(m < n)
  BY <1>2 DEF OpToRel
<1> QED BY <1>3

LEMMA LargestExists ==
  ASSUME NEW bound \in Nat, NEW S \in SUBSET Nat, S # {},
         \A m \in S : m <= bound
  PROVE  \E n \in S : \A m \in S : m <= n
PROOF
<1> DEFINE T == {k \in Nat : bound - k \in S}
<1>1. T \in SUBSET Nat /\ T # {}
  <2>1. PICK m \in S : TRUE
    OBVIOUS
  <2>2. bound - m \in Nat /\ bound - (bound - m) = m
    BY <2>1
  <2> QED BY <2>2
<1>2. \A m \in S : bound - m \in T
  OBVIOUS
<1>3. \A k \in T : bound - k \in S
  OBVIOUS
<1> HIDE DEF T
<1>4. PICK k \in T : \A j \in T : k <= j
  BY <1>1, LeastExists
<1>5. bound - k \in S /\ \A m \in S : m <= bound - k
  BY <1>1, <1>2, <1>3, <1>4
<1> QED BY <1>5

LEMMA SetInduction ==
  ASSUME NEW S, 0 \in S, \A n \in Nat : n \in S => n + 1 \in S
  PROVE  Nat \subseteq S
PROOF
<1> DEFINE T == Nat \ S
<1> SUFFICES ASSUME T # {} PROVE FALSE
  OBVIOUS
<1>1. T \in SUBSET Nat /\ 0 \notin T
  OBVIOUS
<1>2. \A n \in Nat : n + 1 \in T => n \in T
  OBVIOUS
<1> HIDE DEF T
<1>3. PICK n \in T : \A m \in T : n <= m
  BY <1>1, LeastExists
<1>4. n # 0 /\ n - 1 \in Nat /\ (n - 1) + 1 = n
  BY <1>1
<1>5. n - 1 \in T
  BY <1>2, <1>4
<1> QED BY <1>1, <1>3, <1>5

(* What holds of the empty set, and of a set if it holds of that set       *)
(* without any one of its elements, holds of every finite set.             *)
LEMMA FiniteInduction ==
  ASSUME NEW S, IsFiniteSet(S), NEW F, {} \in F,
         \A s \in SUBSET S : s # {} /\ (\A x \in s : s \ {x} \in F) => s \in F
  PROVE  SUBSET S \subseteq F
PROOF
<1> DEFINE N == {n \in Nat : \A s \in SUBSET S : Cardinality(s) <= n => s \in F}
<1>0. \A s \in SUBSET S : /\ IsFiniteSet(s) /\ Cardinality(s) \in Nat
                          /\ Cardinality(s) <= Cardinality(S)
                          /\ Cardinality(s) = 0 => s = {}
  BY FS_Subset, FS_CardinalityType, FS_EmptySet
<1>1. \A s \in SUBSET S : Cardinality(s) <= 0 => s \in F
  <2> SUFFICES ASSUME NEW s \in SUBSET S, Cardinality(s) <= 0 PROVE s = {}
    OBVIOUS
  <2> QED BY <1>0
<1>2. ASSUME NEW n \in Nat, n \in N PROVE n + 1 \in N
  <2> SUFFICES ASSUME NEW s \in SUBSET S, Cardinality(s) <= n + 1
               PROVE  s \in F
    OBVIOUS
  <2>0. CASE s = {}
    BY <2>0
  <2> SUFFICES ASSUME s # {} PROVE s \in F
    BY <2>0
  <2>1. ASSUME NEW x \in s PROVE s \ {x} \in F
    <3>1. IsFiniteSet(s) /\ Cardinality(s) \in Nat
      BY <1>0
    <3>2. Cardinality(s \ {x}) = Cardinality(s) - 1
      BY <3>1, FS_RemoveElement
    <3>3. s \ {x} \in SUBSET S /\ Cardinality(s \ {x}) <= n
      BY <3>1, <3>2
    <3> QED BY <1>2, <3>3
  <2> QED BY <2>1
<1>3. 0 \in N
  BY <1>1
<1> HIDE DEF N
<1>4. Cardinality(S) \in N
  BY <1>0, <1>2, <1>3, SetInduction
<1> QED BY <1>0, <1>4 DEF N
=============================================================================
