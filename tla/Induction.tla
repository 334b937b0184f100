------------------------------ MODULE Induction ------------------------------
(***************************************************************************)
(* Induction without operator parameters, for the proofs about paths.  The *)
(* induction theorems of the library take the predicate as an operator,    *)
(* which the provers cannot instantiate; that strict inclusion of finite   *)
(* sets is well founded needs none, and intervals inherit it.              *)
(***************************************************************************)
EXTENDS Integers, Sequences, FiniteSets, FiniteSetTheorems, WellFoundedInduction,
        SequenceTheorems, TLAPS

\* Of finite sets one includes no other strictly.
LEMMA MinimalSet ==
    ASSUME NEW S, NEW F, F \subseteq FiniteSubsetsOf(S), F # {}
    PROVE  \E X \in F : \A Y \in F : <<Y, X>> \notin StrictSubsetOrdering(S)
<1> DEFINE R == StrictSubsetOrdering(S)
           D == FiniteSubsetsOf(S)
<1>1. IsWellFoundedOn(R, D)
  BY FS_StrictSubsetOrderingWellFounded
<1>2. F \subseteq D
  OBVIOUS
<1> HIDE DEF R, D
<1>3. \E X \in F : \A Y \in F : ~ (<<Y, X>> \in R)
  BY <1>1, <1>2, WFMin
<1> QED
  BY <1>3 DEF R

\* A set of natural numbers has a least one.
LEMMA LeastNumber ==
    ASSUME NEW T, T \subseteq Nat, T # {}
    PROVE  \E n \in T : \A m \in T : n <= m
<1> DEFINE F == {0..n : n \in T}
<1>1. F \subseteq FiniteSubsetsOf(Nat)
  <2>1. ASSUME NEW n \in T PROVE IsFiniteSet(0..n) /\ 0..n \in SUBSET Nat
    <3>1. n \in Int /\ 0 \in Int
      OBVIOUS
    <3>2. IsFiniteSet(0..n)
      BY <3>1, FS_Interval
    <3> QED
      BY <3>2
  <2> QED
    BY <2>1 DEF FiniteSubsetsOf
<1>2. PICK X \in F : \A Y \in F : <<Y, X>> \notin StrictSubsetOrdering(Nat)
  <2>1. F # {}
    OBVIOUS
  <2> QED
    BY <1>1, <2>1, MinimalSet
<1>3. PICK n \in T : X = 0..n
  OBVIOUS
<1>4. ASSUME NEW m \in T, m < n PROVE FALSE
  <2>1. 0..m \in F
    OBVIOUS
  <2>2. 0..m \subseteq 0..n /\ 0..m # 0..n
    <3>1. n \in 0..n /\ n \notin 0..m
      BY <1>4
    <3> QED
      BY <1>4, <3>1
  <2>3. 0..m \in SUBSET Nat /\ 0..n \in SUBSET Nat
    OBVIOUS
  <2> HIDE DEF F
  <2> QED
    BY <1>2, <1>3, <2>1, <2>2, <2>3 DEF StrictSubsetOrdering
<1> QED
  BY <1>4

\* A set that has 0 and with every number below n the next one has all up to n.
LEMMA UpTo ==
    ASSUME NEW n \in Nat, NEW G,
           0 \in G, \A i \in 0..(n - 1) : i \in G => i + 1 \in G
    PROVE  0..n \subseteq G
<1> SUFFICES ASSUME (0..n) \ G # {} PROVE FALSE
  OBVIOUS
<1> DEFINE T == (0..n) \ G
<1>1. T \subseteq Nat /\ T # {}
  OBVIOUS
<1> HIDE DEF T
<1>2. PICK k \in T : \A m \in T : k <= m
  BY <1>1, LeastNumber
<1>3. k \in 0..n /\ k \notin G /\ k # 0
  BY DEF T
<1>4. k - 1 \in 0..(n - 1) /\ k - 1 \notin T
  BY <1>2, <1>3
<1>5. k - 1 \in G
  BY <1>4 DEF T
<1>6. (k - 1) + 1 \in G
  BY <1>4, <1>5
<1> QED
  BY <1>3, <1>6
=============================================================================
