------------------------------- MODULE Extrema -------------------------------
(***************************************************************************)
(* Least and greatest numbers of a set, for the proofs about searches that *)
(* take the first of several and about bounds.                             *)
(***************************************************************************)
EXTENDS Integers, FiniteSetTheorems, WellFoundedInduction, TLAPS

(* A set of natural numbers has a least element: the intervals up to its   *)
(* elements are finite sets, which strict inclusion orders well.           *)
LEMMA LeastExists ==
  ASSUME NEW T, T \subseteq Nat, T # {}
  PROVE  \E n \in T : \A m \in T : n <= m
<1> DEFINE UpTo == {0..n : n \in T}
           R == StrictSubsetOrdering(Nat)
<1>1. UpTo \subseteq FiniteSubsetsOf(Nat) /\ UpTo # {}
  <2>1. \A n \in T : IsFiniteSet(0..n) /\ 0..n \subseteq Nat
    BY FS_Interval
  <2> QED
    BY <2>1 DEF FiniteSubsetsOf
<1>2. IsWellFoundedOn(R, FiniteSubsetsOf(Nat))
  BY FS_StrictSubsetOrderingWellFounded
<1>3. PICK S \in UpTo : \A U \in UpTo : ~(<<U, S>> \in R)
  <2> HIDE DEF UpTo, R
  <2> QED
    BY <1>1, <1>2, WFMin
<1>4. PICK n \in T : S = 0..n
  OBVIOUS
<1>5. \A m \in T : n <= m
  <2> SUFFICES ASSUME NEW m \in T, m < n PROVE FALSE
    OBVIOUS
  <2>1. 0..m \subseteq 0..n /\ 0..m # 0..n
    <3>1. n \in 0..n /\ n \notin 0..m
      OBVIOUS
    <3> QED
      BY <3>1
  <2>2. 0..m \subseteq Nat /\ 0..n \subseteq Nat
    OBVIOUS
  <2>3. <<0..m, 0..n>> \in R
    BY <2>1, <2>2 DEF StrictSubsetOrdering
  <2> QED
    BY <1>3, <1>4, <2>3
<1> QED
  BY <1>4, <1>5

(* A finite set of numbers has a greatest element: the sets of what is     *)
(* above its elements are finite too.                                      *)
LEMMA GreatestExists ==
  ASSUME NEW T, T \subseteq Int, IsFiniteSet(T), T # {}
  PROVE  \E n \in T : \A m \in T : m <= n
<1> DEFINE Above == {{m \in T : m > n} : n \in T}
           R == StrictSubsetOrdering(T)
<1>1. Above \subseteq FiniteSubsetsOf(T) /\ Above # {}
  <2>1. \A n \in T : {m \in T : m > n} \subseteq T
    OBVIOUS
  <2>2. \A U \in SUBSET T : IsFiniteSet(U)
    BY FS_Subset
  <2> QED
    BY <2>1, <2>2 DEF FiniteSubsetsOf
<1>2. IsWellFoundedOn(R, FiniteSubsetsOf(T))
  BY FS_StrictSubsetOrderingWellFounded
<1>3. PICK S \in Above : \A U \in Above : ~(<<U, S>> \in R)
  <2> HIDE DEF Above, R
  <2> QED
    BY <1>1, <1>2, WFMin
<1>4. PICK n \in T : S = {m \in T : m > n}
  OBVIOUS
<1>5. \A m \in T : m <= n
  <2> SUFFICES ASSUME NEW m \in T, m > n PROVE FALSE
    OBVIOUS
  <2> DEFINE U == {k \in T : k > m}
  <2>1. U \subseteq S /\ m \in S /\ m \notin U
    <3>1. n \in Int /\ m \in Int /\ \A k \in T : k \in Int
      OBVIOUS
    <3>2. m \in S /\ ~(m > m)
      BY <1>4, <3>1
    <3>3. ASSUME NEW k \in T, k > m PROVE k > n
      BY <3>1, <3>3
    <3> QED
      BY <1>4, <3>2, <3>3
  <2>2. U \in SUBSET T /\ S \in SUBSET T /\ U # S
    BY <1>4, <2>1
  <2>3. <<U, S>> \in R
    BY <2>1, <2>2 DEF StrictSubsetOrdering
  <2> QED
    BY <1>3, <2>3
<1> QED
  BY <1>5
=============================================================================
