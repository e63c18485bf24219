------------------------------ MODULE Induction ------------------------------
(***************************************************************************)
(* Induction for the proofs of the other modules, stated about sets rather *)
(* than about predicates: a nonempty set of natural numbers has a smallest *)
(* element, and a finite one has a largest.  They follow from the          *)
(* library's theorem that strict inclusion is well founded on finite sets. *)
(***************************************************************************)
EXTENDS Naturals, FiniteSets, FiniteSetTheorems, TLAPS

(* A nonempty set of natural numbers has a smallest element: the interval
   below it is minimal among the intervals below the elements of the set. *)
LEMMA SmallestElement ==
  ASSUME NEW T \in SUBSET Nat, T # {}
  PROVE  \E m \in T : \A k \in T : m <= k
<1> DEFINE Below(n) == 0..n
           U == {Below(n) : n \in T}
<1>1. U # {}
  OBVIOUS
<1>2. U \subseteq FiniteSubsetsOf(Nat)
  <2> SUFFICES ASSUME NEW n \in T PROVE Below(n) \in FiniteSubsetsOf(Nat)
    OBVIOUS
  <2>1. n \in Nat
    OBVIOUS
  <2>2. IsFiniteSet(0..n) /\ 0..n \in SUBSET Nat
    BY <2>1, FS_Interval
  <2> QED BY <2>2 DEF FiniteSubsetsOf
<1>3. IsWellFoundedOn(StrictSubsetOrdering(Nat), FiniteSubsetsOf(Nat))
  BY FS_StrictSubsetOrderingWellFounded
<1>4. PICK X \in U : \A Y \in U : ~(<<Y, X>> \in StrictSubsetOrdering(Nat))
  BY <1>1, <1>2, <1>3, WFMin
<1>5. PICK m \in T : X = 0..m
  BY <1>4
<1> SUFFICES ASSUME NEW k \in T, k < m PROVE FALSE
  BY <1>5
<1>6. <<0..k, 0..m>> \in StrictSubsetOrdering(Nat)
  BY DEF StrictSubsetOrdering
<1>7. 0..k \in U
  OBVIOUS
<1> QED BY <1>4, <1>5, <1>6, <1>7

(* A nonempty finite set of natural numbers has a largest element: the set of
   the elements above it is minimal. *)
LEMMA LargestElement ==
  ASSUME NEW T \in SUBSET Nat, T # {}, IsFiniteSet(T)
  PROVE  \E m \in T : \A k \in T : k <= m
<1> DEFINE Above(n) == {k \in T : k > n}
           U == {Above(n) : n \in T}
<1>1. U # {}
  OBVIOUS
<1>2. U \subseteq FiniteSubsetsOf(T)
  <2> SUFFICES ASSUME NEW n \in T PROVE Above(n) \in FiniteSubsetsOf(T)
    OBVIOUS
  <2>1. IsFiniteSet(Above(n)) /\ Above(n) \in SUBSET T
    BY FS_Subset
  <2> QED BY <2>1 DEF FiniteSubsetsOf
<1>3. IsWellFoundedOn(StrictSubsetOrdering(T), FiniteSubsetsOf(T))
  BY FS_StrictSubsetOrderingWellFounded
<1>4. PICK X \in U : \A Y \in U : ~(<<Y, X>> \in StrictSubsetOrdering(T))
  BY <1>1, <1>2, <1>3, WFMin
<1>5. PICK m \in T : X = Above(m)
  BY <1>4
<1>0. \A n \in T : n \in Nat
  OBVIOUS
<1> SUFFICES ASSUME NEW k \in T, ~(k <= m) PROVE FALSE
  OBVIOUS
<1>6. <<Above(k), Above(m)>> \in StrictSubsetOrdering(T)
  <2>1. Above(k) \subseteq Above(m)
    <3> SUFFICES ASSUME NEW n \in T, n > k PROVE n > m
      OBVIOUS
    <3>1. n \in Nat /\ k \in Nat /\ m \in Nat
      BY <1>0
    <3> QED BY <3>1
  <2>2. k \in Above(m) /\ k \notin Above(k)
    OBVIOUS
  <2>3. Above(k) \in SUBSET T /\ Above(m) \in SUBSET T
    OBVIOUS
  <2> QED BY <2>1, <2>2, <2>3 DEF StrictSubsetOrdering
<1>7. Above(k) \in U
  OBVIOUS
<1> QED BY <1>4, <1>5, <1>6, <1>7

=============================================================================
