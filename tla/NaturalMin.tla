----------------------------- MODULE NaturalMin -----------------------------
(***************************************************************************)
(* A list in the order of its numbers has a first entry, and a search of   *)
(* rows a first row: the fact about naturals that both kinds of proof use. *)
(***************************************************************************)
EXTENDS Naturals, FiniteSetTheorems, WellFoundedInduction, TLAPS

\* A set of naturals that is not empty has a least element: the first row of
\* trq_load()'s search, the dl_first() of a list numbered by dl_add().
LEMMA MinExists ==
  ASSUME NEW T \in SUBSET Nat, T # {}
  PROVE  \E m \in T : \A x \in T : m <= x
<1> DEFINE F == {0..k : k \in T}
<1>1. F \subseteq FiniteSubsetsOf(Nat)
  <2>1. \A k \in T : 0..k \in SUBSET Nat
    OBVIOUS
  <2>2. \A k \in T : IsFiniteSet(0..k)
    BY FS_Interval
  <2> QED BY <2>1, <2>2 DEF FiniteSubsetsOf
<1>2. F # {}
  OBVIOUS
<1>3. IsWellFoundedOn(StrictSubsetOrdering(Nat), FiniteSubsetsOf(Nat))
  BY FS_StrictSubsetOrderingWellFounded
<1>4. PICK X \in F : \A Y \in F : ~ (<<Y, X>> \in StrictSubsetOrdering(Nat))
  BY <1>1, <1>2, <1>3, WFMin
<1>5. PICK m \in T : X = 0..m
  BY <1>4
<1>6. ASSUME NEW x \in T, x < m PROVE FALSE
  <2>1. 0..x \in F
    OBVIOUS
  <2>2. 0..x \subseteq 0..m /\ 0..x # 0..m
    <3>1. m \in 0..m /\ m \notin 0..x
      BY <1>6
    <3> QED BY <1>6, <3>1
  <2>3. 0..x \in SUBSET Nat /\ 0..m \in SUBSET Nat
    OBVIOUS
  <2> QED
    BY <1>4, <1>5, <2>1, <2>2, <2>3 DEF StrictSubsetOrdering
<1> QED
  BY <1>6
=============================================================================
