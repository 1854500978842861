----------------------------- MODULE SetLemmas -----------------------------
(***************************************************************************)
(* Facts about finite sets that the proofs of several modules share: rows  *)
(* that come before a row, for the pages of IpBlacklist and of             *)
(* TransactionReads; induction, and the functions that folds are defined   *)
(* by, for the chart and the totals of AffiliateReports.                   *)
(*                                                                         *)
(* The induction theorems of the library have an operator for the          *)
(* predicate, which no prover here can instantiate; a set in its place     *)
(* can be.  The induction rests on a fact of the library about sets: some  *)
(* subset of a finite set is minimal among those that are not good.        *)
(***************************************************************************)
EXTENDS Integers, FiniteSets, FiniteSetsExt, FiniteSetTheorems, TLAPS

-----------------------------------------------------------------------------
(* Rows that come before a row, in a list with the newest ids first. *)

\* The rows of S that come before row i.
Before(S, i) == {j \in S : j > i}

\* Their number is a natural number, and no smaller in a larger list.
LEMMA BeforeGrows ==
  ASSUME NEW S, IsFiniteSet(S), NEW T \in SUBSET S, NEW i
  PROVE  /\ Cardinality(Before(T, i)) \in Nat
         /\ Cardinality(Before(T, i)) <= Cardinality(Before(S, i))
  <1>1. Before(S, i) \subseteq S /\ Before(T, i) \subseteq Before(S, i)
    BY DEF Before
  <1>2. IsFiniteSet(Before(S, i))
    BY <1>1, FS_Subset
  <1>3. /\ IsFiniteSet(Before(T, i))
        /\ Cardinality(Before(T, i)) <= Cardinality(Before(S, i))
    BY <1>1, <1>2, FS_Subset
  <1> QED BY <1>3, FS_CardinalityType

\* Fewer rows come before a row of a list than the list has.
LEMMA BeforeIsFewer ==
  ASSUME NEW S \in SUBSET Int, IsFiniteSet(S), NEW i \in S
  PROVE  Cardinality(Before(S, i)) < Cardinality(S)
  <1>1. Before(S, i) \in SUBSET S /\ i \notin Before(S, i)
    BY DEF Before
  <1>2. IsFiniteSet(Before(S, i)) /\ Cardinality(Before(S, i)) <= Cardinality(S)
    BY <1>1, FS_Subset
  <1>3. Cardinality(S) # Cardinality(Before(S, i))
    BY <1>1, FS_Subset
  <1>4. Cardinality(S) \in Nat /\ Cardinality(Before(S, i)) \in Nat
    BY <1>2, FS_CardinalityType
  <1> QED BY <1>2, <1>3, <1>4

\* A place in the list is on the first n + 1 pages of size s when it is on the
\* first n of them or on the next one.
LEMMA NextPagePlaces ==
  ASSUME NEW n \in Nat, NEW s \in Nat \ {0}
  PROVE  /\ n * s \in Nat
         /\ (n + 1) * s = n * s + s
         /\ n <= n * s
  OBVIOUS

-----------------------------------------------------------------------------
(* Induction. *)

\* Induction over the subsets of a finite set.
LEMMA SubsetInduction ==
  ASSUME NEW S, IsFiniteSet(S), NEW Good,
         \A s \in SUBSET S : (\A t \in SUBSET s : t # s => t \in Good) => s \in Good
  PROVE  SUBSET S \subseteq Good
  <1> DEFINE bad == (SUBSET S) \ Good
  <1>1. SUFFICES ASSUME bad # {} PROVE FALSE
    OBVIOUS
  <1>2. PICK s \in bad : \A t \in bad : <<t, s>> \notin StrictSubsetOrdering(S)
    <2> HIDE DEF bad
    <2>1. bad \subseteq FiniteSubsetsOf(S)
      BY FS_FiniteSubsetsOfFinite DEF bad
    <2>2. IsWellFoundedOn(StrictSubsetOrdering(S), FiniteSubsetsOf(S))
      BY FS_StrictSubsetOrderingWellFounded
    <2> QED BY <2>1, <2>2, <1>1, WFMin
  <1>3. \A t \in bad : ~(t \subseteq s /\ t # s)
    BY <1>2 DEF StrictSubsetOrdering
  <1> QED BY <1>3

\* Induction over the numbers up to n.
LEMMA CountingUp ==
  ASSUME NEW n \in Nat, NEW Good, 0 \in Good,
         \A k \in 0..(n - 1) : k \in Good => k + 1 \in Good
  PROVE  0..n \subseteq Good
  <1> DEFINE D == 1..n
             upTo(k) == {j \in 1..n : j <= k}
             good == {s \in SUBSET D : \A k \in 0..n : s = upTo(k) => k \in Good}
  <1>1. IsFiniteSet(D)
    BY FS_Interval
  <1>2. ASSUME NEW s \in SUBSET D, \A t \in SUBSET s : t # s => t \in good
        PROVE  s \in good
    <2>1. SUFFICES ASSUME NEW k \in 0..n, s = upTo(k) PROVE k \in Good
      OBVIOUS
    <2>2. CASE k = 0
      BY <2>2
    <2>3. CASE k # 0
      <3>1. k \in upTo(k) /\ k \notin upTo(k - 1) /\ upTo(k - 1) \subseteq upTo(k)
        BY <2>3
      <3>2. upTo(k - 1) \in good
        BY <3>1, <2>1, <1>2
      <3>3. k - 1 \in Good /\ k - 1 \in 0..(n - 1)
        BY <3>2, <2>3
      <3> QED BY <3>3
    <2> QED BY <2>2, <2>3
  <1>3. SUBSET D \subseteq good
    <2> HIDE DEF good, D
    <2>1. \A s \in SUBSET D : (\A t \in SUBSET s : t # s => t \in good) => s \in good
      BY <1>2
    <2> QED BY <1>1, <2>1, SubsetInduction
  <1> SUFFICES ASSUME NEW k \in 0..n PROVE k \in Good
    OBVIOUS
  <1>4. upTo(k) \in good
    BY <1>3
  <1> QED BY <1>4

-----------------------------------------------------------------------------
(***************************************************************************)
(* Folds.  MapThenFoldSet picks an element from a set and applies step to  *)
(* it and to the fold of the others; CHOOSE gives a function that does so  *)
(* on the subsets of S if there is one.                                    *)
(***************************************************************************)

\* An element of every subset that has one.
Picks(pick, S) == \A s \in SUBSET S : s # {} => pick[s] \in s

\* What step computes from a value of T is in T.
Keeps(step, S, T) == \A x \in S, v \in T : step[<<x, v>>] \in T

\* f has the fold of every subset.
Folds(f, S, base, pick, step) ==
    \A s \in SUBSET S :
        f[s] = IF s = {} THEN base ELSE step[<<pick[s], f[s \ {pick[s]}]>>]

\* There is a fold when step keeps the values in a set: it is built for the subsets
\* of at most k elements, for one k after the other.
LEMMA FoldExists ==
  ASSUME NEW S, IsFiniteSet(S), NEW T, NEW base \in T,
         NEW pick, Picks(pick, S), NEW step, Keeps(step, S, T)
  PROVE  \E f \in [SUBSET S -> T] : Folds(f, S, base, pick, step)
  <1> USE DEF Picks, Keeps, Folds
  <1> DEFINE small(k) == {s \in SUBSET S : Cardinality(s) <= k}
             folds(f, k) ==
                 \A s \in small(k) :
                     f[s] = IF s = {} THEN base ELSE step[<<pick[s], f[s \ {pick[s]}]>>]
             n == Cardinality(S)
             Good == {k \in Nat : \E f \in [small(k) -> T] : folds(f, k)}
  <1>1. n \in Nat /\ \A s \in SUBSET S : IsFiniteSet(s) /\ Cardinality(s) \in 0..n
    BY FS_CardinalityType, FS_Subset
  <1>2. \A s \in SUBSET S :
            s # {} => /\ s \ {pick[s]} \in SUBSET S
                      /\ Cardinality(s \ {pick[s]}) = Cardinality(s) - 1
    BY <1>1, FS_RemoveElement
  <1>3. 0 \in Good
    <2>1. \A s \in small(0) : s = {}
      BY <1>1, FS_EmptySet
    <2>2. [s \in small(0) |-> base] \in [small(0) -> T]
      OBVIOUS
    <2>3. folds([s \in small(0) |-> base], 0)
      BY <2>1
    <2> QED BY <2>2, <2>3
  <1>4. ASSUME NEW k \in 0..(n - 1), k \in Good PROVE k + 1 \in Good
    <2>1. PICK f \in [small(k) -> T] : folds(f, k)
      BY <1>4
    <2> DEFINE g == [s \in small(k + 1) |->
                        IF s = {} THEN base ELSE step[<<pick[s], f[s \ {pick[s]}]>>]]
    <2>2. \A s \in small(k + 1) : s # {} => s \ {pick[s]} \in small(k)
      BY <1>1, <1>2
    <2>3. g \in [small(k + 1) -> T]
      BY <2>1, <2>2
    <2>4. \A s \in small(k) : g[s] = f[s]
      BY <2>1, <1>1
    <2>5. folds(g, k + 1)
      BY <2>2, <2>4
    <2>6. k + 1 \in Nat
      BY <1>1
    <2> HIDE DEF g, small, folds
    <2> QED BY <2>3, <2>5, <2>6
  <1>5. n \in Good
    <2> HIDE DEF Good, n
    <2>1. 0..n \subseteq Good
      BY <1>1, <1>3, <1>4, CountingUp
    <2> QED BY <2>1, <1>1
  <1>6. small(n) = SUBSET S
    BY <1>1
  <1> QED BY <1>5, <1>6

\* The last of the rows 1..n: what FoldLeft picks.
LEMMA MaxOfRows ==
  ASSUME NEW n \in Nat
  PROVE  /\ \A s \in SUBSET (1..n) : s # {} => Max(s) \in s
         /\ \A k \in 1..n : Max(1..k) = k /\ (1..k) \ {Max(1..k)} = 1..(k - 1)
  <1> DEFINE top(s) == \E x \in s : \A y \in s : x >= y
             D == 1..n
             Good == {s \in SUBSET D : s = {} \/ top(s)}
  <1>1. IsFiniteSet(D)
    BY FS_Interval
  <1>2. ASSUME NEW s \in SUBSET D, \A t \in SUBSET s : t # s => t \in Good
        PROVE  s \in Good
    <2>1. SUFFICES ASSUME NEW x \in s PROVE top(s)
      OBVIOUS
    <2>2. s \ {x} = {} \/ top(s \ {x})
      BY <1>2
    <2> QED BY <2>2
  <1>3. SUBSET D \subseteq Good
    <2> HIDE DEF Good, D
    <2> QED BY <1>1, <1>2, SubsetInduction
  <1>4. \A s \in SUBSET D : s # {} => Max(s) \in s
    BY <1>3 DEF Max
  <1>5. \A k \in 1..n : Max(1..k) = k
    <2> TAKE k \in 1..n
    <2>1. k \in 1..k /\ \A y \in 1..k : k >= y
      OBVIOUS
    <2>2. Max(1..k) \in 1..k /\ \A y \in 1..k : Max(1..k) >= y
      BY <2>1 DEF Max
    <2> QED BY <2>1, <2>2
  <1>6. \A k \in 1..n : (1..k) \ {k} = 1..(k - 1)
    OBVIOUS
  <1> QED BY <1>4, <1>5, <1>6

\* f has the fold of any of the rows 1..n, the last one taken off at each step.
FoldsRows(f, n, base, step) ==
    \A s \in SUBSET (1..n) :
        f[s] = IF s = {} THEN base ELSE step[<<Max(s), f[s \ {Max(s)}]>>]

\* There is a fold over rows when step keeps the values in a set.
LEMMA FoldOfRows ==
  ASSUME NEW n \in Nat, NEW T, NEW base \in T, NEW step, Keeps(step, 1..n, T)
  PROVE  \E f \in [SUBSET (1..n) -> T] : FoldsRows(f, n, base, step)
  <1> DEFINE D == 1..n
             pick == [s \in SUBSET D |-> Max(s)]
  <1>1. IsFiniteSet(D)
    BY FS_Interval
  <1>2. Picks(pick, D)
    BY MaxOfRows DEF Picks
  <1>3. PICK f \in [SUBSET D -> T] : Folds(f, D, base, pick, step)
    <2> HIDE DEF D, pick
    <2>1. Keeps(step, D, T)
      BY DEF D
    <2> QED BY <1>1, <1>2, <2>1, FoldExists
  <1> QED BY <1>3 DEF Folds, FoldsRows
=============================================================================
