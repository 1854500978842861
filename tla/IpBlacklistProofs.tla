------------------------ MODULE IpBlacklistProofs ------------------------
(***************************************************************************)
(* What IpBlacklist guarantees for every set of addresses, users and       *)
(* calls, and for tables and pages of any size.                            *)
(***************************************************************************)
EXTENDS IpBlacklist, SetLemmas

\* The rows that the open list must have shown by now: those that matched all
\* along and that come so early that they have a place on the pages so far.
PagesOK ==
    browsed # Null =>
        /\ kept \subseteq Matching(browsed)
        /\ ~shrunk =>
              \A i \in kept :
                  Cardinality(Before(Matching(browsed), i)) < pageNo * PageSize => i \in shown

-----------------------------------------------------------------------------
(* Types *)

\* Any set of ids is finite.
LEMMA IdsFinite ==
  ASSUME NEW S \in SUBSET Ids
  PROVE  IsFiniteSet(S) /\ Cardinality(S) \in Nat /\ Cardinality(S) <= MaxId
  <1>1. IsFiniteSet(Ids) /\ Cardinality(Ids) = MaxId
    BY FS_Interval, RangesAssumption DEF Ids
  <1> QED BY <1>1, FS_Subset, FS_CardinalityType

\* Rows that match a filter are rows of the table.
LEMMA MatchingIds ==
  ASSUME NEW f
  PROVE  Matching(f) \in SUBSET Ids
  BY DEF Matching, Stored

\* The first id and the first page exist.
LEMMA RangeOfPages == 1 \in 1..(MaxId + 1) /\ {0, 1} \subseteq 0..(MaxId + 1)
  BY RangesAssumption

\* The first page has PageSize places.
LEMMA PageSizes == PageSize \in Nat /\ 0 * PageSize = 0 /\ 1 * PageSize = PageSize
                   /\ (0 + 1) * PageSize = PageSize
  BY RangesAssumption

\* A row keeps its type whatever Update sets.
LEMMA SetType ==
  ASSUME NEW row \in Row, NEW info \in Info, Settable(info)
  PROVE  Set(row, info) \in Row
  BY DEF Row, Info, Settable, Set

\* The history of the paging has the right types, whatever happens to the rows.
LEMMA WatchType ==
  ASSUME TypeOK, Watch
  PROVE  kept' \subseteq Ids /\ shrunk' \in BOOLEAN
  BY DEF TypeOK, Watch

\* An empty table, and no list open.
LEMMA InitType == Init => TypeOK
  BY RangeOfPages DEF Init, TypeOK

\* One step per action.
LEMMA StepType == TypeOK /\ [Next]_vars => TypeOK'
  <1> SUFFICES ASSUME TypeOK, [Next]_vars PROVE TypeOK'
    OBVIOUS
  <1>1. ASSUME NEW info \in Infos, Insert(info)
        PROVE  TypeOK'
    <2>1. info \in Info
      BY CallsAssumption
    <2>2. nextId' \in 1..(MaxId + 1)
      BY <1>1, RangesAssumption DEF Insert, InsertId, TypeOK, Ids
    <2>3. rows' \in [Ids -> Row \cup {Null}]
      BY <1>1, <2>1 DEF Insert, TypeOK, Info, Row
    <2>4. outcome'.result \in {"ok", "BadRequest", "IpAlreadyBlacklisted", "NotNullViolation"}
      BY <1>1 DEF Insert, Outcome
    <2>5. Watch /\ UNCHANGED browsing
      BY <1>1 DEF Insert
    <2> QED BY <2>2, <2>3, <2>4, <2>5, WatchType DEF TypeOK, browsing
  <1>2. ASSUME NEW f \in Filters, Delete(f)
        PROVE  TypeOK'
    <2>1. rows' \in [Ids -> Row \cup {Null}]
      BY <1>2 DEF Delete, TypeOK
    <2>2. outcome'.result \in {"ok", "BadRequest", "IpAlreadyBlacklisted", "NotNullViolation"}
      BY <1>2 DEF Delete, Outcome
    <2>3. Watch /\ UNCHANGED nextId /\ UNCHANGED browsing
      BY <1>2 DEF Delete
    <2> QED BY <2>1, <2>2, <2>3, WatchType DEF TypeOK, browsing
  <1>3. ASSUME NEW info \in Changes, NEW f \in Filters, Update(info, f)
        PROVE  TypeOK'
    <2>1. info \in Info
      BY CallsAssumption
    <2>2. rows' \in [Ids -> Row \cup {Null}]
      <3>1. ASSUME NEW i \in Ids
            PROVE  rows'[i] \in Row \cup {Null}
        <4>1. CASE Settable(info) /\ i \in Matching(f)
          <5>1. rows[i] \in Row
            BY <4>1 DEF Matching, Stored, TypeOK
          <5>2. rows'[i] = Set(rows[i], info)
            BY <1>3, <4>1 DEF Update
          <5> QED BY <2>1, <4>1, <5>1, <5>2, SetType
        <4>2. CASE ~(Settable(info) /\ i \in Matching(f))
          BY <1>3, <4>2 DEF Update, TypeOK
        <4> QED BY <4>1, <4>2
      <3> QED BY <1>3, <3>1 DEF Update
    <2>3. outcome'.result \in {"ok", "BadRequest", "IpAlreadyBlacklisted", "NotNullViolation"}
      BY <1>3 DEF Update, Outcome
    <2>4. Watch /\ UNCHANGED nextId /\ UNCHANGED browsing
      BY <1>3 DEF Update
    <2> QED BY <2>2, <2>3, <2>4, WatchType DEF TypeOK, browsing
  <1>4. ASSUME NEW f \in Browsed, Open(f)
        PROVE  TypeOK'
    <2>1. Matching(f) \subseteq Ids /\ Select(f, 0) \subseteq Ids
      BY MatchingIds DEF Select
    <2> QED BY <1>4, <2>1, RangeOfPages DEF Open, TypeOK
  <1>5. ASSUME NextPage
        PROVE  TypeOK'
    <2> DEFINE n == Cardinality(Matching(browsed))
    <2>1. n \in Nat /\ n <= MaxId
      BY MatchingIds, IdsFinite
    <2>2. ~(pageNo * PageSize >= n)
      BY <1>5 DEF NextPage, Finished, Count
    <2> HIDE DEF n
    <2>3. pageNo \in Nat /\ pageNo <= pageNo * PageSize /\ pageNo * PageSize \in Nat
      BY NextPagePlaces, RangesAssumption DEF TypeOK
    <2>4. pageNo + 1 \in 0..(MaxId + 1)
      BY <2>1, <2>2, <2>3, RangesAssumption
    <2>5. Select(browsed, pageNo) \subseteq Ids
      BY MatchingIds DEF Select
    <2> QED BY <1>5, <2>4, <2>5 DEF NextPage, TypeOK
  <1>6. CASE Close
    BY <1>6, RangeOfPages DEF Close, TypeOK
  <1>7. CASE UNCHANGED vars
    BY <1>7 DEF vars, browsing, TypeOK
  <1> QED BY <1>1, <1>2, <1>3, <1>4, <1>5, <1>6, <1>7 DEF Next

(***************************************************************************)
(* Every variable keeps its type: given a table whose columns are NOT NULL *)
(* for Insert, no Update, in whatever order the calls come, takes a row    *)
(* its list, its admin or its flag (BlacklistedIpInfoWork, Insert, Update, *)
(* Delete).                                                                *)
(***************************************************************************)
THEOREM TypeCorrect == Spec => []TypeOK
  BY InitType, StepType, PTL DEF Spec

-----------------------------------------------------------------------------
(* Freed addresses *)

\* What blacklists an address matches the filter on that address alone.
LEMMA CheckedByFilter ==
  ASSUME NEW ip \in Ips, NEW i, NEW row,
         Matches([NoFilter EXCEPT !.ip = ip, !.active = TRUE], i, row)
  PROVE  Matches([NoFilter EXCEPT !.ip = ip], i, row) /\ row.active = TRUE
  BY NullAssumption DEF Matches, NoFilter

\* Every step leaves an address free that it was asked to free, or was before.
LEMMA StepFreed == TypeOK /\ FreedByIp /\ [Next]_vars => FreedByIp'
  <1> SUFFICES ASSUME TypeOK, FreedByIp, [Next]_vars PROVE FreedByIp'
    OBVIOUS
  <1>1. ASSUME UNCHANGED <<rows, outcome>>
        PROVE  FreedByIp'
    BY <1>1 DEF FreedByIp, IsIpBlacklisted, Matching, Stored
  <1>2. ASSUME NEW info \in Infos, Insert(info)
        PROVE  FreedByIp'
    BY <1>2 DEF Insert, Outcome, FreedByIp
  <1>3. ASSUME NEW f \in Filters, Delete(f)
        PROVE  FreedByIp'
    <2> SUFFICES ASSUME NEW ip \in Ips, NEW user, outcome'.result = "ok",
                        f = [NoFilter EXCEPT !.ip = ip], IsIpBlacklisted(ip, user)'
                 PROVE  FALSE
      BY <1>3 DEF Delete, Outcome, FreedByIp
    <2>1. PICK i \in Ids : rows'[i] # Null /\ Matches(f, i, rows'[i])
      BY CheckedByFilter DEF IsIpBlacklisted, Matching, Stored
    <2>2. ~IsEmpty(f)
      BY <1>3 DEF Delete, Outcome
    <2>3. rows'[i] = rows[i] /\ i \notin Matching(f)
      BY <1>3, <2>1, <2>2 DEF Delete
    <2> QED BY <2>1, <2>3 DEF Matching, Stored
  <1>4. ASSUME NEW info \in Changes, NEW f \in Filters, Update(info, f)
        PROVE  FreedByIp'
    <2> SUFFICES ASSUME NEW ip \in Ips, NEW user, outcome'.result = "ok",
                        outcome'.call = "Deactivate",
                        f = [NoFilter EXCEPT !.ip = ip], IsIpBlacklisted(ip, user)'
                 PROVE  FALSE
      BY <1>4 DEF Update, Outcome, FreedByIp
    <2>1. PICK i \in Ids : rows'[i] # Null /\ Matches(f, i, rows'[i]) /\ rows'[i].active = TRUE
      BY CheckedByFilter DEF IsIpBlacklisted, Matching, Stored
    <2>2. Settable(info) /\ info.active = FALSE
      BY <1>4 DEF Update, Outcome
    <2>3. CASE i \in Matching(f)
      <3>1. rows'[i] = [rows[i] EXCEPT !.active = FALSE] /\ rows[i] \in Row
        BY <1>4, <2>2, <2>3 DEF Update, Set, Matching, Stored, TypeOK
      <3> QED BY <2>1, <3>1 DEF Row
    <2>4. CASE i \notin Matching(f)
      <3>1. rows'[i] = rows[i]
        BY <1>4, <2>4 DEF Update
      <3> QED BY <2>1, <2>4, <3>1 DEF Matching, Stored
    <2> QED BY <2>3, <2>4
  <1>5. ASSUME NEW f \in Browsed, Open(f)
        PROVE  FreedByIp'
    BY <1>1, <1>5 DEF Open
  <1>6. CASE NextPage
    BY <1>1, <1>6 DEF NextPage
  <1>7. CASE Close
    BY <1>1, <1>7 DEF Close
  <1>8. CASE UNCHANGED vars
    BY <1>1, <1>8 DEF vars
  <1> QED BY <1>2, <1>3, <1>4, <1>5, <1>6, <1>7, <1>8 DEF Next

(***************************************************************************)
(* For any addresses and prefixes: a Deactivate or Delete that was asked   *)
(* for one address alone leaves nobody blacklisted at that address, for    *)
(* the filter of those calls matches every row that the check of a         *)
(* visitor's address can find (BlacklistedIpInfoWork, BuildFilterStr,      *)
(* Deactivate, Delete, IsIpBlacklisted).                                   *)
(***************************************************************************)
THEOREM FreedAddresses == Spec => []FreedByIp
  <1>1. Init => FreedByIp
    BY DEF Init, FreedByIp
  <1> QED BY <1>1, InitType, StepType, StepFreed, PTL DEF Spec

-----------------------------------------------------------------------------
(* Pages *)

\* Whatever an administrator does, a row counts as kept only while it matches,
\* and as long as none is lost the list can only grow.
LEMMA WatchKept ==
  ASSUME Watch, browsed # Null, UNCHANGED browsed
  PROVE  /\ kept' \subseteq kept /\ kept' \subseteq Matching(browsed)'
         /\ ~shrunk' => ~shrunk /\ Matching(browsed) \subseteq Matching(browsed)'
  <1> DEFINE still == {i \in Matching(browsed) :
                          rows'[i] # Null /\ Matches(browsed, i, rows'[i])}
  <1>1. still \subseteq Matching(browsed)'
    BY DEF Matching, Stored
  <1>2. kept' = kept \cap still /\ shrunk' = (shrunk \/ still # Matching(browsed))
    BY DEF Watch
  <1> QED BY <1>1, <1>2

\* In a list that only grew, no row has moved to an earlier place.
LEMMA WatchPages ==
  ASSUME TypeOK, PagesOK, Watch, UNCHANGED browsing
  PROVE  PagesOK'
  <1> SUFFICES ASSUME browsed # Null, browsed' # Null
               PROVE  /\ kept' \subseteq Matching(browsed)'
                      /\ ~shrunk' =>
                            \A i \in kept' :
                                Cardinality(Before(Matching(browsed)', i)) < pageNo * PageSize =>
                                    i \in shown
    BY DEF PagesOK, browsing
  <1>1. UNCHANGED browsed
    BY DEF browsing
  <1>2. ASSUME ~shrunk', NEW i \in kept',
               Cardinality(Before(Matching(browsed)', i)) < pageNo * PageSize
        PROVE  i \in shown
    <2>1. i \in kept /\ ~shrunk /\ Matching(browsed) \subseteq Matching(browsed)'
      BY <1>1, <1>2, WatchKept
    <2> DEFINE first == Cardinality(Before(Matching(browsed), i))
               now == Cardinality(Before(Matching(browsed)', i))
    <2>2. IsFiniteSet(Matching(browsed)')
      <3>1. Matching(browsed)' \subseteq Ids
        BY DEF Matching, Stored
      <3> QED BY <3>1, IdsFinite
    <2>3. first \in Nat /\ now \in Nat /\ first <= now
      BY <2>1, <2>2, BeforeGrows
    <2>4. pageNo * PageSize \in Nat
      BY NextPagePlaces, RangesAssumption DEF TypeOK
    <2>5. first < pageNo * PageSize
      <3> HIDE DEF first, now
      <3> QED BY <1>2, <2>3, <2>4 DEF now
    <2> QED BY <2>1, <2>5 DEF PagesOK
  <1> QED BY <1>1, <1>2, WatchKept

\* Every page shows the rows of its places; one step per action.
LEMMA StepPages == TypeOK /\ PagesOK /\ [Next]_vars => PagesOK'
  <1> SUFFICES ASSUME TypeOK, PagesOK, [Next]_vars PROVE PagesOK'
    OBVIOUS
  <1>1. ASSUME NEW info \in Infos, Insert(info)
        PROVE  PagesOK'
    BY <1>1, WatchPages DEF Insert
  <1>2. ASSUME NEW f \in Filters, Delete(f)
        PROVE  PagesOK'
    BY <1>2, WatchPages DEF Delete
  <1>3. ASSUME NEW info \in Changes, NEW f \in Filters, Update(info, f)
        PROVE  PagesOK'
    BY <1>3, WatchPages DEF Update
  <1>4. ASSUME NEW f \in Browsed, Open(f)
        PROVE  PagesOK'
    <2>1. /\ browsed' = f /\ pageNo' = 1 /\ shown' = Select(f, 0) /\ kept' = Matching(f)
          /\ Matching(f)' = Matching(f)
      BY <1>4 DEF Open, Matching, Stored
    <2>2. ASSUME NEW i \in Matching(f), Cardinality(Before(Matching(f), i)) < PageSize
          PROVE  i \in Select(f, 0)
      <3>1. Cardinality(Before(Matching(f), i)) \in Nat
        BY MatchingIds, IdsFinite, BeforeGrows
      <3> QED BY <2>2, <3>1, PageSizes DEF Select, Before
    <2> QED BY <2>1, <2>2, PageSizes DEF PagesOK
  <1>5. CASE NextPage
    <2>1. /\ browsed # Null /\ UNCHANGED <<browsed, kept, shrunk>>
          /\ pageNo' = pageNo + 1 /\ shown' = shown \cup Select(browsed, pageNo)
          /\ Matching(browsed)' = Matching(browsed)
      BY <1>5 DEF NextPage, Matching, Stored
    <2> DEFINE before(i) == Cardinality(Before(Matching(browsed), i))
    <2>2. ASSUME ~shrunk, NEW i \in kept, before(i) < (pageNo + 1) * PageSize
          PROVE  i \in shown \cup Select(browsed, pageNo)
      <3>1. i \in Matching(browsed)
        BY <2>1 DEF PagesOK
      <3>2. before(i) \in Nat
        BY MatchingIds, IdsFinite, BeforeGrows
      <3>3. pageNo * PageSize \in Nat
        BY NextPagePlaces, RangesAssumption DEF TypeOK
      <3>4. CASE before(i) < pageNo * PageSize
        BY <2>1, <2>2, <3>4 DEF PagesOK
      <3>5. CASE pageNo * PageSize <= before(i)
        BY <2>2, <3>1, <3>5 DEF Select, Before
      <3> HIDE DEF before
      <3> QED BY <3>2, <3>3, <3>4, <3>5
    <2> QED BY <2>1, <2>2 DEF PagesOK
  <1>6. CASE Close
    BY <1>6 DEF Close, PagesOK
  <1>7. CASE UNCHANGED vars
    BY <1>7 DEF vars, browsing, PagesOK, Matching, Stored
  <1> QED BY <1>1, <1>2, <1>3, <1>4, <1>5, <1>6, <1>7 DEF Next

(***************************************************************************)
(* For tables and pages of any size: insertions while a list is read hide  *)
(* no row that matched from the first page on, as long as no matching row  *)
(* is lost (BlacklistedIpInfoWork::Select, newest ids first).              *)
(***************************************************************************)
THEOREM PagesComplete == Spec => []PagesMissNothing
  <1>1. Init => PagesOK
    BY DEF Init, PagesOK
  <1>2. TypeOK /\ PagesOK => PagesMissNothing
    <2> SUFFICES ASSUME TypeOK, PagesOK, Finished, ~shrunk, NEW i \in kept
                 PROVE  i \in shown
      BY DEF PagesMissNothing
    <2> DEFINE before == Cardinality(Before(Matching(browsed), i))
               n == Cardinality(Matching(browsed))
    <2>1. browsed # Null /\ pageNo * PageSize >= n
      BY DEF Finished, Count
    <2>2. i \in Matching(browsed) /\ Matching(browsed) \in SUBSET Int
      BY <2>1, MatchingIds DEF PagesOK, Ids
    <2>3. IsFiniteSet(Matching(browsed)) /\ n \in Nat
      BY MatchingIds, IdsFinite
    <2>4. before \in Nat /\ before < n
      BY <2>2, <2>3, BeforeGrows, BeforeIsFewer
    <2>5. pageNo * PageSize \in Nat
      BY NextPagePlaces, RangesAssumption DEF TypeOK
    <2>6. before < pageNo * PageSize
      <3> HIDE DEF before, n
      <3> QED BY <2>1, <2>3, <2>4, <2>5
    <2> QED BY <2>1, <2>6 DEF PagesOK
  <1> QED BY <1>1, <1>2, InitType, StepType, StepPages, PTL DEF Spec
=============================================================================
