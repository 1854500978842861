---------------------- MODULE AffiliateReportsProofs ----------------------
(***************************************************************************)
(* What AffiliateReports guarantees for any transactions, users, accounts  *)
(* and filters: the types of its tables, that a page of the grid counts    *)
(* every transaction once per account, and that the total of sign-ups      *)
(* covers the grid's column.  The chart and the types of the pages are in  *)
(* ChartProofs.                                                            *)
(***************************************************************************)
EXTENDS AffiliateReports, SetLemmas

-----------------------------------------------------------------------------
(* Types *)

\* A product grows with its factors.
LEMMA Product ==
  ASSUME NEW m \in Nat, NEW n \in Nat, NEW x \in 1..m, NEW y \in 1..n
  PROVE  x * y \in 1..(m * n)
  <1>1. x * y \in Nat /\ 1 <= x * y /\ m * y \in Nat /\ m * n \in Nat
    OBVIOUS
  <1>2. x * y <= m * y
    OBVIOUS
  <1>3. m * y <= m * n
    OBVIOUS
  <1> QED BY <1>1, <1>2, <1>3

\* A part of a finite set that is not empty.
LEMMA PartSize ==
  ASSUME NEW S, IsFiniteSet(S), NEW T \in SUBSET S, T # {}
  PROVE  Cardinality(S) \in Nat /\ Cardinality(T) \in 1..Cardinality(S)
  <1>1. IsFiniteSet(T) /\ Cardinality(T) <= Cardinality(S)
    BY FS_Subset
  <1>2. Cardinality(T) \in Nat /\ Cardinality(S) \in Nat /\ Cardinality(T) # 0
    BY <1>1, FS_CardinalityType, FS_EmptySet
  <1> QED BY <1>1, <1>2

\* The map has affiliates for keys, and no affiliate without sign-ups.
LEMMA SignUpMapsType ==
  ASSUME NEW f \in SignUpMaps
  PROVE  /\ DOMAIN f \subseteq AffiliateIds
         /\ \A i \in DOMAIN f : f[i] \in 1..(Cardinality(Users) * Cardinality(Accounts))
  <1> DEFINE seen == {a \in Accounts : Wanted(a) /\ SignedUp(a) # {}}
             same(a) == {b \in seen : b.affiliateId = a.affiliateId /\ b.name = a.name}
             count(a) == Cardinality(SignedUp(a)) * Cardinality(same(a))
             ids == {a.affiliateId : a \in seen}
  <1>1. DOMAIN f = ids /\ \A i \in ids : \E a \in seen : f[i] = count(a)
    <2> HIDE DEF seen, count, ids
    <2> QED BY Zenon DEF SignUpMaps, seen, count, ids, same
  <1>2. ids \subseteq AffiliateIds
    BY AccountsAssumption
  <1>3. ASSUME NEW a \in seen
        PROVE  count(a) \in 1..(Cardinality(Users) * Cardinality(Accounts))
    <2>1. Cardinality(Users) \in Nat /\ Cardinality(SignedUp(a)) \in 1..Cardinality(Users)
      <3>1. SignedUp(a) \in SUBSET Users /\ SignedUp(a) # {}
        BY DEF SignedUp
      <3> QED BY <3>1, PartSize, TablesAssumption
    <2>2. Cardinality(Accounts) \in Nat /\ Cardinality(same(a)) \in 1..Cardinality(Accounts)
      <3>1. same(a) \in SUBSET Accounts /\ a \in same(a)
        OBVIOUS
      <3> HIDE DEF same
      <3> QED BY <3>1, PartSize, TablesAssumption
    <2> HIDE DEF same, seen
    <2> QED BY <2>1, <2>2, Product
  <1> HIDE DEF seen, count, ids
  <1> QED BY <1>1, <1>2, <1>3

\* A page that nobody has asked for yet.
LEMMA InitTables == Init => TablesOK
  <1> SUFFICES ASSUME Init PROVE TablesOK
    OBVIOUS
  <1>1. DOMAIN signUps = {}
    BY DEF Init
  <1>2. filter \in Filters /\ pc \in Statements[filter.page]
    BY FiltersAssumption DEF Init, Statements
  <1> QED BY <1>1, <1>2 DEF Init, TablesOK

\* A statement belongs to one page.
LEMMA PageOfStatement ==
  ASSUME TablesOK
  PROVE  /\ filter.page \in {"chart", "grid", "totals"}
         /\ pc = "finished" => filter.page = "chart"
         /\ pc \in {"signUps", "others"} => filter.page = "grid"
  BY FiltersAssumption DEF TablesOK, Statements

\* A payment that ends has a status of a payment.
LEMMA BecomesType ==
  ASSUME NEW status
  PROVE  Becomes(status) \subseteq Statuses
  BY DEF Becomes, Statuses, PendingStatuses, FailedStatuses, FinishedStatuses

\* A payment that goes on stays the affiliate's and of its day, and has a day and a
\* rate day when it is finished.
LEMMA ProgressTo ==
  ASSUME trx \in [Trxs -> Traded \cup {Null}], today \in Days, NEW t \in Trxs, Progress(t)
  PROVE  \E now \in Traded :
            /\ trx' = [trx EXCEPT ![t] = now]
            /\ now.affiliateId = trx[t].affiliateId /\ now.performed = trx[t].performed
            /\ now.performedRate = trx[t].performedRate
            /\ now.status = "FINISHED" => now.executed # Null
            /\ trx[t].status # "FINISHED"
  <1>1. trx[t] \in Traded
    BY DEF Progress, Made
  <1>2. PICK s \in Becomes(trx[t].status) :
           IF s = "FINISHED"
           THEN \E d \in RateDays[today] :
                   trx' = [trx EXCEPT ![t].status = s, ![t].executed = today, ![t].executedRate = d]
           ELSE trx' = [trx EXCEPT ![t].status = s]
    BY DEF Progress
  <1>3. s \in Statuses /\ trx[t].status # "FINISHED"
    BY BecomesType DEF Becomes
  <1>4. CASE s = "FINISHED"
    <2>1. PICK d \in RateDays[today] :
             trx' = [trx EXCEPT ![t].status = s, ![t].executed = today, ![t].executedRate = d]
      BY <1>2, <1>4
    <2> DEFINE now == [trx[t] EXCEPT !.status = s, !.executed = today, !.executedRate = d]
    <2>2. d \in Int /\ today # Null
      BY DaysAssumption
    <2>3. /\ now \in Traded /\ now.executed = today
          /\ now.affiliateId = trx[t].affiliateId /\ now.performed = trx[t].performed
          /\ now.performedRate = trx[t].performedRate
      BY <1>1, <1>3, <2>2 DEF Traded
    <2>4. trx' = [trx EXCEPT ![t] = now]
      BY <2>1, Zenon
    <2> HIDE DEF now
    <2> QED BY <1>3, <2>2, <2>3, <2>4
  <1>5. CASE s # "FINISHED"
    <2> DEFINE now == [trx[t] EXCEPT !.status = s]
    <2>1. /\ now \in Traded /\ now.status = s
          /\ now.affiliateId = trx[t].affiliateId /\ now.performed = trx[t].performed
          /\ now.performedRate = trx[t].performedRate
      BY <1>1, <1>3 DEF Traded
    <2>2. trx' = [trx EXCEPT ![t] = now]
      BY <1>2, <1>5, Zenon
    <2> HIDE DEF now
    <2> QED BY <1>3, <1>5, <2>1, <2>2
  <1> QED BY <1>4, <1>5

\* The tables.
TrafficOK ==
    /\ today \in Days
    /\ trx \in [Trxs -> Traded \cup {Null}]
    /\ signUp \in [Users -> Signed \cup {Null}]

\* Traffic keeps them.
LEMMA TrafficTables ==
  ASSUME TrafficOK, \/ \E t \in Trxs : Pay(t) \/ Progress(t)
                    \/ \E u \in Users : Register(u) \/ ChangeActive(u)
                    \/ NextDay
  PROVE  TrafficOK'
  <1> USE DEF TrafficOK
  <1>1. ASSUME NEW t \in Trxs, Pay(t)
        PROVE  TrafficOK'
    <2>1. PICK a \in AffiliateIds \cup {Null}, s \in {"PENDING", "PREAUTH_STARTED"}, d \in RateDays[today] :
             trx' = [trx EXCEPT ![t] = [affiliateId |-> a, status |-> s, performed |-> today,
                                        performedRate |-> d, executed |-> Null, executedRate |-> Null]]
      BY <1>1, IdsAssumption DEF Pay
    <2>2. d \in Int
      BY DaysAssumption
    <2>3. [affiliateId |-> a, status |-> s, performed |-> today, performedRate |-> d,
           executed |-> Null, executedRate |-> Null] \in Traded
      BY <2>2 DEF Traded, Statuses, PendingStatuses
    <2>4. trx' \in [Trxs -> Traded \cup {Null}]
      BY <2>1, <2>3
    <2> QED BY <1>1, <2>4 DEF Pay
  <1>2. ASSUME NEW t \in Trxs, Progress(t)
        PROVE  TrafficOK'
    <2>1. PICK now \in Traded : trx' = [trx EXCEPT ![t] = now]
      BY <1>2, ProgressTo
    <2>2. trx' \in [Trxs -> Traded \cup {Null}]
      BY <2>1
    <2> QED BY <1>2, <2>2 DEF Progress
  <1>3. ASSUME NEW u \in Users, Register(u)
        PROVE  TrafficOK'
    <2>1. PICK a \in AffiliateIds \cup {Null} :
             signUp' = [signUp EXCEPT ![u] = [affiliateId |-> a, created |-> today, active |-> FALSE]]
      BY <1>3 DEF Register
    <2>2. signUp' \in [Users -> Signed \cup {Null}]
      BY <2>1 DEF Signed
    <2> QED BY <1>3, <2>2 DEF Register
  <1>4. ASSUME NEW u \in Users, ChangeActive(u)
        PROVE  TrafficOK'
    <2> DEFINE now == [signUp[u] EXCEPT !.active = ~@]
    <2>1. now \in Signed
      BY <1>4 DEF ChangeActive, Signed
    <2>2. signUp' = [signUp EXCEPT ![u] = now]
      BY <1>4, Zenon DEF ChangeActive
    <2>3. signUp' \in [Users -> Signed \cup {Null}]
      <3> HIDE DEF now
      <3> QED BY <2>1, <2>2
    <2> QED BY <1>4, <2>3 DEF ChangeActive
  <1>5. CASE NextDay
    BY <1>5 DEF NextDay
  <1> QED BY <1>1, <1>2, <1>3, <1>4, <1>5

\* One step per statement.
LEMMA StepTables == TablesOK /\ [Next]_vars => TablesOK'
  <1> SUFFICES ASSUME TablesOK, [Next]_vars PROVE TablesOK'
    OBVIOUS
  <1> USE DEF TablesOK
  <1>1. CASE \/ \E t \in Trxs : Pay(t) \/ Progress(t)
             \/ \E u \in Users : Register(u) \/ ChangeActive(u)
             \/ NextDay
    <2>1. UNCHANGED page
      BY <1>1 DEF Pay, Progress, Register, ChangeActive, NextDay
    <2>2. TrafficOK'
      BY <1>1, TrafficTables DEF TrafficOK
    <2> QED BY <2>1, <2>2 DEF TrafficOK, page
  <1>2. CASE SelectChart
    BY <1>2 DEF SelectChart, Sorted, traffic, Statements
  <1>3. CASE FinishChart
    BY <1>3, PageOfStatement DEF FinishChart, Sorted, traffic, Statements
  <1>4. CASE SelectGrid
    BY <1>4 DEF SelectGrid, traffic, Statements
  <1>5. CASE SelectSignUps
    <2>1. /\ DOMAIN signUps' \subseteq AffiliateIds
          /\ \A i \in DOMAIN signUps' :
                signUps'[i] \in 1..(Cardinality(Users) * Cardinality(Accounts))
      BY <1>5, SignUpMapsType DEF SelectSignUps
    <2> QED BY <1>5, <2>1, PageOfStatement DEF SelectSignUps, traffic, Statements
  <1>6. CASE SelectNonAffiliates
    BY <1>6, PageOfStatement DEF SelectNonAffiliates, traffic, Statements
  <1>7. CASE SelectTotals
    BY <1>7 DEF SelectTotals, traffic, Statements
  <1>8. CASE UNCHANGED vars
    BY <1>8 DEF vars
  <1> QED BY <1>1, <1>2, <1>3, <1>4, <1>5, <1>6, <1>7, <1>8 DEF Next

\* The tables keep their types.
LEMMA TablesAlways == Spec => []TablesOK
  BY InitTables, StepTables, PTL DEF Spec

-----------------------------------------------------------------------------
(* The grid *)

\* The rows that wait for the page's last statement count the transactions as they
\* stood at the first.
GridInv ==
    /\ pc \in {"signUps", "others"} => RowsCount(rows, before)
    /\ CountedPerAccount

\* A column sums what has the column's status and a rate on its rate day.
LEMMA ColumnSums ==
  ASSUME TablesOK, NEW J, NEW column \in Columns, NEW p
  PROVE  p \in Sums(J)[column] <=>
            /\ p \in J /\ p[2] \in Made
            /\ RateDayOf(trx[p[2]]) \in Rated /\ ColumnOf(trx[p[2]]) = column
  <1> DEFINE of(T) == {q \in J : q[2] \in T}
             t == p[2]
  <1>1. Sums(J) = [pending |-> of(Pending(Made)), finished |-> of(Finished(Made)),
                   failed |-> of(Failed(Made))]
    BY DEF Sums
  <1>2. ASSUME NEW v \in Traded
        PROVE  /\ ColumnOf(v) = "pending" <=> v.status \in PendingStatuses
               /\ ColumnOf(v) = "failed" <=> v.status \in FailedStatuses
               /\ ColumnOf(v) = "finished" <=> v.status \in FinishedStatuses
               /\ RateDayOf(v) = IF v.status \in FinishedStatuses THEN v.executedRate ELSE v.performedRate
               /\ v.status \in FinishedStatuses =>
                     v.status \notin PendingStatuses /\ v.status \notin FailedStatuses
    <2>1. v.status \in Statuses
      BY DEF Traded
    <2> QED BY <2>1 DEF ColumnOf, RateDayOf, Statuses, PendingStatuses, FailedStatuses, FinishedStatuses
  <1>3. t \in Made => trx[t] \in Traded
    BY DEF Made, TablesOK
  <1>4. CASE column = "pending"
    <2>1. p \in Sums(J)[column] <=> p \in J /\ t \in Pending(Made)
      BY <1>1, <1>4
    <2> QED BY <1>2, <1>3, <1>4, <2>1 DEF Pending
  <1>5. CASE column = "finished"
    <2>1. p \in Sums(J)[column] <=> p \in J /\ t \in Finished(Made)
      BY <1>1, <1>5
    <2> QED BY <1>2, <1>3, <1>5, <2>1 DEF Finished
  <1>6. CASE column = "failed"
    <2>1. p \in Sums(J)[column] <=> p \in J /\ t \in Failed(Made)
      BY <1>1, <1>6
    <2> QED BY <1>2, <1>3, <1>6, <2>1 DEF Failed
  <1> QED BY <1>4, <1>5, <1>6 DEF Columns

\* The range clause of the grid is about the day a transaction counts on.
LEMMA RangeOfDay ==
  ASSUME NEW t
  PROVE  GridRange(t) <=> InRange(DayOf(trx[t]))
  BY DEF GridRange, DayOf

\* A row of an id and a name, and the pairs it sums.
GridJoined ==
    {p \in Accounts \X {t \in Affiliated : GridRange(t)} :
        p[1].affiliateId = trx[p[2]].affiliateId /\ Wanted(p[1])}
PairsOf(g) == {p \in GridJoined : <<p[1].affiliateId, p[1].name>> = g}
RowOf(g) == [affiliateId |-> g[1], name |-> g[2], sums |-> Sums(PairsOf(g))]

\* The grid has a row for each id and name of the pairs.
LEMMA GridRowsOf == GridRows = {RowOf(g) : g \in {<<p[1].affiliateId, p[1].name>> : p \in GridJoined}}
  BY Zenon DEF GridRows, RowOf, PairsOf, GridJoined

\* The pairs are those of the accounts that have a transaction's affiliate id.
LEMMA PairOfHolder ==
  ASSUME NEW t \in Trxs, NEW p
  PROVE  p \in GridJoined /\ p[2] = t <=>
            /\ p \in Holders(trx[t]) \X {t}
            /\ trx[t] # Null /\ InRange(DayOf(trx[t]))
  <1> DEFINE T == {u \in Affiliated : GridRange(u)}
  <1>1. ASSUME p \in GridJoined, p[2] = t
        PROVE  p \in Holders(trx[t]) \X {t} /\ trx[t] # Null /\ InRange(DayOf(trx[t]))
    <2>1. /\ p \in Accounts \X T
          /\ p[1].affiliateId = trx[t].affiliateId /\ Wanted(p[1])
      BY <1>1 DEF GridJoined
    <2> HIDE DEF T
    <2>2. p[1] \in Accounts /\ t \in T /\ p = <<p[1], p[2]>>
      BY <1>1, <2>1
    <2>3. trx[t] # Null /\ InRange(DayOf(trx[t]))
      BY <2>2, RangeOfDay DEF T, Affiliated, Made
    <2> QED BY <1>1, <2>1, <2>2, <2>3 DEF Holders
  <1>2. ASSUME p \in Holders(trx[t]) \X {t}, trx[t] # Null, InRange(DayOf(trx[t]))
        PROVE  p \in GridJoined /\ p[2] = t
    <2>1. p[1] \in Holders(trx[t]) /\ p[2] = t /\ p = <<p[1], p[2]>>
      BY <1>2
    <2>2. p[1] \in Accounts /\ p[1].affiliateId = trx[t].affiliateId /\ Wanted(p[1])
      BY <2>1 DEF Holders
    <2>3. trx[t].affiliateId # Null
      BY <2>2, AccountsAssumption, IdsAssumption
    <2>4. t \in T
      BY <1>2, <2>3, RangeOfDay DEF Affiliated, Made
    <2> HIDE DEF T
    <2>5. p \in Accounts \X T
      BY <2>1, <2>2, <2>4
    <2> QED BY <2>1, <2>2, <2>5 DEF GridJoined, T
  <1> QED BY <1>1, <1>2

\* A row sums in a column the pairs of a transaction and the accounts of its id and
\* name.
LEMMA RowCells ==
  ASSUME TablesOK, NEW r \in GridRows, NEW column \in Columns, NEW t \in Trxs
  PROVE  {p \in r.sums[column] : p[2] = t} =
            IF CountsIn(trx[t], column) THEN {a \in Holders(trx[t]) : IsOf(r, a)} \X {t} ELSE {}
  <1>1. PICK g \in {<<p[1].affiliateId, p[1].name>> : p \in GridJoined} : r = RowOf(g)
    BY GridRowsOf
  <1>2. /\ r.affiliateId = g[1] /\ r.name = g[2] /\ r.sums = Sums(PairsOf(g))
        /\ g = <<g[1], g[2]>>
    <2>1. r.affiliateId = g[1] /\ r.name = g[2] /\ r.sums = Sums(PairsOf(g))
      BY <1>1 DEF RowOf
    <2> QED BY <1>1, <2>1
  <1> DEFINE A == {a \in Holders(trx[t]) : IsOf(r, a)}
  <1>3. ASSUME NEW p
        PROVE  p \in r.sums[column] /\ p[2] = t <=> p \in A \X {t} /\ CountsIn(trx[t], column)
    <2>1. p \in r.sums[column] /\ p[2] = t <=>
             /\ p \in PairsOf(g) /\ p[2] = t /\ t \in Made
             /\ RateDayOf(trx[t]) \in Rated /\ ColumnOf(trx[t]) = column
      BY <1>2, ColumnSums
    <2>2. p \in PairsOf(g) <=> p \in GridJoined /\ IsOf(r, p[1])
      <3>1. <<p[1].affiliateId, p[1].name>> = g <=> IsOf(r, p[1])
        BY <1>2 DEF IsOf
      <3> QED BY <3>1 DEF PairsOf
    <2>3. p \in A \X {t} <=> p \in Holders(trx[t]) \X {t} /\ IsOf(r, p[1])
      OBVIOUS
    <2> HIDE DEF A
    <2> QED BY <2>1, <2>2, <2>3, PairOfHolder DEF CountsIn, Made
  <1> HIDE DEF A
  <1>4. {p \in r.sums[column] : p[2] = t} = IF CountsIn(trx[t], column) THEN A \X {t} ELSE {}
    BY <1>3
  <1> QED BY <1>4 DEF A

\* The grid has one row for an id and a name, and one for every account that has
\* transactions of the range; its rows are finitely many.
LEMMA RowsOfGrid ==
  /\ \A r, q \in GridRows : IsOf(r, q) => r = q
  /\ \A t \in Trxs : \A a \in Holders(trx[t]) :
        InRange(DayOf(trx[t])) => \E r \in GridRows : IsOf(r, a)
  /\ IsFiniteSet(GridRows)
  <1> DEFINE group(a) == <<a.affiliateId, a.name>>
             groups == {group(p[1]) : p \in GridJoined}
             all == {group(a) : a \in Accounts}
  <1>1. GridRows = {RowOf(g) : g \in groups}
    BY GridRowsOf
  <1>2. \A g : RowOf(g).affiliateId = g[1] /\ RowOf(g).name = g[2]
    BY DEF RowOf
  <1>3. groups \subseteq all
    <2>1. \A p \in GridJoined : p[1] \in Accounts
      BY DEF GridJoined
    <2> HIDE DEF group
    <2> QED BY <2>1
  <1>4. ASSUME NEW r \in GridRows, NEW q \in GridRows, IsOf(r, q)
        PROVE  r = q
    <2>1. PICK g \in groups : r = RowOf(g)
      BY <1>1
    <2>2. PICK h \in groups : q = RowOf(h)
      BY <1>1
    <2>3. g[1] = h[1] /\ g[2] = h[2]
      <3> HIDE DEF groups
      <3> QED BY <1>2, <1>4, <2>1, <2>2 DEF IsOf
    <2>4. g = <<g[1], g[2]>> /\ h = <<h[1], h[2]>>
      OBVIOUS
    <2>5. g = h
      BY <2>3, <2>4
    <2> QED BY <2>1, <2>2, <2>5
  <1>5. ASSUME NEW t \in Trxs, NEW a \in Holders(trx[t]), InRange(DayOf(trx[t]))
        PROVE  \E r \in GridRows : IsOf(r, a)
    <2>1. trx[t] # Null
      BY DEF Holders
    <2>2. <<a, t>> \in Holders(trx[t]) \X {t} /\ <<a, t>>[2] = t /\ <<a, t>>[1] = a
      OBVIOUS
    <2>3. <<a, t>> \in GridJoined
      BY <1>5, <2>1, <2>2, PairOfHolder
    <2>4. group(a) \in groups
      <3> HIDE DEF group
      <3> QED BY <2>2, <2>3
    <2>5. RowOf(group(a)) \in GridRows
      <3> HIDE DEF group, groups
      <3> QED BY <1>1, <2>4
    <2>6. IsOf(RowOf(group(a)), a)
      <3>1. group(a)[1] = a.affiliateId /\ group(a)[2] = a.name
        OBVIOUS
      <3> HIDE DEF group
      <3> QED BY <1>2, <3>1 DEF IsOf
    <2> HIDE DEF group
    <2> QED BY <2>5, <2>6
  <1>6. IsFiniteSet(GridRows)
    <2>1. IsFiniteSet(all)
      <3>1. [a \in Accounts |-> group(a)] \in Surjection(Accounts, all)
        BY DEF Surjection
      <3> HIDE DEF all
      <3> QED BY <3>1, TablesAssumption, FS_Surjection
    <2>2. IsFiniteSet(groups)
      <3> HIDE DEF groups, all
      <3> QED BY <1>3, <2>1, FS_Subset
    <2>3. [g \in groups |-> RowOf(g)] \in Surjection(groups, GridRows)
      <3> HIDE DEF groups
      <3> QED BY <1>1 DEF Surjection
    <2> HIDE DEF groups
    <2> QED BY <2>2, <2>3, FS_Surjection
  <1> QED BY <1>4, <1>5, <1>6

\* A page has rows of the grid, no more than its limit, and fewer only when none
\* are left.
LEMMA RowsOfPage ==
  ASSUME TablesOK, NEW R \in GridPages
  PROVE  /\ R \subseteq GridRows /\ IsFiniteSet(R) /\ Cardinality(R) <= filter.limit
         /\ R # GridRows => filter.offset > 0 \/ Cardinality(R) = filter.limit
  <1> DEFINE rest == Cardinality(GridRows) - filter.offset
             size == IF rest < 0 THEN 0 ELSE IF rest < filter.limit THEN rest ELSE filter.limit
  <1>1. R \in SUBSET GridRows /\ Cardinality(R) = size
    <2>1. R \in kSubset(size, GridRows)
      BY DEF GridPages
    <2> HIDE DEF size
    <2> QED BY <2>1 DEF kSubset
  <1>2. filter.limit \in Nat /\ filter.offset \in Nat
    BY FiltersAssumption DEF TablesOK
  <1>3. IsFiniteSet(GridRows) /\ Cardinality(GridRows) \in Nat
    BY RowsOfGrid, FS_CardinalityType
  <1>4. IsFiniteSet(R) /\ (Cardinality(R) = Cardinality(GridRows) => R = GridRows)
    BY <1>1, <1>3, FS_Subset
  <1> QED BY <1>1, <1>2, <1>3, <1>4

\* The page counts the transactions as they stand.
LEMMA PageCounts ==
  ASSUME TablesOK, NEW R \in GridPages
  PROVE  RowsCount(R, trx)
  <1>1. \A r, q \in R : IsOf(r, q) => r = q
    BY RowsOfPage, RowsOfGrid
  <1>2. ASSUME NEW r \in R, NEW column \in Columns, NEW t \in Trxs
        PROVE  {p \in r.sums[column] : p[2] = t} =
                  IF CountsIn(trx[t], column) THEN {a \in Holders(trx[t]) : IsOf(r, a)} \X {t} ELSE {}
    BY RowsOfPage, RowCells
  <1>3. ASSUME NEW t \in Trxs, NEW a \in Holders(trx[t]),
               InRange(DayOf(trx[t])), ~\E r \in R : IsOf(r, a)
        PROVE  filter.offset > 0 \/ Cardinality(R) = filter.limit
    <2>1. R # GridRows
      BY <1>3, RowsOfGrid
    <2> QED BY <2>1, RowsOfPage
  <1>4. Cardinality(R) <= filter.limit
    BY RowsOfPage
  <1> QED BY <1>1, <1>2, <1>3, <1>4 DEF RowsCount

\* The row of non-affiliates is summed for itself.
LEMMA OtherCells ==
  ASSUME TablesOK, NEW t \in Trxs, NEW column \in Columns
  PROVE  <<Null, t>> \in NonAffiliates[column] <=>
            CountsIn(trx[t], column) /\ trx[t].affiliateId = Null
  <1> DEFINE T == {u \in Made : trx[u].affiliateId = Null /\ GridRange(u)}
  <1>1. <<Null, t>> \in {Null} \X T <=> t \in T
    OBVIOUS
  <1>2. <<Null, t>> \in Sums({Null} \X T)[column] <=>
            t \in T /\ t \in Made /\ RateDayOf(trx[t]) \in Rated /\ ColumnOf(trx[t]) = column
    <2> HIDE DEF T
    <2>1. <<Null, t>>[2] = t
      OBVIOUS
    <2> QED BY <1>1, <2>1, ColumnSums
  <1> QED BY <1>2, RangeOfDay DEF NonAffiliates, Made, CountsIn

\* The page shows the rows as they were found, each with its sign-ups.
LEMMA ExtractedRows ==
  ASSUME NEW others, NEW R, NEW garbage
  PROVE  /\ Extracted(others, R, garbage).others = others
         /\ {r.row : r \in Extracted(others, R, garbage).rows} = R
  <1> DEFINE found(r) == IF r.affiliateId \in DOMAIN signUps
                         THEN signUps[r.affiliateId] ELSE garbage[r.affiliateId]
             shown(r) == [row |-> r, signUps |-> found(r)]
             grid == Extracted(others, R, garbage)
  <1>1. grid = [others |-> others, rows |-> {shown(r) : r \in R}]
    BY Zenon DEF Extracted
  <1>2. \A r : shown(r).row = r
    OBVIOUS
  <1> HIDE DEF shown, found
  <1>3. grid.others = others /\ grid.rows = {shown(r) : r \in R}
    BY <1>1
  <1> HIDE DEF grid
  <1> QED BY <1>2, <1>3 DEF grid

\* Rows that were counted stay counted while the filter and the history stay.
LEMMA StillCounted ==
  ASSUME UNCHANGED <<filter, rows, before>>, RowsCount(rows, before)
  PROVE  RowsCount(rows, before)'
  BY DEF RowsCount, CountsIn, Holders, InRange, Wanted

\* A page that is no grid, or not shown yet.
LEMMA NoGridInv ==
  ASSUME pc' \notin {"signUps", "others"}, ~GridShown'
  PROVE  GridInv'
  BY DEF GridInv, CountedPerAccount

\* The last statement adds the sign-ups and the row of non-affiliates.
LEMMA ShowGridInv ==
  ASSUME TablesOK, GridInv, SelectNonAffiliates
  PROVE  GridInv'
  <1>1. PICK garbage : answer' = Extracted(NonAffiliates, rows, garbage)
    BY DEF SelectNonAffiliates
  <1>2. pc = "others" /\ pc' = "shown" /\ UNCHANGED <<trx, filter, before, rows>>
    BY DEF SelectNonAffiliates, traffic
  <1>3. answer'.others = NonAffiliates /\ {r.row : r \in answer'.rows} = rows
    BY <1>1, ExtractedRows
  <1>4. RowsCount({r.row : r \in answer.rows}, before)'
    <2>1. RowsCount(rows, before)'
      BY <1>2, StillCounted DEF GridInv
    <2>2. {r.row : r \in answer'.rows} = rows'
      BY <1>2, <1>3
    <2> QED BY <2>1, <2>2 DEF RowsCount
  <1>5. ASSUME NEW t \in Trxs, NEW column \in Columns
        PROVE  <<Null, t>> \in answer'.others[column]
                  <=> CountsIn(trx[t], column)' /\ trx'[t].affiliateId = Null
    <2>1. CountsIn(trx[t], column)' <=> CountsIn(trx[t], column)
      BY <1>2 DEF CountsIn, InRange
    <2> QED BY <1>2, <1>3, <2>1, OtherCells
  <1> QED BY <1>2, <1>4, <1>5 DEF GridInv, CountedPerAccount

\* One step per action.
LEMMA StepGrid == TablesOK /\ GridInv /\ [Next]_vars => GridInv'
  <1> SUFFICES ASSUME TablesOK, GridInv, [Next]_vars PROVE GridInv'
    OBVIOUS
  <1>1. CASE \/ \E t \in Trxs : Pay(t) \/ Progress(t)
             \/ \E u \in Users : Register(u) \/ ChangeActive(u)
             \/ NextDay
    <2>1. pc # "shown" /\ UNCHANGED <<pc, filter, rows, before>>
      BY <1>1 DEF Pay, Progress, Register, ChangeActive, NextDay, page
    <2> QED BY <2>1, StillCounted DEF GridInv, CountedPerAccount, GridShown
  <1>2. CASE SelectChart
    BY <1>2, NoGridInv DEF SelectChart, GridShown
  <1>3. CASE FinishChart
    <2>1. filter'.page = "chart"
      BY <1>3, PageOfStatement DEF FinishChart
    <2> QED BY <1>3, <2>1, NoGridInv DEF FinishChart, GridShown
  <1>4. CASE SelectGrid
    <2>1. /\ pc' = "signUps" /\ rows' \in GridPages /\ before' = trx /\ UNCHANGED filter
      BY <1>4 DEF SelectGrid
    <2>2. RowsCount(rows', trx)
      BY <2>1, PageCounts
    <2>3. RowsCount(rows, before)'
      BY <2>1, <2>2 DEF RowsCount, CountsIn, Holders, InRange, Wanted
    <2> QED BY <2>1, <2>3 DEF GridInv, CountedPerAccount, GridShown
  <1>5. CASE SelectSignUps
    <2>1. pc = "signUps" /\ pc' = "others" /\ UNCHANGED <<rows, before, filter>>
      BY <1>5 DEF SelectSignUps
    <2> QED BY <2>1, StillCounted DEF GridInv, CountedPerAccount, GridShown
  <1>6. CASE SelectNonAffiliates
    BY <1>6, ShowGridInv
  <1>7. CASE SelectTotals
    BY <1>7, NoGridInv DEF SelectTotals, GridShown
  <1>8. CASE UNCHANGED vars
    <2>1. UNCHANGED <<trx, pc, filter, rows, before, answer>>
      BY <1>8 DEF vars
    <2>2. CountedPerAccount'
      BY <2>1 DEF GridInv, CountedPerAccount, GridShown, RowsCount, CountsIn, Holders, InRange, Wanted
    <2> QED BY <2>1, <2>2, StillCounted DEF GridInv
  <1> QED BY <1>1, <1>2, <1>3, <1>4, <1>5, <1>6, <1>7, <1>8 DEF Next

(***************************************************************************)
(* For any accounts, names, payments and filters, and whichever rows the   *)
(* page has: a page of the grid has no affiliate twice and no more rows    *)
(* than its limit; each row counts the transactions of the range once for  *)
(* each account of its id and name, in the column of the status they had   *)
(* at the first statement; an affiliate with such transactions is missing  *)
(* only when the page is full or rows were skipped; and the row of         *)
(* non-affiliates counts each transaction that nobody brought once, as it  *)
(* stands at the last statement, however payments progress between the     *)
(* statements (SelectGrid, SelectNonAffiliates, ExtractRows).              *)
(***************************************************************************)
THEOREM GridCountsPerAccount == Spec => []CountedPerAccount
  <1>1. Init => GridInv
    BY DEF Init, GridInv, CountedPerAccount, GridShown
  <1>2. GridInv => CountedPerAccount
    BY DEF GridInv
  <1> QED BY <1>1, <1>2, TablesAlways, StepGrid, PTL DEF Spec

-----------------------------------------------------------------------------
(* The total of sign-ups *)

\* The sums of the parts of a column: an id is added at a time.
SumsUp(sum, column, ids) ==
    /\ sum[{}] = 0
    /\ \A s \in SUBSET ids : s # {} => \E i \in s : sum[s] = column[i] + sum[s \ {i}]

\* The sum of a column is the last of the sums of its parts.
LEMMA SumByParts ==
  ASSUME NEW column, NEW ids, IsFiniteSet(ids), column \in [ids -> Nat]
  PROVE  \E sum \in [SUBSET ids -> Nat] : SumsUp(sum, column, ids) /\ ColumnSum(column) = sum[ids]
  <1> DEFINE R(f) == f = [s \in SUBSET ids |->
                            IF s = {} THEN 0
                            ELSE column[CHOOSE x \in s : TRUE] + f[s \ {CHOOSE x \in s : TRUE}]]
             it == CHOOSE f : R(f)
             pick == [s \in SUBSET ids |-> CHOOSE x \in s : TRUE]
             step == [p \in ids \X Nat |-> column[p[1]] + p[2]]
  <1>1. ColumnSum(column) = it[ids]
    <2>1. DOMAIN column = ids
      OBVIOUS
    <2> QED BY <2>1 DEF ColumnSum, FoldFunction, FoldFunctionOnSet, MapThenFoldSet
  <1>2. Picks(pick, ids)
    BY DEF Picks
  <1>3. Keeps(step, ids, Nat)
    BY DEF Keeps
  <1>4. PICK f \in [SUBSET ids -> Nat] : Folds(f, ids, 0, pick, step)
    <2> HIDE DEF pick, step
    <2> QED BY <1>2, <1>3, FoldExists
  <1>5. R(f)
    <2>1. ASSUME NEW s \in SUBSET ids, s # {}
          PROVE  step[<<pick[s], f[s \ {pick[s]}]>>] = column[pick[s]] + f[s \ {pick[s]}]
      <3>1. pick[s] \in ids
        BY <2>1
      <3> HIDE DEF pick
      <3> QED BY <3>1
    <2> QED BY <1>4, <2>1 DEF Folds
  <1>6. R(it)
    <2> HIDE DEF R
    <2> QED BY <1>5
  <1> HIDE DEF it
  <1>7. it[{}] = 0
    BY <1>6
  <1>8. \A s \in SUBSET ids : s # {} => \E i \in s : it[s] = column[i] + it[s \ {i}]
    BY <1>6
  <1>9. it \in [SUBSET ids -> Nat]
    <2> DEFINE Good == {s \in SUBSET ids : it[s] \in Nat}
    <2>1. ASSUME NEW s \in SUBSET ids, \A t \in SUBSET s : t # s => t \in Good
          PROVE  s \in Good
      <3>1. CASE s = {}
        BY <1>7, <3>1
      <3>2. CASE s # {}
        <4>1. PICK i \in s : it[s] = column[i] + it[s \ {i}]
          BY <1>8, <3>2
        <4>2. s \ {i} \in Good
          BY <2>1
        <4> QED BY <4>1, <4>2
      <3> QED BY <3>1, <3>2
    <2> HIDE DEF Good
    <2>2. SUBSET ids \subseteq Good
      BY <2>1, SubsetInduction
    <2> QED BY <1>6, <2>2 DEF Good
  <1> QED BY <1>1, <1>7, <1>8, <1>9 DEF SumsUp

\* The pairs of a user and an account of the filter that the total's join makes for
\* affiliate ids: for those of a set, for one.
Joined(ids) ==
    {p \in Brought \X Accounts : /\ signUp[p[1]].affiliateId = p[2].affiliateId /\ Wanted(p[2])
                                 /\ p[2].affiliateId \in ids}
JoinedOf(i) == Joined({i})

\* No two accounts of the filter have the affiliate id.
Alone(i) == \A a, b \in Accounts :
               /\ a.affiliateId = i /\ b.affiliateId = i /\ Wanted(a) /\ Wanted(b)
               => a = b

\* Users and accounts are finitely many, so are their pairs.
LEMMA JoinedFinite ==
  ASSUME NEW ids
  PROVE  IsFiniteSet(Joined(ids)) /\ Cardinality(Joined(ids)) \in Nat
  <1>1. IsFiniteSet(Brought)
    BY TablesAssumption, FS_Subset DEF Brought
  <1>2. IsFiniteSet(Brought \X Accounts)
    BY <1>1, TablesAssumption, FS_Product
  <1>3. Joined(ids) \subseteq Brought \X Accounts
    BY DEF Joined
  <1> QED BY <1>2, <1>3, FS_Subset, FS_CardinalityType

\* A part of the column for its pairs: the row of an id that the map keeps counts
\* some of them, all when the account is alone.
LEMMA ColumnOfPairs ==
  ASSUME NEW column \in SignUpMaps
  PROVE  /\ IsFiniteSet(DOMAIN column) /\ column \in [DOMAIN column -> Nat]
         /\ \A i \in DOMAIN column :
               /\ column[i] <= Cardinality(JoinedOf(i))
               /\ Alone(i) => column[i] = Cardinality(JoinedOf(i))
         /\ DOMAIN column = {a.affiliateId : a \in {b \in Accounts :
               Wanted(b) /\ SignedUp(b) # {}}}
  <1> DEFINE seen == {a \in Accounts : Wanted(a) /\ SignedUp(a) # {}}
             same(a) == {b \in seen : b.affiliateId = a.affiliateId /\ b.name = a.name}
             count(a) == Cardinality(SignedUp(a)) * Cardinality(same(a))
             ids == {a.affiliateId : a \in seen}
  <1>1. /\ column \in [ids -> {count(a) : a \in seen}]
        /\ \A i \in ids : \E a \in seen : a.affiliateId = i /\ column[i] = count(a)
    <2> HIDE DEF seen, count, ids
    <2> QED BY Zenon DEF SignUpMaps, seen, count, ids, same
  <1>2. ASSUME NEW a \in seen
        PROVE  /\ count(a) \in Nat
               /\ count(a) <= Cardinality(JoinedOf(a.affiliateId))
               /\ Alone(a.affiliateId) => count(a) = Cardinality(JoinedOf(a.affiliateId))
    <2> DEFINE U == SignedUp(a)
               A == same(a)
    <2>1. U \in SUBSET Users /\ A \in SUBSET Accounts
      BY DEF SignedUp
    <2>2. IsFiniteSet(U) /\ IsFiniteSet(A) /\ Cardinality(U) \in Nat /\ Cardinality(A) \in Nat
      <3> HIDE DEF U, A
      <3> QED BY <2>1, TablesAssumption, FS_Subset, FS_CardinalityType
    <2>3. a.affiliateId # Null
      BY AccountsAssumption, IdsAssumption
    <2>4. \A u \in U : u \in Brought /\ signUp[u].affiliateId = a.affiliateId
      BY <2>3 DEF SignedUp, Brought
    <2>5. U \X A \subseteq JoinedOf(a.affiliateId)
      <3>1. \A b \in A : b \in Accounts /\ b.affiliateId = a.affiliateId /\ Wanted(b)
        OBVIOUS
      <3> HIDE DEF U, A
      <3> QED BY <2>4, <3>1 DEF JoinedOf, Joined
    <2>6. Alone(a.affiliateId) => JoinedOf(a.affiliateId) \subseteq U \X A
      <3> SUFFICES ASSUME Alone(a.affiliateId), NEW p \in JoinedOf(a.affiliateId)
                   PROVE  p \in U \X A
        OBVIOUS
      <3>1. /\ p \in Brought \X Accounts /\ signUp[p[1]].affiliateId = a.affiliateId
            /\ p[2].affiliateId = a.affiliateId /\ Wanted(p[2])
        BY DEF JoinedOf, Joined
      <3>2. p[1] \in U
        BY <3>1 DEF SignedUp, Brought
      <3>3. p[2] = a
        <4>1. Wanted(a) /\ a \in Accounts /\ p[2] \in Accounts
          BY <3>1
        <4> QED BY <3>1, <4>1 DEF Alone
      <3> HIDE DEF U, seen
      <3> QED BY <3>1, <3>2, <3>3
    <2>7. IsFiniteSet(JoinedOf(a.affiliateId))
      BY JoinedFinite DEF JoinedOf
    <2> HIDE DEF U, A
    <2>8. Cardinality(U \X A) = Cardinality(U) * Cardinality(A)
      BY <2>2, FS_Product
    <2>9. Cardinality(U) * Cardinality(A) <= Cardinality(JoinedOf(a.affiliateId))
      BY <2>5, <2>7, <2>8, FS_Subset
    <2>10. Alone(a.affiliateId) => Cardinality(U) * Cardinality(A) = Cardinality(JoinedOf(a.affiliateId))
      <3>1. Alone(a.affiliateId) => JoinedOf(a.affiliateId) = U \X A
        BY <2>5, <2>6
      <3> QED BY <2>8, <3>1
    <2>11. Cardinality(U) * Cardinality(A) \in Nat
      BY <2>2
    <2> QED BY <2>9, <2>10, <2>11 DEF U, A
  <1>3. IsFiniteSet(ids)
    <2>1. IsFiniteSet(seen)
      BY TablesAssumption, FS_Subset
    <2>2. [a \in seen |-> a.affiliateId] \in Surjection(seen, ids)
      BY DEF Surjection
    <2> HIDE DEF seen, ids
    <2> QED BY <2>1, <2>2, FS_Surjection
  <1> HIDE DEF count, seen
  <1>4. \A i \in ids : /\ column[i] \in Nat
                       /\ column[i] <= Cardinality(JoinedOf(i))
                       /\ Alone(i) => column[i] = Cardinality(JoinedOf(i))
    BY <1>1, <1>2
  <1> HIDE DEF ids
  <1>5. DOMAIN column = ids /\ column \in [ids -> Nat]
    BY <1>1, <1>4
  <1> QED BY <1>3, <1>4, <1>5 DEF ids, seen

\* The sum of the column counts pairs of its ids.
LEMMA SumOfPairs ==
  ASSUME NEW column, NEW ids, IsFiniteSet(ids), column \in [ids -> Nat],
         \A i \in ids : column[i] <= Cardinality(JoinedOf(i))
  PROVE  /\ ColumnSum(column) \in Nat /\ ColumnSum(column) <= Cardinality(Joined(ids))
         /\ (\A i \in ids : column[i] = Cardinality(JoinedOf(i)))
               => ColumnSum(column) = Cardinality(Joined(ids))
  <1>1. PICK sum \in [SUBSET ids -> Nat] : SumsUp(sum, column, ids) /\ ColumnSum(column) = sum[ids]
    BY SumByParts
  <1> DEFINE size(s) == Cardinality(Joined(s))
             exact(s) == \A i \in s : column[i] = Cardinality(JoinedOf(i))
             Good == {s \in SUBSET ids : sum[s] <= size(s) /\ (exact(s) => sum[s] = size(s))}
  <1>2. ASSUME NEW s \in SUBSET ids, \A t \in SUBSET s : t # s => t \in Good
        PROVE  s \in Good
    <2>1. CASE s = {}
      <3>1. Joined(s) = {}
        BY <2>1 DEF Joined
      <3>2. size(s) = 0
        BY <3>1, FS_EmptySet
      <3>3. sum[s] = 0
        BY <1>1, <2>1 DEF SumsUp
      <3> HIDE DEF size, exact
      <3> QED BY <3>2, <3>3
    <2>2. CASE s # {}
      <3>1. PICK i \in s : sum[s] = column[i] + sum[s \ {i}]
        BY <1>1, <2>2 DEF SumsUp
      <3>2. s \ {i} \in Good
        BY <1>2
      <3>3. Joined(s) = JoinedOf(i) \cup Joined(s \ {i}) /\ JoinedOf(i) \cap Joined(s \ {i}) = {}
        BY DEF Joined, JoinedOf
      <3>4. size(s) = Cardinality(JoinedOf(i)) + size(s \ {i})
        <4>1. IsFiniteSet(JoinedOf(i)) /\ IsFiniteSet(Joined(s \ {i}))
          BY JoinedFinite DEF JoinedOf
        <4>2. Cardinality(JoinedOf(i)) \in Nat /\ size(s \ {i}) \in Nat
          BY JoinedFinite DEF JoinedOf
        <4>3. Cardinality(JoinedOf(i) \cap Joined(s \ {i})) = 0
          BY <3>3, FS_EmptySet
        <4>4. Cardinality(JoinedOf(i) \cup Joined(s \ {i})) =
                 Cardinality(JoinedOf(i)) + size(s \ {i}) - Cardinality(JoinedOf(i) \cap Joined(s \ {i}))
          BY <4>1, FS_Union
        <4>5. size(s) = Cardinality(JoinedOf(i) \cup Joined(s \ {i}))
          BY <3>3
        <4> HIDE DEF size
        <4> QED BY <4>2, <4>3, <4>4, <4>5
      <3>5. size(s) \in Nat /\ size(s \ {i}) \in Nat /\ Cardinality(JoinedOf(i)) \in Nat
            /\ column[i] \in Nat /\ sum[s \ {i}] \in Nat
        BY JoinedFinite DEF JoinedOf
      <3>6. column[i] <= Cardinality(JoinedOf(i))
        OBVIOUS
      <3>7. exact(s) => exact(s \ {i}) /\ column[i] = Cardinality(JoinedOf(i))
        OBVIOUS
      <3> HIDE DEF size, exact
      <3> QED BY <3>1, <3>2, <3>4, <3>5, <3>6, <3>7
    <2> QED BY <2>1, <2>2
  <1>3. ids \in Good
    <2> HIDE DEF Good
    <2>1. SUBSET ids \subseteq Good
      BY <1>2, SubsetInduction
    <2> QED BY <2>1
  <1> QED BY <1>1, <1>3

\* The total is the number of pairs of the column's ids and of users whose
\* affiliate has no account.
LEMMA CountOfPairs ==
  ASSUME TablesOK, NEW column \in SignUpMaps
  PROVE  LET ids == DOMAIN column
             stray(u) == signUp[u].affiliateId \notin {a.affiliateId : a \in Accounts}
         IN  /\ CountSignUps \in Nat /\ Cardinality(Joined(ids)) <= CountSignUps
             /\ (filter.affiliateId = Null /\ Null \in filter.names => ~\E u \in Brought : stray(u))
                   => Cardinality(Joined(ids)) = CountSignUps
  <1> DEFINE ids == DOMAIN column
             J == {p \in Brought \X Accounts :
                      signUp[p[1]].affiliateId = p[2].affiliateId /\ Wanted(p[2])}
             none == {u \in Brought : signUp[u].affiliateId \notin {a.affiliateId : a \in Accounts}}
             strays == none \X {Null}
             open == filter.affiliateId = Null /\ Null \in filter.names
  <1>1. CountSignUps = Cardinality(IF open THEN J \cup strays ELSE J)
    BY DEF CountSignUps
  <1>2. ids = {a.affiliateId : a \in {b \in Accounts : Wanted(b) /\ SignedUp(b) # {}}}
    BY ColumnOfPairs
  <1> HIDE DEF ids
  <1>3. Joined(ids) = J
    <2>1. ASSUME NEW p \in J PROVE p[2].affiliateId \in ids
      <3>1. /\ p[1] \in Brought /\ p[2] \in Accounts
            /\ signUp[p[1]].affiliateId = p[2].affiliateId /\ Wanted(p[2])
        OBVIOUS
      <3>2. p[1] \in SignedUp(p[2])
        BY <3>1 DEF SignedUp, Brought
      <3> QED BY <1>2, <3>1, <3>2
    <2>2. Joined(ids) = {p \in J : p[2].affiliateId \in ids}
      BY DEF Joined
    <2> HIDE DEF J
    <2> QED BY <2>1, <2>2
  <1>4. IsFiniteSet(J) /\ Cardinality(J) \in Nat /\ IsFiniteSet(strays)
    <2>1. IsFiniteSet(Brought) /\ IsFiniteSet({Null})
      BY TablesAssumption, FS_Subset, FS_Singleton DEF Brought
    <2>2. IsFiniteSet(Brought \X {Null})
      BY <2>1, FS_Product
    <2>3. strays \subseteq Brought \X {Null}
      OBVIOUS
    <2> HIDE DEF J, strays
    <2> QED BY <1>3, <2>2, <2>3, FS_Subset, JoinedFinite
  <1>5. none = {} => J \cup strays = J
    <2>1. none = {} => strays = {}
      OBVIOUS
    <2> HIDE DEF strays
    <2> QED BY <2>1
  <1> HIDE DEF J, strays
  <1>6. CASE open
    <2>1. IsFiniteSet(J \cup strays) /\ J \subseteq J \cup strays
      BY <1>4, FS_Union
    <2>2. Cardinality(J) <= Cardinality(J \cup strays) /\ Cardinality(J \cup strays) \in Nat
      BY <2>1, FS_Subset, FS_CardinalityType
    <2> HIDE DEF open
    <2>3. CountSignUps = Cardinality(J \cup strays)
      BY <1>1, <1>6
    <2> QED BY <1>3, <1>5, <1>6, <2>2, <2>3 DEF ids, open
  <1>7. CASE ~open
    <2> HIDE DEF open
    <2>1. CountSignUps = Cardinality(J)
      BY <1>1, <1>7
    <2> QED BY <1>3, <1>4, <2>1 DEF ids
  <1> QED BY <1>6, <1>7

\* What the total and the column are, at any moment.
LEMMA TotalOfColumn ==
  ASSUME TablesOK, NEW column \in SignUpMaps
  PROVE  LET stray(u) == signUp[u].affiliateId \notin {a.affiliateId : a \in Accounts}
         IN  /\ ColumnSum(column) <= CountSignUps
             /\ /\ \A i \in DOMAIN column : Alone(i)
                /\ filter.affiliateId = Null /\ Null \in filter.names => ~\E u \in Brought : stray(u)
                => ColumnSum(column) = CountSignUps
  <1> DEFINE ids == DOMAIN column
             stray(u) == signUp[u].affiliateId \notin {a.affiliateId : a \in Accounts}
             none == filter.affiliateId = Null /\ Null \in filter.names => ~\E u \in Brought : stray(u)
  <1>1. /\ IsFiniteSet(ids) /\ column \in [ids -> Nat]
        /\ \A i \in ids : /\ column[i] <= Cardinality(JoinedOf(i))
                          /\ Alone(i) => column[i] = Cardinality(JoinedOf(i))
    BY ColumnOfPairs
  <1>2. /\ CountSignUps \in Nat /\ Cardinality(Joined(ids)) <= CountSignUps
        /\ none => Cardinality(Joined(ids)) = CountSignUps
    BY CountOfPairs
  <1> HIDE DEF ids, none
  <1>3. /\ ColumnSum(column) \in Nat /\ ColumnSum(column) <= Cardinality(Joined(ids))
        /\ (\A i \in ids : column[i] = Cardinality(JoinedOf(i)))
              => ColumnSum(column) = Cardinality(Joined(ids))
    BY <1>1, SumOfPairs
  <1>4. Cardinality(Joined(ids)) \in Nat
    BY JoinedFinite
  <1>5. ColumnSum(column) <= CountSignUps
    BY <1>2, <1>3, <1>4
  <1>6. (\A i \in ids : Alone(i)) /\ none => ColumnSum(column) = CountSignUps
    BY <1>1, <1>2, <1>3
  <1> QED BY <1>5, <1>6 DEF ids, none

\* The tables and the filter make the maps and the users.
LEMMA SameMaps ==
  ASSUME UNCHANGED <<signUp, filter>>
  PROVE  SignUpMaps' = SignUpMaps /\ Brought' = Brought
  <1>1. ASSUME NEW a PROVE SignedUp(a)' = SignedUp(a) /\ (Wanted(a)' <=> Wanted(a))
    BY DEF SignedUp, InRange, Wanted
  <1>2. Brought' = Brought
    BY DEF Brought, InRange
  <1> DEFINE seen == {a \in Accounts : Wanted(a) /\ SignedUp(a) # {}}
             same(a) == {b \in seen : b.affiliateId = a.affiliateId /\ b.name = a.name}
             count(a) == Cardinality(SignedUp(a)) * Cardinality(same(a))
             ids == {a.affiliateId : a \in seen}
             counts == {count(a) : a \in seen}
  <1>3. seen' = seen
    BY <1>1
  <1>4. \A a : count(a)' = count(a)
    <2>1. ASSUME NEW a PROVE SignedUp(a)' = SignedUp(a) /\ same(a)' = same(a)
      BY <1>1, <1>3
    <2> HIDE DEF same
    <2> QED BY <2>1
  <1>5. SignUpMaps = {f \in [ids -> counts] :
                         \A i \in ids : \E a \in seen : a.affiliateId = i /\ f[i] = count(a)}
    <2> HIDE DEF count, seen
    <2> QED BY Zenon DEF SignUpMaps, count, same, seen
  <1>6. SignUpMaps' = {f \in [ids' -> counts'] :
                         \A i \in ids' : \E a \in seen' : a.affiliateId = i /\ f[i] = count(a)'}
    <2> HIDE DEF count, seen
    <2> QED BY Zenon DEF SignUpMaps, count, same, seen
  <1> HIDE DEF count, seen
  <1>7. ids' = ids /\ counts' = counts
    BY <1>3, <1>4
  <1> HIDE DEF ids, counts
  <1>8. SignUpMaps' = SignUpMaps
    BY <1>3, <1>4, <1>5, <1>6, <1>7
  <1> QED BY <1>2, <1>8

\* Between the statement of the total and the page nothing happens, so the total
\* is the one of the tables; other pages have no total.
LEMMA StepTotal == TablesOK /\ TotalCoversGrid /\ [Next]_vars => TotalCoversGrid'
  <1> SUFFICES ASSUME TablesOK, TotalCoversGrid, [Next]_vars PROVE TotalCoversGrid'
    OBVIOUS
  <1>1. ASSUME ~TotalShown' PROVE TotalCoversGrid'
    BY <1>1 DEF TotalCoversGrid
  <1>2. CASE \/ \E t \in Trxs : Pay(t) \/ Progress(t)
             \/ \E u \in Users : Register(u) \/ ChangeActive(u)
             \/ NextDay
    BY <1>1, <1>2 DEF Pay, Progress, Register, ChangeActive, NextDay, page, TotalShown
  <1>3. CASE SelectChart \/ SelectGrid \/ SelectSignUps
    BY <1>1, <1>3 DEF SelectChart, SelectGrid, SelectSignUps, TotalShown
  <1>4. CASE FinishChart \/ SelectNonAffiliates
    <2>1. filter'.page # "totals"
      BY <1>4, PageOfStatement DEF FinishChart, SelectNonAffiliates
    <2> QED BY <1>1, <2>1 DEF TotalShown
  <1>5. CASE SelectTotals
    <2>1. UNCHANGED <<signUp, filter>> /\ answer'.signUps = CountSignUps
      BY <1>5 DEF SelectTotals, traffic
    <2>2. SignUpMaps' = SignUpMaps /\ Brought' = Brought
      BY <2>1, SameMaps
    <2> QED BY <2>1, <2>2, TotalOfColumn DEF TotalCoversGrid, Alone, Wanted
  <1>6. CASE UNCHANGED vars
    <2>1. UNCHANGED <<signUp, filter, pc, answer>>
      BY <1>6 DEF vars
    <2>2. SignUpMaps' = SignUpMaps /\ Brought' = Brought
      BY <2>1, SameMaps
    <2> QED BY <2>1, <2>2 DEF TotalCoversGrid, TotalShown, Wanted
  <1> QED BY <1>2, <1>3, <1>4, <1>5, <1>6 DEF Next

(***************************************************************************)
(* For any users, accounts and filters: the total of sign-ups is never     *)
(* less than the sum of the grid's column, whichever row the map keeps of  *)
(* an id, and more only when accounts of the filter share an id or, when   *)
(* the filter asks for no affiliate and no name, a user was brought by an  *)
(* id that no account has (CountSignUps, SelectSignUpsForGrid).            *)
(***************************************************************************)
THEOREM TotalNeverLess == Spec => []TotalCoversGrid
  <1>1. Init => TotalCoversGrid
    BY DEF Init, TotalCoversGrid, TotalShown
  <1> QED BY <1>1, TablesAlways, StepTotal, PTL DEF Spec
=============================================================================
