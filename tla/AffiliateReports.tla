------------------------ MODULE AffiliateReports ------------------------
(***************************************************************************)
(* The statistics pages of AffiliateTransactionListWork: the chart, the    *)
(* grid and the totals.  A page is assembled from several SQL statements.  *)
(* Each statement is one snapshot; payments progress and users sign up     *)
(* between them.                                                           *)
(*                                                                         *)
(* A sum of prices is modelled by the set of things summed: a set of       *)
(* transactions in the chart, of (account, transaction) pairs of the join  *)
(* in the grid; {} is the price 0.                                         *)
(***************************************************************************)
EXTENDS Integers, Sequences, FiniteSets, SequencesExt

CONSTANTS
    Days,          \* the calendar days on which payments and sign-ups happen, as integers
    RateDays,      \* the days by whose rates a payment of a day may be converted
    Rated,         \* days with an exchange rate for every currency
    Trxs,          \* transactions that can be made
    Users,         \* users that can sign up
    AffiliateIds,
    TradedIds,     \* affiliate ids that transactions carry
    Null,          \* SQL NULL, std::nullopt
    Accounts,      \* rows of affiliate_info
    Filters,       \* the pages asked for, each with its filter
    Garbage        \* what reading past the end of the map may yield

\* The names that a filter can match; a missing account has the blank one.
Names == {a.name : a \in Accounts} \cup {Null}

ASSUME DaysAssumption == Days \subseteq Int /\ Null \notin Int /\ RateDays \in [Days -> SUBSET Int]
ASSUME FiltersAssumption ==
    Filters \subseteq [page : {"chart", "grid", "totals"},
                       from : Int \cup {Null}, to : Int \cup {Null},
                       affiliateId : AffiliateIds \cup {Null}, names : SUBSET Names,
                       limit : Nat, offset : Nat]
ASSUME AccountsAssumption ==
    \A a \in Accounts : a.affiliateId \in AffiliateIds
ASSUME IdsAssumption == TradedIds \subseteq AffiliateIds /\ Null \notin AffiliateIds
ASSUME TablesAssumption == IsFiniteSet(Accounts) /\ IsFiniteSet(Users)

VARIABLES
    today,
    trx,       \* transaction_info, or Null while not made
    signUp,    \* user_account_info: who brought the user and when, or Null
    pc,        \* the next statement of the page
    filter,    \* the page asked for and its filter
    rows,      \* result of the page's first statement
    inOrder,   \* history: the chart's rows came in date order
    before,    \* history: trx at the first statement
    signUps,   \* SelectGrid: the map affiliate id -> sign-ups
    answer     \* the page

vars == <<today, trx, signUp, pc, filter, rows, inOrder, before, signUps, answer>>
traffic == <<today, trx, signUp>>
page == <<pc, filter, rows, inOrder, before, signUps, answer>>

\* Mutant of PendingStatuses: a status is forgotten.
PendingStatusesButOne == {"PENDING", "PREAUTH_STARTED"}

PendingStatuses == {"PENDING", "PREAUTH_FINISHED", "PREAUTH_STARTED"}
FailedStatuses == {"FAILED", "PREAUTH_CANCELLED"}
FinishedStatuses == {"FINISHED"}
Statuses == PendingStatuses \cup FailedStatuses \cup FinishedStatuses

\* A payment ends; one that ended stays so.
Becomes(status) ==
    CASE status = "PREAUTH_STARTED" -> {"PREAUTH_FINISHED", "PREAUTH_CANCELLED"}
      [] status = "PREAUTH_FINISHED" -> {"PENDING", "PREAUTH_CANCELLED"}
      [] status = "PENDING" -> {"FINISHED", "FAILED"}
      [] OTHER -> {}

-----------------------------------------------------------------------------
(* The statements. *)

Made == {t \in Trxs : trx[t] # Null}
Affiliated == {t \in Made : trx[t].affiliateId # Null}

\* A missing end of the range bounds nothing.
InRange(day) ==
    /\ day # Null
    /\ filter.from = Null \/ filter.from <= day
    /\ filter.to = Null \/ day <= filter.to

\* The joins with exchange_rate drop a transaction whose rate day has no rate.
Finished(T) == {t \in T : trx[t].status \in FinishedStatuses /\ trx[t].executedRate \in Rated}
Failed(T) == {t \in T : trx[t].status \in FailedStatuses /\ trx[t].performedRate \in Rated}
Pending(T) == {t \in T : trx[t].status \in PendingStatuses /\ trx[t].performedRate \in Rated}

HasRange == filter.from # Null /\ filter.to # Null

\* One row per day with a transaction of an affiliate, whatever its status;
\* GROUP BY gives them in no particular order.
ChartRows ==
    LET T == {t \in Affiliated : InRange(trx[t].performed)}
        on(d) == {t \in T : trx[t].performed = d}
        days == {trx[t].performed : t \in T}
    IN  IF ~HasRange THEN {<<>>}
        ELSE SetToSeqs({[day |-> d, failed |-> Failed(on(d)), pending |-> Pending(on(d))] : d \in days})

\* Mutant of FinishedChartRows: grouped by the day the transaction was made.
FinishedChartRowsByStart ==
    LET T == {t \in Affiliated : InRange(trx[t].executed)}
    IN  IF ~HasRange THEN {<<>>}
        ELSE SetToSeqs({[day |-> trx[t].performed,
                         finished |-> Finished({u \in T : trx[u].performed = trx[t].performed})] :
                        t \in T})

FinishedChartRows ==
    LET T == {t \in Affiliated : InRange(trx[t].executed)}
        on(d) == {t \in T : trx[t].executed = d}
        days == {trx[t].executed : t \in T}
    IN  IF ~HasRange THEN {<<>>}
        ELSE SetToSeqs({[day |-> d, finished |-> Finished(on(d))] : d \in days})

\* Mutant of GridRange: finished transactions count on the day they were made.
GridRangeByStart(t) == InRange(trx[t].performed)

\* The time range clause of the grid and of the row of non-affiliates.
GridRange(t) ==
    IF trx[t].status = "FINISHED" THEN InRange(trx[t].executed)
    ELSE InRange(trx[t].performed)

Sums(joined) ==
    LET of(T) == {p \in joined : p[2] \in T}
    IN  [pending |-> of(Pending(Made)), finished |-> of(Finished(Made)), failed |-> of(Failed(Made))]

\* The accounts of the affiliate and the name that the filter asks for.
Wanted(a) == filter.affiliateId \in {Null, a.affiliateId} /\ a.name \in filter.names

\* affiliate_info joined with the transactions, grouped by id and name.
GridRows ==
    LET T == {t \in Affiliated : GridRange(t)}
        joined == {p \in Accounts \X T :
                      p[1].affiliateId = trx[p[2]].affiliateId /\ Wanted(p[1])}
        groups == {<<p[1].affiliateId, p[1].name>> : p \in joined}
    IN  {[affiliateId |-> g[1], name |-> g[2],
          sums |-> Sums({p \in joined : <<p[1].affiliateId, p[1].name>> = g})] : g \in groups}

\* One page of the rows, which are ordered by a price: any of them may be on it.
GridPages ==
    LET rest == Cardinality(GridRows) - filter.offset
    IN  kSubset(IF rest < 0 THEN 0 ELSE IF rest < filter.limit THEN rest ELSE filter.limit,
                GridRows)

\* Mutant of SignUpMaps: an outer join keeps accounts without sign-ups.
SignUpMapsOuter == {[i \in {a.affiliateId : a \in Accounts} |-> 0]}

\* Active users that signed up in the range, per id and name of the account;
\* the map keeps the first row of an id.
SignedUp(a) ==
    {u \in Users : /\ signUp[u] # Null /\ signUp[u].active
                   /\ signUp[u].affiliateId = a.affiliateId /\ InRange(signUp[u].created)}
SignUpMaps ==
    LET seen == {a \in Accounts : Wanted(a) /\ SignedUp(a) # {}}
        count(a) == Cardinality(SignedUp(a)) *
                    Cardinality({b \in seen : b.affiliateId = a.affiliateId /\ b.name = a.name})
        ids == {a.affiliateId : a \in seen}
    IN  {f \in [ids -> {count(a) : a \in seen}] :
            \A i \in ids : \E a \in seen : a.affiliateId = i /\ f[i] = count(a)}

\* Mutant of Brought: users who are not active count, too.
BroughtEver ==
    {u \in Users : /\ signUp[u] # Null /\ signUp[u].affiliateId # Null
                   /\ InRange(signUp[u].created)}

\* Active users that any affiliate brought in the range.
Brought ==
    {u \in Users : /\ signUp[u] # Null /\ signUp[u].active
                   /\ signUp[u].affiliateId # Null /\ InRange(signUp[u].created)}

\* The total of sign-ups: these users are joined with the accounts, too, but one
\* whose affiliate has no account still counts, unless the filter asks for an
\* affiliate or for a name that the blank one does not match.
CountSignUps ==
    LET joined == {p \in Brought \X Accounts :
                      signUp[p[1]].affiliateId = p[2].affiliateId /\ Wanted(p[2])}
        stray == {u \in Brought : signUp[u].affiliateId \notin {a.affiliateId : a \in Accounts}}
    IN  Cardinality(IF filter.affiliateId = Null /\ Null \in filter.names
                    THEN joined \cup (stray \X {Null}) ELSE joined)

\* The transactions no affiliate brought; the filter's affiliate and name are ignored.
NonAffiliates ==
    Sums({Null} \X {t \in Made : trx[t].affiliateId = Null /\ GridRange(t)})

-----------------------------------------------------------------------------
(* Assembling the chart. *)

\* FillRecordsWithEmptyDatesForRange: the days from..to-1.
FillRecords(records, from, to) ==
    records \o [i \in 1..(to - from) |-> [day |-> from + i - 1, amount |-> {}]]

PushBackRecord(records, amount, from, day) ==
    Append(FillRecords(records, from, day), [day |-> day, amount |-> amount])

\* Mutant of Loop: the date iterator stays on the row's day.
LoopSameDay(result, field) ==
    FoldLeft(LAMBDA acc, row : [records |-> PushBackRecord(acc.records, row[field], acc.next, row.day),
                                next |-> row.day],
             [records |-> <<>>, next |-> filter.from], result)

\* One of SelectChart's loops over the rows: a series and the date iterator.
Loop(result, field) ==
    FoldLeft(LAMBDA acc, row : [records |-> PushBackRecord(acc.records, row[field], acc.next, row.day),
                                next |-> row.day + 1],
             [records |-> <<>>, next |-> filter.from], result)

\* The three series end with the date iterator of the second loop.
Chart(pendingFailed, finished) ==
    LET next == Loop(pendingFailed, "pending").next
        series(result, field) == FillRecords(Loop(result, field).records, next, filter.to + 1)
    IN  [finished |-> series(finished, "finished"),
         failed |-> series(pendingFailed, "failed"),
         pending |-> series(pendingFailed, "pending")]

EmptyChart == [finished |-> <<>>, failed |-> <<>>, pending |-> <<>>]

\* ExtractRows: an affiliate missing in the map is read past its end.
Extracted(others, result, garbage) ==
    [others |-> others,
     rows |-> {[row |-> r, signUps |-> IF r.affiliateId \in DOMAIN signUps
                                        THEN signUps[r.affiliateId] ELSE garbage[r.affiliateId]] :
                  r \in result}]

-----------------------------------------------------------------------------
Init ==
    /\ today \in {d \in Days : \A e \in Days : d <= e}
    /\ trx = [t \in Trxs |-> Null]
    /\ signUp = [u \in Users |-> Null]
    /\ pc = "idle"
    /\ filter \in Filters
    /\ rows = IF filter.page = "grid" THEN {} ELSE <<>>
    /\ inOrder = TRUE
    /\ before = trx
    /\ signUps = <<>>
    /\ answer = Null

(* Traffic between the statements.  A page that is shown does not change,  *)
(* and the tables that a page does not read are left alone.                *)

\* The day of a payment in the time zone of the statistics is today's; the date
\* is cut off before the conversion for the join with the rates only.
Pay(t) ==
    /\ pc # "shown" /\ filter.page # "totals" /\ trx[t] = Null
    /\ \E a \in TradedIds \cup {Null}, s \in {"PENDING", "PREAUTH_STARTED"}, d \in RateDays[today] :
         trx' = [trx EXCEPT ![t] = [affiliateId |-> a, status |-> s, performed |-> today,
                                    performedRate |-> d, executed |-> Null, executedRate |-> Null]]
    /\ UNCHANGED <<today, signUp>> /\ UNCHANGED page

Progress(t) ==
    /\ pc # "shown" /\ filter.page # "totals" /\ t \in Made
    /\ \E s \in Becomes(trx[t].status) :
         IF s = "FINISHED"
         THEN \E d \in RateDays[today] :
                 trx' = [trx EXCEPT ![t].status = s, ![t].executed = today, ![t].executedRate = d]
         ELSE trx' = [trx EXCEPT ![t].status = s]
    /\ UNCHANGED <<today, signUp>> /\ UNCHANGED page

Register(u) ==
    /\ pc # "shown" /\ filter.page # "chart" /\ signUp[u] = Null
    /\ \E a \in AffiliateIds \cup {Null} :
         signUp' = [signUp EXCEPT ![u] = [affiliateId |-> a, created |-> today, active |-> FALSE]]
    /\ UNCHANGED <<today, trx>> /\ UNCHANGED page

ChangeActive(u) ==
    /\ pc # "shown" /\ filter.page # "chart" /\ signUp[u] # Null
    /\ signUp' = [signUp EXCEPT ![u].active = ~@]
    /\ UNCHANGED <<today, trx>> /\ UNCHANGED page

NextDay ==
    /\ pc # "shown"
    /\ \E day \in Days : day > today /\ today' = day
    /\ UNCHANGED <<trx, signUp>> /\ UNCHANGED page

Sorted(result) ==
    \A i, j \in DOMAIN result : i < j => result[i].day < result[j].day

\* SelectChart: the pending and failed amounts are read first, ...
SelectChart ==
    /\ pc = "idle" /\ filter.page = "chart"
    /\ \E result \in ChartRows : rows' = result /\ inOrder' = Sorted(result)
    /\ before' = trx
    /\ pc' = "finished"
    /\ UNCHANGED <<filter, signUps, answer>> /\ UNCHANGED traffic

\* ... then the finished ones, and the three series are assembled.
FinishChart ==
    /\ pc = "finished"
    /\ \E result \in FinishedChartRows :
         /\ inOrder' = (inOrder /\ Sorted(result))
         /\ answer' = IF HasRange THEN Chart(rows, result) ELSE EmptyChart
    /\ pc' = "shown"
    /\ UNCHANGED <<filter, rows, before, signUps>> /\ UNCHANGED traffic

SelectGrid ==
    /\ pc = "idle" /\ filter.page = "grid"
    /\ rows' \in GridPages
    /\ before' = trx
    /\ pc' = "signUps"
    /\ UNCHANGED <<filter, inOrder, signUps, answer>> /\ UNCHANGED traffic

SelectSignUps ==
    /\ pc = "signUps"
    /\ signUps' \in SignUpMaps
    /\ pc' = "others"
    /\ UNCHANGED <<filter, rows, inOrder, before, answer>> /\ UNCHANGED traffic

SelectNonAffiliates ==
    /\ pc = "others"
    /\ \E garbage \in [AffiliateIds -> Garbage] :
         answer' = Extracted(NonAffiliates, rows, garbage)
    /\ pc' = "shown"
    /\ UNCHANGED <<filter, rows, inOrder, before, signUps>> /\ UNCHANGED traffic

\* The totals of the transactions come from SumAffiliateTransactions, which is
\* not in the repository; they are left out.
SelectTotals ==
    /\ pc = "idle" /\ filter.page = "totals"
    /\ answer' = [signUps |-> CountSignUps]
    /\ pc' = "shown"
    /\ UNCHANGED <<filter, rows, inOrder, before, signUps>> /\ UNCHANGED traffic

Next ==
    \/ \E t \in Trxs : Pay(t) \/ Progress(t)
    \/ \E u \in Users : Register(u) \/ ChangeActive(u)
    \/ NextDay
    \/ SelectChart \/ FinishChart
    \/ SelectGrid \/ SelectSignUps \/ SelectNonAffiliates
    \/ SelectTotals

Spec == Init /\ [][Next]_vars
-----------------------------------------------------------------------------
(* Properties. *)

Traded == [affiliateId : AffiliateIds \cup {Null}, status : Statuses,
           performed : Days, performedRate : Int,
           executed : Days \cup {Null}, executedRate : Int \cup {Null}]

\* A row is not the absence of one.
ASSUME RowsAssumption == Null \notin Traded

Signed == [affiliateId : AffiliateIds \cup {Null}, created : Days, active : BOOLEAN]

\* What the statements are of a page, and what each returns.
Statements == [chart |-> {"idle", "finished", "shown"},
               grid |-> {"idle", "signUps", "others", "shown"},
               totals |-> {"idle", "shown"}]
SumsOf(S) == [pending : SUBSET (S \X Trxs), finished : SUBSET (S \X Trxs),
              failed : SUBSET (S \X Trxs)]
ChartRow == [day : Days, failed : SUBSET Trxs, pending : SUBSET Trxs]
GridRow == [affiliateId : AffiliateIds, name : Names, sums : SumsOf(Accounts)]

\* A record of a series of the chart.
Entry == [day : Int, amount : SUBSET Trxs]

TablesOK ==
    /\ today \in Days
    /\ trx \in [Trxs -> Traded \cup {Null}] /\ before \in [Trxs -> Traded \cup {Null}]
    /\ signUp \in [Users -> Signed \cup {Null}]
    /\ filter \in Filters /\ pc \in Statements[filter.page]
    /\ inOrder \in BOOLEAN
    /\ DOMAIN signUps \subseteq AffiliateIds
    /\ \A i \in DOMAIN signUps : signUps[i] \in 1..(Cardinality(Users) * Cardinality(Accounts))

PageOK ==
    /\ filter.page = "chart" =>
          /\ rows \in Seq(ChartRow)
          /\ pc = "shown" => answer \in [finished : Seq(Entry), failed : Seq(Entry), pending : Seq(Entry)]
    /\ filter.page = "grid" =>
          /\ rows \in SUBSET GridRow
          /\ pc = "shown" => answer \in [others : SumsOf({Null}),
                                        rows : SUBSET [row : GridRow, signUps : Nat \cup Garbage]]
    /\ filter.page = "totals" =>
          /\ rows = <<>>
          /\ pc = "shown" => answer \in [signUps : Nat]
    /\ pc # "shown" => answer = Null

\* Every variable has its type: the tables; the statement, which is one of the
\* page's; the map, which counts users per affiliate and has no zero; the rows,
\* a sequence for the chart and a set for the grid; and the answer, which is of
\* the page asked for.
TypeOK == TablesOK /\ PageOK

ChartShown == pc = "shown" /\ filter.page = "chart" /\ HasRange
GridShown == pc = "shown" /\ filter.page = "grid"
TotalShown == pc = "shown" /\ filter.page = "totals"

\* t is summed in exactly one record of the series, the one of the day.
OnceOn(series, t, day) ==
    \E i \in DOMAIN series :
        /\ {j \in DOMAIN series : t \in series[j].amount} = {i}
        /\ series[i].day = day
NeverIn(series, t) == \A i \in DOMAIN series : t \notin series[i].amount

\* Whatever the order of the rows and however the gaps are filled, a series of
\* the chart sums every transaction its statement selected once, on its day, and
\* no other: the pending and failed ones as they stood at the first statement,
\* the finished ones as they stand at the second.
AmountsOnTheirDay ==
    ChartShown =>
        \A t \in Trxs :
            LET first == before[t] # Null /\ before[t].affiliateId # Null /\
                         before[t].performedRate \in Rated /\ InRange(before[t].performed)
                second == trx[t] # Null /\ trx[t].affiliateId # Null /\
                          trx[t].executedRate \in Rated /\ InRange(trx[t].executed)
                agrees(series, in, day) == IF in THEN OnceOn(series, t, day) ELSE NeverIn(series, t)
            IN  /\ agrees(answer.pending, first /\ before[t].status \in PendingStatuses,
                          before[t].performed)
                /\ agrees(answer.failed, first /\ before[t].status \in FailedStatuses,
                          before[t].performed)
                /\ agrees(answer.finished, second /\ trx[t].status = "FINISHED", trx[t].executed)

\* The order of the chart's two statements matters: a payment of an affiliate
\* that was there when the chart was asked for, with its days in the range,
\* and its rates known, appears in the chart even when it ends between the two
\* statements.
NothingMissed ==
    ChartShown =>
        \A t \in Trxs :
            (/\ before[t] # Null /\ before[t].affiliateId # Null
             /\ InRange(trx[t].performed) /\ trx[t].performedRate \in Rated
             /\ trx[t].executed # Null => InRange(trx[t].executed) /\ trx[t].executedRate \in Rated)
            => \E field \in {"finished", "failed", "pending"} : ~NeverIn(answer[field], t)

\* The series has one record for each day of the range, in order, and none when
\* the range ends before it starts.
CoversRange(series) ==
    /\ Len(series) = Cardinality(filter.from .. filter.to)
    /\ \A i \in DOMAIN series : series[i].day = filter.from + i - 1

\* When the database returns the rows by date, the pending and the failed series
\* cover the range day by day (FillRecordsWithEmptyDatesForRange).
PendingCoversRange ==
    ChartShown /\ inOrder => CoversRange(answer.pending) /\ CoversRange(answer.failed)

\* The chart is filled over its date range: AffiliateTransactionListWork.cpp:614
\* refuses a chart without one, "Missing date range! Can't fill chart.".  The
\* finished series should cover the range as the other two do, but its last gap
\* is filled from the date iterator of the other loop (:694).
FinishedCoversRange ==
    ChartShown /\ inOrder => CoversRange(answer.finished)

Columns == {"pending", "finished", "failed"}

ColumnOf(t) ==
    CASE t.status \in PendingStatuses -> "pending"
      [] t.status \in FailedStatuses -> "failed"
      [] OTHER -> "finished"

DayOf(t) == IF t.status = "FINISHED" THEN t.executed ELSE t.performed
RateDayOf(t) == IF t.status = "FINISHED" THEN t.executedRate ELSE t.performedRate

CountsIn(v, column) ==
    v # Null /\ InRange(DayOf(v)) /\ RateDayOf(v) \in Rated /\ ColumnOf(v) = column

\* The accounts of the grid that have the affiliate id of a transaction.
Holders(v) == {a \in Accounts : v # Null /\ a.affiliateId = v.affiliateId /\ Wanted(a)}

IsOf(r, a) == r.affiliateId = a.affiliateId /\ r.name = a.name

\* What the rows of a page say of the transactions in table v.
RowsCount(R, v) ==
    /\ \A r, q \in R : IsOf(r, q) => r = q
    /\ \A r \in R, column \in Columns, t \in Trxs :
          {p \in r.sums[column] : p[2] = t} =
              IF CountsIn(v[t], column) THEN {a \in Holders(v[t]) : IsOf(r, a)} \X {t} ELSE {}
    /\ Cardinality(R) <= filter.limit
    /\ \A t \in Trxs : \A a \in Holders(v[t]) :
          (InRange(DayOf(v[t])) /\ ~\E r \in R : IsOf(r, a))
          => filter.offset > 0 \/ Cardinality(R) = filter.limit

\* No affiliate has two rows on a page of the grid, and its row counts each
\* transaction of the range once for each of its accounts of the same name, in the
\* column of the status it had at the first statement and nowhere else.  A page has
\* no more rows than its limit, and an affiliate with transactions of the range is
\* missing only when the page is full or rows were skipped (SelectGrid).  The row
\* of non-affiliates, which every page has, counts each transaction that nobody
\* brought once, as it stands at the last statement.
CountedPerAccount ==
    GridShown =>
        /\ RowsCount({r.row : r \in answer.rows}, before)
        /\ \A t \in Trxs, column \in Columns :
              <<Null, t>> \in answer.others[column]
              <=> CountsIn(trx[t], column) /\ trx[t].affiliateId = Null

\* The sum of the column of sign-ups.
ColumnSum(column) == FoldFunction(LAMBDA m, n : m + n, 0, column)

\* The total of sign-ups and the column of the grid, which are counted by
\* different joins, agree at each moment: the total is never less than the sum
\* of the column, and more only when accounts of the filter share an affiliate id,
\* or when a user was brought by an id that no account has and the filter asks for
\* no affiliate and no name (CountSignUps, SelectSignUpsForGrid).
TotalCoversGrid ==
    TotalShown =>
        \A column \in SignUpMaps :
            LET alone(i) == \A a, b \in Accounts :
                               /\ a.affiliateId = i /\ b.affiliateId = i /\ Wanted(a) /\ Wanted(b)
                               => a = b
                stray(u) == signUp[u].affiliateId \notin {a.affiliateId : a \in Accounts}
            IN  /\ ColumnSum(column) <= answer.signUps
                /\ /\ \A i \in DOMAIN column : alone(i)
                   /\ filter.affiliateId = Null /\ Null \in filter.names
                         => ~\E u \in Brought : stray(u)
                   => ColumnSum(column) = answer.signUps

\* An affiliate is shown with a number of sign-ups that the users can make:
\* AffiliateTransactionListWork.cpp:210 starts from "signUps{ 0 }", but an
\* affiliate with transactions and without sign-ups is read past the map's end.
SignUpsOfUsers ==
    GridShown => \A r \in answer.rows : r.signUps \in 0..Cardinality(Users)
=============================================================================
