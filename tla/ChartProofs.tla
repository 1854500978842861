---------------------------- MODULE ChartProofs ----------------------------
(***************************************************************************)
(* What the chart of AffiliateReports shows, for any days, transactions    *)
(* and filters, and that every page has its type.  A loop over rows is a   *)
(* fold; what it computes follows by induction over the number of rows it  *)
(* took.                                                                   *)
(***************************************************************************)
EXTENDS AffiliateReportsProofs

-----------------------------------------------------------------------------
(* The loop over the rows *)

\* A series and the date iterator.
LoopState == [records : Seq(Entry), next : Int]

\* The loop takes a row.
After(acc, row, field) ==
    [records |-> PushBackRecord(acc.records, row[field], acc.next, row.day), next |-> row.day + 1]

\* The loop before its first row.
LoopStart == [records |-> <<>>, next |-> filter.from]

\* Filling a gap appends a record for each of its days, and none to a gap that is
\* empty or negative.
LEMMA FillRecordsType ==
  ASSUME NEW r \in Seq(Entry), NEW from \in Int, NEW to \in Int
  PROVE  /\ FillRecords(r, from, to) \in Seq(Entry)
         /\ Len(FillRecords(r, from, to)) = Len(r) + (IF from < to THEN to - from ELSE 0)
         /\ \A i \in 1..Len(r) : FillRecords(r, from, to)[i] = r[i]
         /\ \A i \in 1..(to - from) :
               FillRecords(r, from, to)[Len(r) + i] = [day |-> from + i - 1, amount |-> {}]
  <1> DEFINE gap == [i \in 1..(to - from) |-> [day |-> from + i - 1, amount |-> {}]]
             n == IF from < to THEN to - from ELSE 0
  <1>1. n \in Nat /\ 1..(to - from) = 1..n
    OBVIOUS
  <1>2. gap \in Seq(Entry) /\ Len(gap) = n
    <2>1. gap \in [1..n -> Entry]
      BY <1>1 DEF Entry
    <2> HIDE DEF gap, n
    <2> QED BY <2>1, <1>1
  <1>3. \A i \in 1..(to - from) : gap[i] = [day |-> from + i - 1, amount |-> {}]
    OBVIOUS
  <1>4. FillRecords(r, from, to) = r \o gap
    BY DEF FillRecords
  <1> HIDE DEF gap, n
  <1>5. /\ r \o gap \in Seq(Entry)
        /\ Len(r \o gap) = Len(r) + n
        /\ \A i \in 1..Len(r) : (r \o gap)[i] = r[i]
        /\ \A i \in 1..n : (r \o gap)[Len(r) + i] = gap[i]
    BY <1>1, <1>2
  <1> QED BY <1>1, <1>3, <1>4, <1>5 DEF n

\* The loop keeps its types.
LEMMA AfterType ==
  ASSUME NEW acc \in LoopState, NEW row, NEW field, row.day \in Int, row[field] \in SUBSET Trxs
  PROVE  After(acc, row, field) \in LoopState
  <1>1. acc.records \in Seq(Entry) /\ acc.next \in Int
    BY DEF LoopState
  <1>2. FillRecords(acc.records, acc.next, row.day) \in Seq(Entry)
    BY <1>1, FillRecordsType
  <1>3. [day |-> row.day, amount |-> row[field]] \in Entry
    BY DEF Entry
  <1> HIDE DEF LoopState
  <1> QED BY <1>2, <1>3 DEF After, PushBackRecord, LoopState

\* A result of n rows with a day and a set of transactions each.
RowsOK(result, n, field) ==
    /\ DOMAIN result = 1..n
    /\ \A i \in 1..n : result[i].day \in Int /\ result[i][field] \in SUBSET Trxs

\* L[i] is the state of the loop after i rows.
LoopsBy(L, result, n, field) ==
    /\ L[0] = LoopStart
    /\ \A i \in 1..n : L[i] = After(L[i - 1], result[i], field)
    /\ Loop(result, field) = L[n]

\* The loop takes one row after the other: FoldLeft is a fold over the numbers of
\* the rows.
LEMMA LoopByRows ==
  ASSUME filter.from \in Int, NEW n \in Nat, NEW result, NEW field, RowsOK(result, n, field)
  PROVE  \E L \in [0..n -> LoopState] : LoopsBy(L, result, n, field)
  <1> USE DEF RowsOK
  <1> DEFINE D == 1..n
             R(f) == f = [s \in SUBSET D |->
                            IF s = {} THEN LoopStart
                            ELSE After(f[s \ {Max(s)}], result[Max(s)], field)]
             it == CHOOSE f : R(f)
             step == [p \in D \X LoopState |-> After(p[2], result[p[1]], field)]
  <1>1. Loop(result, field) = it[D]
    BY DEF Loop, FoldLeft, MapThenFoldSet, After, LoopStart
  <1>2. Keeps(step, D, LoopState)
    BY AfterType DEF Keeps
  <1>3. LoopStart \in LoopState
    BY DEF LoopStart, LoopState
  <1>4. PICK f \in [SUBSET D -> LoopState] : FoldsRows(f, n, LoopStart, step)
    <2> HIDE DEF step
    <2>1. Keeps(step, 1..n, LoopState)
      BY <1>2
    <2> QED BY <2>1, <1>3, FoldOfRows
  <1>5. R(f)
    <2>1. ASSUME NEW s \in SUBSET D, s # {}
          PROVE  step[<<Max(s), f[s \ {Max(s)}]>>] = After(f[s \ {Max(s)}], result[Max(s)], field)
      BY <2>1, MaxOfRows
    <2> QED BY <1>4, <2>1 DEF FoldsRows
  <1>6. R(it)
    <2> HIDE DEF R
    <2> QED BY <1>5
  <1> DEFINE L == [i \in 0..n |-> it[1..i]]
  <1>7. L[0] = LoopStart
    <2> HIDE DEF it
    <2>1. 1..0 = {} /\ {} \in SUBSET D
      OBVIOUS
    <2> QED BY <1>6, <2>1
  <1>8. \A i \in 1..n : L[i] = After(L[i - 1], result[i], field)
    <2> TAKE i \in 1..n
    <2>1. 1..i \in SUBSET D /\ 1..i # {}
      <3> HIDE DEF L, it, step, R, RowsOK
      <3>1. i \in 1..i /\ \A j \in 1..i : j \in 1..n
        OBVIOUS
      <3> QED BY <3>1
    <2>2. Max(1..i) = i /\ (1..i) \ {Max(1..i)} = 1..(i - 1)
      BY MaxOfRows
    <2>3. it[1..i] = After(it[1..(i - 1)], result[i], field)
      <3> HIDE DEF it
      <3> QED BY <1>6, <2>1, <2>2
    <2> HIDE DEF it
    <2> QED BY <2>3
  <1>9. \A i \in 0..n : L[i] \in LoopState
    <2> DEFINE Good == {i \in 0..n : L[i] \in LoopState}
    <2>1. 0 \in Good
      BY <1>3, <1>7
    <2>2. \A k \in 0..(n - 1) : k \in Good => k + 1 \in Good
      <3> SUFFICES ASSUME NEW k \in 0..(n - 1), k \in Good PROVE k + 1 \in Good
        OBVIOUS
      <3>1. L[k + 1] = After(L[k], result[k + 1], field)
        <4> HIDE DEF L
        <4>1. k + 1 \in 1..n /\ (k + 1) - 1 = k
          OBVIOUS
        <4> QED BY <4>1, <1>8
      <3>2. result[k + 1].day \in Int /\ result[k + 1][field] \in SUBSET Trxs
        OBVIOUS
      <3>3. L[k] \in LoopState
        OBVIOUS
      <3> HIDE DEF L
      <3> QED BY <3>1, <3>2, <3>3, AfterType
    <2> HIDE DEF Good
    <2>3. 0..n \subseteq Good
      BY <2>1, <2>2, CountingUp
    <2> QED BY <2>3 DEF Good
  <1>10. L \in [0..n -> LoopState] /\ Loop(result, field) = L[n]
    <2> HIDE DEF it
    <2> QED BY <1>1, <1>9
  <1> HIDE DEF L
  <1> QED BY <1>7, <1>8, <1>10 DEF LoopsBy

\* A series that is continued without a transaction shows it as before.
LEMMA SeriesKeep ==
  ASSUME NEW r \in Seq(Entry), NEW q \in Seq(Entry), NEW t, NEW day,
         Len(r) <= Len(q), \A i \in 1..Len(r) : q[i] = r[i],
         \A i \in (Len(r) + 1)..Len(q) : t \notin q[i].amount
  PROVE  /\ NeverIn(r, t) => NeverIn(q, t)
         /\ OnceOn(r, t, day) => OnceOn(q, t, day)
  <1>1. DOMAIN r = 1..Len(r) /\ DOMAIN q = 1..Len(q) /\ Len(r) \in Nat /\ Len(q) \in Nat
    OBVIOUS
  <1>2. \A i \in DOMAIN q : i \in DOMAIN r \/ i \in (Len(r) + 1)..Len(q)
    BY <1>1
  <1>3. DOMAIN r \subseteq DOMAIN q
    BY <1>1
  <1>4. NeverIn(r, t) => NeverIn(q, t)
    BY <1>1, <1>2 DEF NeverIn
  <1>5. {j \in DOMAIN q : t \in q[j].amount} = {j \in DOMAIN r : t \in r[j].amount}
    BY <1>1, <1>2, <1>3
  <1>6. OnceOn(r, t, day) => OnceOn(q, t, day)
    BY <1>1, <1>3, <1>5 DEF OnceOn
  <1> QED BY <1>4, <1>6

\* Filling a gap leaves what a series shows.
LEMMA FillShows ==
  ASSUME NEW r \in Seq(Entry), NEW from \in Int, NEW to \in Int, NEW t, NEW day
  PROVE  /\ NeverIn(r, t) => NeverIn(FillRecords(r, from, to), t)
         /\ OnceOn(r, t, day) => OnceOn(FillRecords(r, from, to), t, day)
  <1> DEFINE q == FillRecords(r, from, to)
  <1>1. q \in Seq(Entry) /\ Len(r) <= Len(q) /\ \A i \in 1..Len(r) : q[i] = r[i]
    BY FillRecordsType
  <1>2. ASSUME NEW i \in (Len(r) + 1)..Len(q) PROVE t \notin q[i].amount
    <2> DEFINE j == i - Len(r)
    <2>1. j \in 1..(to - from) /\ i = Len(r) + j
      BY FillRecordsType
    <2> HIDE DEF j
    <2>2. \A k \in 1..(to - from) :
              q[Len(r) + k] = [day |-> from + k - 1, amount |-> {}]
      BY FillRecordsType
    <2> HIDE DEF q
    <2>3. q[i] = [day |-> from + j - 1, amount |-> {}]
      BY <2>1, <2>2
    <2> QED BY <2>3
  <1> HIDE DEF q
  <1> QED BY <1>1, <1>2, SeriesKeep DEF q

\* A record shows the transactions that it sums, whatever gap comes before it.
LEMMA PushShows ==
  ASSUME NEW r \in Seq(Entry), NEW from \in Int, NEW to \in Int, NEW amount \in SUBSET Trxs,
         NEW t, NEW day
  PROVE  LET q == PushBackRecord(r, amount, from, to)
         IN  /\ t \notin amount =>
                   /\ NeverIn(r, t) => NeverIn(q, t)
                   /\ OnceOn(r, t, day) => OnceOn(q, t, day)
             /\ t \in amount /\ NeverIn(r, t) => OnceOn(q, t, to)
  <1> DEFINE f == FillRecords(r, from, to)
             e == [day |-> to, amount |-> amount]
             q == Append(f, e)
  <1>1. f \in Seq(Entry) /\ e \in Entry
    BY FillRecordsType DEF Entry
  <1>2. /\ NeverIn(r, t) => NeverIn(f, t)
        /\ OnceOn(r, t, day) => OnceOn(f, t, day)
    BY FillShows
  <1> HIDE DEF f
  <1>3. /\ q \in Seq(Entry) /\ Len(q) = Len(f) + 1 /\ Len(f) \in Nat
        /\ \A i \in 1..Len(f) : q[i] = f[i]
        /\ q[Len(f) + 1] = e
    BY <1>1
  <1> HIDE DEF q
  <1>4. ASSUME t \notin amount
        PROVE  /\ NeverIn(r, t) => NeverIn(q, t)
               /\ OnceOn(r, t, day) => OnceOn(q, t, day)
    <2>1. \A i \in (Len(f) + 1)..Len(q) : t \notin q[i].amount
      BY <1>3, <1>4
    <2> QED BY <1>1, <1>2, <1>3, <2>1, SeriesKeep
  <1>5. ASSUME t \in amount, NeverIn(r, t)
        PROVE  OnceOn(q, t, to)
    <2>1. DOMAIN q = 1..(Len(f) + 1) /\ DOMAIN f = 1..Len(f)
      BY <1>1, <1>3
    <2>2. \A i \in 1..Len(f) : t \notin q[i].amount
      BY <2>1, <1>2, <1>3, <1>5 DEF NeverIn
    <2>3. t \in q[Len(f) + 1].amount /\ q[Len(f) + 1].day = to
      BY <1>3, <1>5
    <2>4. {j \in DOMAIN q : t \in q[j].amount} = {Len(f) + 1}
      BY <2>1, <2>2, <2>3, <1>3
    <2> QED BY <2>1, <2>3, <2>4, <1>3 DEF OnceOn
  <1>6. PushBackRecord(r, amount, from, to) = q
    BY DEF PushBackRecord, f, q
  <1> QED BY <1>4, <1>5, <1>6

-----------------------------------------------------------------------------
(* What a series shows *)

\* A statement's rows give every transaction of T to the row of its day.
Shows(result, field, T, day) ==
    \E n \in Nat :
        /\ DOMAIN result = 1..n
        /\ \A i \in 1..n : /\ result[i].day \in Int
                           /\ result[i][field] = {t \in T : day[t] = result[i].day}
        /\ \A i, j \in 1..n : i # j => result[i].day # result[j].day
        /\ \A t \in T : \E i \in 1..n : result[i].day = day[t]

\* The loop shows every transaction of the rows once, on its day, in any order of
\* the rows.
LEMMA LoopShows ==
  ASSUME filter.from \in Int, NEW result, NEW field, NEW T \in SUBSET Trxs, NEW day,
         Shows(result, field, T, day), NEW t \in Trxs
  PROVE  LET q == Loop(result, field).records
         IN  /\ q \in Seq(Entry) /\ Loop(result, field).next \in Int
             /\ t \in T => OnceOn(q, t, day[t])
             /\ t \notin T => NeverIn(q, t)
  <1>1. PICK n \in Nat :
            /\ DOMAIN result = 1..n
            /\ \A i \in 1..n : /\ result[i].day \in Int
                               /\ result[i][field] = {u \in T : day[u] = result[i].day}
            /\ \A i, j \in 1..n : i # j => result[i].day # result[j].day
            /\ \A u \in T : \E i \in 1..n : result[i].day = day[u]
    BY DEF Shows
  <1>2. RowsOK(result, n, field)
    BY <1>1 DEF RowsOK
  <1>3. PICK L \in [0..n -> LoopState] : LoopsBy(L, result, n, field)
    BY <1>2, LoopByRows
  <1> DEFINE in(i) == t \in result[i][field]
             ok(k) == /\ \A i \in 1..k : in(i) => OnceOn(L[k].records, t, day[t])
                      /\ (\A i \in 1..k : ~in(i)) => NeverIn(L[k].records, t)
             Good == {k \in 0..n : ok(k)}
  <1>4. 0 \in Good
    BY <1>3 DEF LoopsBy, LoopStart, NeverIn
  <1>5. ASSUME NEW k \in 0..(n - 1), k \in Good PROVE k + 1 \in Good
    <2> DEFINE row == result[k + 1]
               r == L[k].records
               next == L[k].next
    <2>1. k + 1 \in 1..n /\ (k + 1) - 1 = k /\ k \in 0..n
      OBVIOUS
    <2>2. r \in Seq(Entry) /\ next \in Int
      BY <2>1 DEF LoopState
    <2>3. row.day \in Int /\ row[field] \in SUBSET Trxs
      BY <2>1, <1>2 DEF RowsOK
    <2>4. L[k + 1].records = PushBackRecord(r, row[field], next, row.day)
      <3>1. L[k + 1] = After(L[k], row, field)
        BY <2>1, <1>3 DEF LoopsBy
      <3> HIDE DEF row
      <3> QED BY <3>1 DEF After
    <2> HIDE DEF r, next
    <2>5. CASE in(k + 1)
      <3>1. t \in T /\ day[t] = row.day
        BY <2>1, <2>5, <1>1
      <3>2. \A i \in 1..k : ~in(i)
        BY <3>1, <2>1, <1>1
      <3>3. NeverIn(r, t)
        BY <3>2, <1>5 DEF r
      <3>4. OnceOn(L[k + 1].records, t, day[t])
        BY <3>1, <3>3, <2>2, <2>3, <2>4, <2>5, PushShows
      <3> QED BY <3>4, <2>1, <2>5
    <2>6. CASE ~in(k + 1)
      <3>1. /\ NeverIn(r, t) => NeverIn(L[k + 1].records, t)
            /\ OnceOn(r, t, day[t]) => OnceOn(L[k + 1].records, t, day[t])
        BY <2>2, <2>3, <2>4, <2>6, PushShows
      <3>2. ok(k)
        BY <1>5
      <3>3. \A i \in 1..(k + 1) : i \in 1..k \/ i = k + 1
        OBVIOUS
      <3> QED BY <3>1, <3>2, <3>3, <2>1, <2>6 DEF r
    <2> QED BY <2>5, <2>6
  <1>6. n \in Good
    <2> HIDE DEF Good
    <2>1. 0..n \subseteq Good
      BY <1>4, <1>5, CountingUp
    <2> QED BY <2>1
  <1>7. L[n].records \in Seq(Entry) /\ L[n].next \in Int
    BY <1>3 DEF LoopState
  <1>8. CASE t \in T
    <2>1. PICK i \in 1..n : result[i].day = day[t]
      BY <1>1, <1>8
    <2>2. in(i)
      BY <2>1, <1>1, <1>8
    <2> QED BY <2>2, <1>3, <1>6, <1>7, <1>8 DEF LoopsBy
  <1>9. CASE t \notin T
    <2>1. \A i \in 1..n : ~in(i)
      BY <1>1, <1>9
    <2> QED BY <2>1, <1>3, <1>6, <1>7, <1>9 DEF LoopsBy
  <1> QED BY <1>8, <1>9

\* Filling the last gap leaves what a series shows.
LEMMA SeriesShows ==
  ASSUME filter.from \in Int, NEW result, NEW field, NEW T \in SUBSET Trxs, NEW day,
         Shows(result, field, T, day), NEW from \in Int, NEW to \in Int, NEW t \in Trxs
  PROVE  LET q == FillRecords(Loop(result, field).records, from, to)
         IN  /\ t \in T => OnceOn(q, t, day[t])
             /\ t \notin T => NeverIn(q, t)
  BY LoopShows, FillShows

-----------------------------------------------------------------------------
(* Series without holes *)

\* The rows are of the range, in the order of their days.
InOrder(result, n) ==
    /\ \A i \in 1..n : filter.from <= result[i].day /\ result[i].day <= filter.to
    /\ \A i, j \in 1..n : i < j => result[i].day < result[j].day

\* A series has one entry per day, from the first one of the range to the day
\* before next.
Covers(series, next) ==
    /\ next = filter.from + Len(series)
    /\ \A i \in 1..Len(series) : series[i].day = filter.from + i - 1

\* A gap is filled day by day ...
LEMMA FillCovers ==
  ASSUME filter.from \in Int, NEW r \in Seq(Entry), NEW from \in Int, NEW to \in Int,
         Covers(r, from), from <= to
  PROVE  Covers(FillRecords(r, from, to), to)
  <1> DEFINE q == FillRecords(r, from, to)
  <1>1. /\ q \in Seq(Entry) /\ Len(q) = Len(r) + (to - from) /\ Len(r) \in Nat
        /\ \A i \in 1..Len(r) : q[i] = r[i]
        /\ \A i \in 1..(to - from) : q[Len(r) + i] = [day |-> from + i - 1, amount |-> {}]
    <2>1. Len(q) = Len(r) + (IF from < to THEN to - from ELSE 0)
      BY FillRecordsType
    <2>2. (IF from < to THEN to - from ELSE 0) = to - from
      OBVIOUS
    <2>3. q \in Seq(Entry) /\ \A i \in 1..Len(r) : q[i] = r[i]
      BY FillRecordsType
    <2>4. \A i \in 1..(to - from) : q[Len(r) + i] = [day |-> from + i - 1, amount |-> {}]
      BY FillRecordsType
    <2> HIDE DEF q
    <2>5. Len(r) \in Nat
      OBVIOUS
    <2>6. Len(q) = Len(r) + (to - from)
      BY <2>1, <2>2
    <2> QED BY <2>3, <2>4, <2>5, <2>6
  <1> HIDE DEF q
  <1>2. from = filter.from + Len(r)
    BY DEF Covers
  <1>3. ASSUME NEW i \in 1..Len(q) PROVE q[i].day = filter.from + i - 1
    <2>1. CASE i \in 1..Len(r)
      BY <2>1, <1>1 DEF Covers
    <2>2. CASE i \notin 1..Len(r)
      <3> DEFINE j == i - Len(r)
      <3>1. j \in 1..(to - from) /\ i = Len(r) + j
        BY <2>2, <1>1
      <3> HIDE DEF j
      <3>2. q[Len(r) + j] = [day |-> from + j - 1, amount |-> {}]
        BY <3>1, <1>1
      <3> QED BY <3>1, <3>2, <1>1, <1>2
    <2> QED BY <2>1, <2>2
  <1> QED BY <1>1, <1>2, <1>3 DEF Covers, q

\* ... and the record of the row's day follows.
LEMMA PushCovers ==
  ASSUME filter.from \in Int, NEW r \in Seq(Entry), NEW from \in Int, NEW to \in Int,
         NEW amount \in SUBSET Trxs, Covers(r, from), from <= to
  PROVE  Covers(PushBackRecord(r, amount, from, to), to + 1)
  <1> DEFINE f == FillRecords(r, from, to)
             e == [day |-> to, amount |-> amount]
             q == Append(f, e)
  <1>1. f \in Seq(Entry) /\ e \in Entry
    BY FillRecordsType DEF Entry
  <1>2. Covers(f, to)
    BY FillCovers
  <1> HIDE DEF f
  <1>3. /\ Len(q) = Len(f) + 1 /\ Len(f) \in Nat
        /\ \A i \in 1..Len(f) : q[i] = f[i]
        /\ q[Len(f) + 1].day = to
    BY <1>1
  <1> HIDE DEF q
  <1>4. Covers(q, to + 1)
    <2>1. to = filter.from + Len(f) /\ \A i \in 1..Len(f) : f[i].day = filter.from + i - 1
      BY <1>2 DEF Covers
    <2>2. \A i \in 1..Len(q) : i \in 1..Len(f) \/ i = Len(f) + 1
      BY <1>3
    <2>3. ASSUME NEW i \in 1..Len(q) PROVE q[i].day = filter.from + i - 1
      <3>1. CASE i \in 1..Len(f)
        BY <3>1, <2>1, <1>3
      <3>2. CASE i = Len(f) + 1
        <4>1. q[i].day = to
          BY <3>2, <1>3
        <4> QED BY <4>1, <3>2, <2>1, <1>3
      <3> QED BY <3>1, <3>2, <2>2
    <2> QED BY <2>1, <2>3, <1>3 DEF Covers
  <1> QED BY <1>4 DEF PushBackRecord, f, q

\* With the rows in order, the loop leaves no day out and ends after the last
\* row's day, whichever field it reads.
LEMMA LoopCovers ==
  ASSUME filter.from \in Int, filter.to \in Int,
         NEW n \in Nat, NEW result, NEW field, RowsOK(result, n, field), InOrder(result, n)
  PROVE  LET end == Loop(result, field)
         IN  /\ end \in LoopState /\ Covers(end.records, end.next)
             /\ n # 0 => end.next <= filter.to + 1
             /\ end.next = IF n = 0 THEN filter.from ELSE result[n].day + 1
  <1>1. PICK L \in [0..n -> LoopState] : LoopsBy(L, result, n, field)
    BY LoopByRows
  <1> DEFINE ok(k) == /\ Covers(L[k].records, L[k].next)
                      /\ k # 0 => L[k].next <= filter.to + 1
                      /\ L[k].next = IF k = 0 THEN filter.from ELSE result[k].day + 1
             Good == {k \in 0..n : ok(k)}
  <1>2. 0 \in Good
    BY <1>1 DEF LoopsBy, LoopStart, Covers
  <1>3. ASSUME NEW k \in 0..(n - 1), k \in Good PROVE k + 1 \in Good
    <2> DEFINE row == result[k + 1]
               r == L[k].records
               next == L[k].next
    <2>1. k + 1 \in 1..n /\ (k + 1) - 1 = k /\ k \in 0..n /\ k + 1 # 0
      OBVIOUS
    <2>2. r \in Seq(Entry) /\ next \in Int
      BY <2>1 DEF LoopState
    <2>3. /\ row.day \in Int /\ row[field] \in SUBSET Trxs
          /\ filter.from <= row.day /\ row.day <= filter.to
      BY <2>1 DEF RowsOK, InOrder
    <2>4. L[k + 1] = After(L[k], row, field)
      BY <2>1, <1>1 DEF LoopsBy
    <2>5. /\ L[k + 1].records = PushBackRecord(r, row[field], next, row.day)
          /\ L[k + 1].next = row.day + 1
      <3> HIDE DEF row
      <3> QED BY <2>4 DEF After
    <2>6. next <= row.day
      <3>1. next = IF k = 0 THEN filter.from ELSE result[k].day + 1
        BY <1>3
      <3>2. k # 0 => result[k].day \in Int /\ result[k].day < row.day
        BY <2>1 DEF RowsOK, InOrder
      <3> HIDE DEF row, next
      <3> QED BY <3>1, <3>2, <2>2, <2>3
    <2>7. Covers(r, next)
      BY <1>3
    <2>8. ok(k + 1)
      <3>1. Covers(L[k + 1].records, L[k + 1].next)
        <4> HIDE DEF row, r, next
        <4> QED BY <2>2, <2>3, <2>5, <2>6, <2>7, PushCovers
      <3> QED BY <3>1, <2>1, <2>3, <2>5
    <2> QED BY <2>1, <2>8
  <1>4. n \in Good
    <2> HIDE DEF Good
    <2>1. 0..n \subseteq Good
      BY <1>2, <1>3, CountingUp
    <2> QED BY <2>1
  <1> QED BY <1>1, <1>4 DEF LoopsBy

\* The last gap is filled up to the end of the range; a range that ends before
\* it starts has no day.
LEMMA SeriesCovers ==
  ASSUME filter.from \in Int, filter.to \in Int, NEW r \in Seq(Entry), NEW next \in Int,
         Covers(r, next), next <= filter.to + 1 \/ next = filter.from
  PROVE  CoversRange(FillRecords(r, next, filter.to + 1))
  <1> DEFINE q == FillRecords(r, next, filter.to + 1)
  <1>1. Cardinality(filter.from .. filter.to) =
            IF filter.from > filter.to THEN 0 ELSE filter.to - filter.from + 1
    BY FS_Interval
  <1>2. q \in Seq(Entry) /\ DOMAIN q = 1..Len(q)
    BY FillRecordsType
  <1>3. CASE next <= filter.to + 1
    <2>1. Covers(q, filter.to + 1)
      BY <1>3, FillCovers
    <2> HIDE DEF q
    <2>2. Len(q) = filter.to + 1 - filter.from /\ Len(q) \in Nat
      BY <1>2, <2>1 DEF Covers
    <2>3. Len(q) = Cardinality(filter.from .. filter.to)
      BY <1>1, <2>2
    <2> QED BY <1>2, <2>1, <2>3 DEF CoversRange, Covers, q
  <1>4. CASE next = filter.from /\ next > filter.to + 1
    <2>1. Len(r) = 0
      BY <1>4 DEF Covers
    <2>2. Len(q) = Len(r) + (IF next < filter.to + 1 THEN filter.to + 1 - next ELSE 0)
      BY FillRecordsType
    <2> HIDE DEF q
    <2>3. Len(q) = 0 /\ DOMAIN q = {}
      BY <2>1, <2>2, <1>2, <1>4
    <2> QED BY <1>1, <1>4, <2>3 DEF CoversRange, q
  <1> QED BY <1>3, <1>4

-----------------------------------------------------------------------------
(* The statements of the chart *)

\* The sequences of a finite set list each of its elements once.
LEMMA SeqOfSet ==
  ASSUME NEW S, IsFiniteSet(S), NEW q \in SetToSeqs(S)
  PROVE  LET n == Cardinality(S)
         IN  /\ n \in Nat /\ DOMAIN q = 1..n
             /\ \A i \in 1..n : q[i] \in S
             /\ \A i, j \in 1..n : i # j => q[i] # q[j]
             /\ \A x \in S : \E i \in 1..n : q[i] = x
  <1> DEFINE n == Cardinality(S)
             D == 1..n
  <1>1. n \in Nat
    BY FS_CardinalityType
  <1>2. q \in [D -> S] /\ \A i, j \in D : i # j => q[i] # q[j]
    BY DEF SetToSeqs
  <1>3. q \in Injection(D, S)
    BY <1>2 DEF Injection, IsInjective
  <1>4. IsFiniteSet(D) /\ Cardinality(D) = n
    BY <1>1, FS_Interval
  <1> HIDE DEF D
  <1>5. q \in Surjection(D, S)
    BY <1>3, <1>4, FS_Injection
  <1>6. \A x \in S : \E i \in D : q[i] = x
    BY <1>5 DEF Surjection
  <1> QED BY <1>1, <1>2, <1>6 DEF D

\* The result lists a row for each of the days, in any order.
ListsDays(result, n, days, row) ==
    /\ DOMAIN result = 1..n
    /\ \A i \in 1..n : result[i].day \in days /\ result[i] = row[result[i].day]
    /\ \A i, j \in 1..n : i # j => result[i].day # result[j].day
    /\ \A d \in days : \E i \in 1..n : result[i].day = d

\* A statement that groups by day lists the days of the range that it has.
LEMMA RowsOfDays ==
  ASSUME filter.from \in Int, filter.to \in Int,
         NEW days \in SUBSET (filter.from .. filter.to), NEW row,
         \A d \in days : row[d].day = d,
         NEW result \in SetToSeqs({row[d] : d \in days})
  PROVE  \E n \in Nat : ListsDays(result, n, days, row)
  <1> DEFINE S == {row[d] : d \in days}
             n == Cardinality(S)
  <1>1. IsFiniteSet(days)
    BY FS_Interval, FS_Subset
  <1>2. IsFiniteSet(S)
    <2>1. [d \in days |-> row[d]] \in Surjection(days, S)
      BY DEF Surjection
    <2> HIDE DEF S
    <2> QED BY <1>1, <2>1, FS_Surjection
  <1>3. /\ n \in Nat /\ DOMAIN result = 1..n
        /\ \A i \in 1..n : result[i] \in S
        /\ \A i, j \in 1..n : i # j => result[i] # result[j]
        /\ \A x \in S : \E i \in 1..n : result[i] = x
    <2> HIDE DEF S
    <2>1. result \in SetToSeqs(S)
      BY DEF S
    <2> QED BY <1>2, <2>1, SeqOfSet
  <1> HIDE DEF n
  <1>4. \A i \in 1..n : result[i].day \in days /\ result[i] = row[result[i].day]
    BY <1>3
  <1>5. ASSUME NEW d \in days PROVE \E i \in 1..n : result[i].day = d
    <2>1. PICK i \in 1..n : result[i] = row[d]
      BY <1>3
    <2> QED BY <2>1
  <1>6. \A i, j \in 1..n : i # j => result[i].day # result[j].day
    BY <1>3, <1>4
  <1> HIDE DEF S
  <1>7. ListsDays(result, n, days, row)
    BY <1>3, <1>4, <1>5, <1>6 DEF ListsDays
  <1> QED BY <1>3, <1>7

\* The transactions of affiliates that a table v has for the chart: those of a
\* status that were made in the range, those that were finished in it.
MadeInRange(v, statuses) ==
    {t \in Trxs : /\ v[t] # Null /\ v[t].affiliateId # Null /\ InRange(v[t].performed)
                  /\ v[t].performedRate \in Rated /\ v[t].status \in statuses}
FinishedInRange(v) ==
    {t \in Trxs : /\ v[t] # Null /\ v[t].affiliateId # Null /\ InRange(v[t].executed)
                  /\ v[t].executedRate \in Rated /\ v[t].status \in FinishedStatuses}

\* The days of the transactions.
MadeOn(v) == [t \in Trxs |-> v[t].performed]
FinishedOn(v) == [t \in Trxs |-> v[t].executed]

\* A page with a range has two days.
LEMMA RangeOfDays ==
  TablesOK /\ HasRange => filter.from \in Int /\ filter.to \in Int
  BY FiltersAssumption DEF TablesOK, HasRange

\* The chart's first statement shows the pending and the failed transactions, ...
LEMMA ChartRowsShow ==
  ASSUME TablesOK, HasRange, NEW result \in ChartRows
  PROVE  /\ Shows(result, "pending", MadeInRange(trx, PendingStatuses), MadeOn(trx))
         /\ Shows(result, "failed", MadeInRange(trx, FailedStatuses), MadeOn(trx))
         /\ \E n \in Nat : /\ RowsOK(result, n, "pending") /\ RowsOK(result, n, "failed")
                           /\ Sorted(result) => InOrder(result, n)
  <1> DEFINE T == {t \in Affiliated : InRange(trx[t].performed)}
             on(d) == {t \in T : trx[t].performed = d}
             days == {trx[t].performed : t \in T}
             row == [d \in days |-> [day |-> d, failed |-> Failed(on(d)), pending |-> Pending(on(d))]]
  <1>1. filter.from \in Int /\ filter.to \in Int
    BY RangeOfDays
  <1>2. ASSUME NEW t \in T
        PROVE  trx[t].performed \in filter.from .. filter.to
    <2>1. t \in Trxs /\ trx[t] # Null /\ InRange(trx[t].performed)
      BY DEF Affiliated, Made
    <2>2. trx[t] \in Traded
      BY <2>1 DEF TablesOK
    <2>3. trx[t].performed \in Int
      BY <2>2, DaysAssumption DEF Traded
    <2> QED BY <2>1, <2>3, <1>1, DaysAssumption DEF InRange
  <1>3. \A d \in days : row[d] = [day |-> d, failed |-> Failed(on(d)), pending |-> Pending(on(d))]
    OBVIOUS
  <1>4. result \in SetToSeqs({row[d] : d \in days})
    BY DEF ChartRows
  <1>5. days \in SUBSET (filter.from .. filter.to)
    BY <1>2
  <1>6. PICK n \in Nat : ListsDays(result, n, days, row)
    <2>1. \A d \in days : row[d].day = d
      BY <1>3
    <2> HIDE DEF row, days
    <2> QED BY <1>1, <1>4, <1>5, <2>1, RowsOfDays
  <1>7. ASSUME NEW i \in 1..n
        PROVE  /\ result[i].day \in filter.from .. filter.to
               /\ result[i].pending =
                     {t \in MadeInRange(trx, PendingStatuses) : MadeOn(trx)[t] = result[i].day}
               /\ result[i].failed =
                     {t \in MadeInRange(trx, FailedStatuses) : MadeOn(trx)[t] = result[i].day}
    <2> DEFINE d == result[i].day
    <2>1. d \in days /\ result[i].pending = Pending(on(d)) /\ result[i].failed = Failed(on(d))
      <3>1. d \in days /\ result[i] = row[d]
        BY <1>6 DEF ListsDays
      <3> HIDE DEF row, days, d
      <3>2. row[d] = [day |-> d, failed |-> Failed(on(d)), pending |-> Pending(on(d))]
        BY <3>1, <1>3
      <3> HIDE DEF on
      <3> QED BY <3>1, <3>2
    <2>2. d \in filter.from .. filter.to
      BY <2>1, <1>5
    <2> HIDE DEF d, days
    <2>3. Pending(on(d)) = {t \in MadeInRange(trx, PendingStatuses) : MadeOn(trx)[t] = d}
      BY DEF Pending, MadeInRange, MadeOn, Affiliated, Made
    <2>4. Failed(on(d)) = {t \in MadeInRange(trx, FailedStatuses) : MadeOn(trx)[t] = d}
      BY DEF Failed, MadeInRange, MadeOn, Affiliated, Made
    <2> QED BY <2>1, <2>2, <2>3, <2>4 DEF d
  <1>8. ASSUME NEW statuses, NEW t \in MadeInRange(trx, statuses)
        PROVE  \E i \in 1..n : result[i].day = MadeOn(trx)[t]
    <2>1. MadeOn(trx)[t] \in days
      BY DEF MadeInRange, MadeOn, Affiliated, Made
    <2> QED BY <2>1, <1>6 DEF ListsDays
  <1> HIDE DEF row, days
  <1>9. /\ Shows(result, "pending", MadeInRange(trx, PendingStatuses), MadeOn(trx))
        /\ Shows(result, "failed", MadeInRange(trx, FailedStatuses), MadeOn(trx))
    BY <1>1, <1>6, <1>7, <1>8 DEF Shows, ListsDays
  <1>10. RowsOK(result, n, "pending") /\ RowsOK(result, n, "failed")
    BY <1>1, <1>6, <1>7 DEF RowsOK, MadeInRange, ListsDays
  <1>11. Sorted(result) => InOrder(result, n)
    BY <1>1, <1>6, <1>7 DEF Sorted, InOrder, ListsDays
  <1> QED BY <1>9, <1>10, <1>11

\* ... its second the finished ones.
LEMMA FinishedRowsShow ==
  ASSUME TablesOK, HasRange, NEW result \in FinishedChartRows
  PROVE  /\ Shows(result, "finished", FinishedInRange(trx), FinishedOn(trx))
         /\ \E n \in Nat : /\ RowsOK(result, n, "finished")
                           /\ Sorted(result) => InOrder(result, n)
  <1> DEFINE T == {t \in Affiliated : InRange(trx[t].executed)}
             on(d) == {t \in T : trx[t].executed = d}
             days == {trx[t].executed : t \in T}
             row == [d \in days |-> [day |-> d, finished |-> Finished(on(d))]]
  <1>1. filter.from \in Int /\ filter.to \in Int
    BY RangeOfDays
  <1>2. ASSUME NEW t \in T
        PROVE  trx[t].executed \in filter.from .. filter.to
    <2>1. t \in Trxs /\ trx[t] # Null /\ InRange(trx[t].executed)
      BY DEF Affiliated, Made
    <2>2. trx[t] \in Traded
      BY <2>1 DEF TablesOK
    <2>3. trx[t].executed \in Int
      BY <2>1, <2>2, DaysAssumption DEF Traded, InRange
    <2> QED BY <2>1, <2>3, <1>1, DaysAssumption DEF InRange
  <1>3. \A d \in days : row[d] = [day |-> d, finished |-> Finished(on(d))]
    OBVIOUS
  <1>4. result \in SetToSeqs({row[d] : d \in days})
    BY DEF FinishedChartRows
  <1>5. days \in SUBSET (filter.from .. filter.to)
    BY <1>2
  <1>6. PICK n \in Nat : ListsDays(result, n, days, row)
    <2>1. \A d \in days : row[d].day = d
      BY <1>3
    <2> HIDE DEF row, days
    <2> QED BY <1>1, <1>4, <1>5, <2>1, RowsOfDays
  <1>7. ASSUME NEW i \in 1..n
        PROVE  /\ result[i].day \in filter.from .. filter.to
               /\ result[i].finished =
                     {t \in FinishedInRange(trx) : FinishedOn(trx)[t] = result[i].day}
    <2> DEFINE d == result[i].day
    <2>1. d \in days /\ result[i].finished = Finished(on(d))
      <3>1. d \in days /\ result[i] = row[d]
        BY <1>6 DEF ListsDays
      <3> HIDE DEF row, days, d
      <3>2. row[d] = [day |-> d, finished |-> Finished(on(d))]
        BY <3>1, <1>3
      <3> HIDE DEF on
      <3> QED BY <3>1, <3>2
    <2>2. d \in filter.from .. filter.to
      BY <2>1, <1>5
    <2> HIDE DEF d, days
    <2>3. Finished(on(d)) = {t \in FinishedInRange(trx) : FinishedOn(trx)[t] = d}
      BY DEF Finished, FinishedInRange, FinishedOn, Affiliated, Made
    <2> QED BY <2>1, <2>2, <2>3 DEF d
  <1>8. ASSUME NEW t \in FinishedInRange(trx)
        PROVE  \E i \in 1..n : result[i].day = FinishedOn(trx)[t]
    <2>1. FinishedOn(trx)[t] \in days
      BY DEF FinishedInRange, FinishedOn, Affiliated, Made
    <2> QED BY <2>1, <1>6 DEF ListsDays
  <1> HIDE DEF row, days
  <1> DEFINE F == FinishedInRange(trx)
             day == FinishedOn(trx)
  <1>9. \A i \in 1..n : /\ result[i].day \in Int
                       /\ result[i].finished = {t \in F : day[t] = result[i].day}
    BY <1>1, <1>7
  <1>10. \A t \in F : \E i \in 1..n : result[i].day = day[t]
    BY <1>8
  <1>11. DOMAIN result = 1..n /\ \A i, j \in 1..n : i # j => result[i].day # result[j].day
    BY <1>6 DEF ListsDays
  <1>12. F \in SUBSET Trxs
    BY DEF FinishedInRange
  <1> HIDE DEF F, day
  <1>13. Shows(result, "finished", F, day)
    BY <1>9, <1>10, <1>11 DEF Shows
  <1>14. RowsOK(result, n, "finished")
    BY <1>9, <1>11, <1>12 DEF RowsOK
  <1>15. Sorted(result) => InOrder(result, n)
    BY <1>1, <1>7, <1>11 DEF Sorted, InOrder
  <1> QED BY <1>13, <1>14, <1>15 DEF F, day

-----------------------------------------------------------------------------
(* The chart *)

\* The rows of the first statement, while the second is to be executed: they show
\* the transactions as they stood then.
RowsRead ==
    /\ Shows(rows, "pending", MadeInRange(before, PendingStatuses), MadeOn(before))
    /\ Shows(rows, "failed", MadeInRange(before, FailedStatuses), MadeOn(before))
    /\ \E n \in Nat : /\ RowsOK(rows, n, "pending") /\ RowsOK(rows, n, "failed")
                      /\ inOrder => InOrder(rows, n)

\* A transaction that was made stays the affiliate's and of its day, and a
\* finished one stays finished.
Follows(now, then) ==
    \A t \in Trxs : then[t] # Null =>
        /\ now[t] # Null
        /\ now[t].affiliateId = then[t].affiliateId /\ now[t].performed = then[t].performed
        /\ now[t].performedRate = then[t].performedRate
        /\ then[t].status = "FINISHED" => now[t].status = "FINISHED"

\* A finished transaction has the day on which it was executed.
FinishedHaveDay ==
    \A t \in Trxs : trx[t] # Null /\ trx[t].status = "FINISHED" => trx[t].executed # Null

\* While the second statement is to be executed the rows show the transactions as
\* they stood at the first, and payments went on from there; what is shown has the
\* properties.
ChartInv ==
    /\ FinishedHaveDay
    /\ pc = "finished" => Follows(trx, before) /\ (HasRange => RowsRead)
    /\ AmountsOnTheirDay /\ NothingMissed /\ PendingCoversRange

\* The three series show what the two statements selected, whatever the order of
\* the rows.
LEMMA ChartShows ==
  ASSUME TablesOK, HasRange, RowsRead, NEW result \in FinishedChartRows, NEW t \in Trxs
  PROVE  LET A == Chart(rows, result)
             shows(series, T, day) == IF t \in T THEN OnceOn(series, t, day[t]) ELSE NeverIn(series, t)
         IN  /\ shows(A.pending, MadeInRange(before, PendingStatuses), MadeOn(before))
             /\ shows(A.failed, MadeInRange(before, FailedStatuses), MadeOn(before))
             /\ shows(A.finished, FinishedInRange(trx), FinishedOn(trx))
  <1> DEFINE next == Loop(rows, "pending").next
             P == MadeInRange(before, PendingStatuses)
             F == MadeInRange(before, FailedStatuses)
             E == FinishedInRange(trx)
             series(r, field) == FillRecords(Loop(r, field).records, next, filter.to + 1)
             A == Chart(rows, result)
  <1>1. filter.from \in Int /\ filter.to \in Int
    BY RangeOfDays
  <1>2. A.pending = series(rows, "pending") /\ A.failed = series(rows, "failed")
        /\ A.finished = series(result, "finished")
    BY DEF Chart
  <1>3. /\ Shows(rows, "pending", P, MadeOn(before)) /\ P \in SUBSET Trxs
        /\ Shows(rows, "failed", F, MadeOn(before)) /\ F \in SUBSET Trxs
        /\ Shows(result, "finished", E, FinishedOn(trx)) /\ E \in SUBSET Trxs
    BY FinishedRowsShow DEF RowsRead, MadeInRange, FinishedInRange
  <1> HIDE DEF P, F, E, A
  <1>4. next \in Int /\ filter.to + 1 \in Int
    <2> DEFINE day == MadeOn(before)
    <2>1. Shows(rows, "pending", P, day) /\ P \in SUBSET Trxs
      BY <1>3
    <2> HIDE DEF day
    <2>2. Loop(rows, "pending").next \in Int
      BY <1>1, <2>1, LoopShows
    <2> QED BY <1>1, <2>2
  <1> HIDE DEF next
  <1>5. /\ t \in P => OnceOn(A.pending, t, MadeOn(before)[t])
        /\ t \notin P => NeverIn(A.pending, t)
    BY <1>1, <1>2, <1>3, <1>4, SeriesShows
  <1>6. /\ t \in F => OnceOn(A.failed, t, MadeOn(before)[t])
        /\ t \notin F => NeverIn(A.failed, t)
    BY <1>1, <1>2, <1>3, <1>4, SeriesShows
  <1>7. /\ t \in E => OnceOn(A.finished, t, FinishedOn(trx)[t])
        /\ t \notin E => NeverIn(A.finished, t)
    BY <1>1, <1>2, <1>3, <1>4, SeriesShows
  <1> QED BY <1>5, <1>6, <1>7 DEF P, F, E, A

\* Both loops over the first statement's rows end on the same day.
LEMMA ChartCovers ==
  ASSUME TablesOK, HasRange, RowsRead, inOrder, NEW result
  PROVE  /\ CoversRange(Chart(rows, result).pending)
         /\ CoversRange(Chart(rows, result).failed)
  <1> DEFINE pending == Loop(rows, "pending")
             failed == Loop(rows, "failed")
  <1>1. filter.from \in Int /\ filter.to \in Int
    BY RangeOfDays
  <1>2. PICK n \in Nat : RowsOK(rows, n, "pending") /\ RowsOK(rows, n, "failed") /\ InOrder(rows, n)
    BY DEF RowsRead
  <1>3. /\ pending \in LoopState /\ Covers(pending.records, pending.next)
        /\ n # 0 => pending.next <= filter.to + 1
        /\ pending.next = IF n = 0 THEN filter.from ELSE rows[n].day + 1
    BY <1>1, <1>2, LoopCovers
  <1>4. /\ failed \in LoopState /\ Covers(failed.records, failed.next)
        /\ failed.next = IF n = 0 THEN filter.from ELSE rows[n].day + 1
    BY <1>1, <1>2, LoopCovers
  <1>5. Chart(rows, result).pending = FillRecords(pending.records, pending.next, filter.to + 1)
        /\ Chart(rows, result).failed = FillRecords(failed.records, pending.next, filter.to + 1)
    BY DEF Chart
  <1> HIDE DEF pending, failed
  <1>6. /\ pending.records \in Seq(Entry) /\ failed.records \in Seq(Entry)
        /\ pending.next \in Int /\ failed.next = pending.next
        /\ pending.next <= filter.to + 1 \/ pending.next = filter.from
    BY <1>3, <1>4 DEF LoopState
  <1>7. CoversRange(FillRecords(pending.records, pending.next, filter.to + 1))
    BY <1>1, <1>3, <1>6, SeriesCovers
  <1>8. CoversRange(FillRecords(failed.records, pending.next, filter.to + 1))
    <2>1. Covers(failed.records, pending.next)
      BY <1>4, <1>6
    <2> QED BY <1>1, <1>6, <2>1, SeriesCovers
  <1> QED BY <1>5, <1>7, <1>8

\* A series that has a transaction once does not miss it.
LEMMA OnceIsIn ==
  ASSUME NEW series, NEW t, NEW day, OnceOn(series, t, day)
  PROVE  ~NeverIn(series, t)
  BY DEF OnceOn, NeverIn

\* The second statement completes the chart.
LEMMA ShowChartInv ==
  ASSUME TablesOK, ChartInv, FinishChart
  PROVE  AmountsOnTheirDay' /\ NothingMissed' /\ PendingCoversRange'
  <1>1. /\ pc = "finished" /\ UNCHANGED <<filter, rows, before, trx>>
        /\ \E result \in FinishedChartRows :
              /\ inOrder' = (inOrder /\ Sorted(result))
              /\ answer' = IF HasRange THEN Chart(rows, result) ELSE EmptyChart
    BY DEF FinishChart, traffic
  <1>2. HasRange' <=> HasRange
    BY <1>1 DEF HasRange
  <1>3. CASE ~HasRange
    BY <1>2, <1>3 DEF AmountsOnTheirDay, NothingMissed, PendingCoversRange, ChartShown
  <1>4. CASE HasRange
    <2>1. PICK result \in FinishedChartRows :
             inOrder' = (inOrder /\ Sorted(result)) /\ answer' = Chart(rows, result)
      BY <1>1, <1>4
    <2>2. RowsRead /\ Follows(trx, before) /\ FinishedHaveDay
      BY <1>1, <1>4 DEF ChartInv
    <2>3. ASSUME NEW day PROVE InRange(day)' <=> InRange(day)
      BY <1>1 DEF InRange
    <2> DEFINE shows(series, t, T, day) ==
                  IF t \in T THEN OnceOn(series, t, day[t]) ELSE NeverIn(series, t)
    <2>4. ASSUME NEW t \in Trxs
          PROVE  /\ shows(answer'.pending, t, MadeInRange(before, PendingStatuses), MadeOn(before))
                 /\ shows(answer'.failed, t, MadeInRange(before, FailedStatuses), MadeOn(before))
                 /\ shows(answer'.finished, t, FinishedInRange(trx), FinishedOn(trx))
      BY <1>4, <2>1, <2>2, ChartShows
    <2> HIDE DEF shows
    <2>5. AmountsOnTheirDay'
      <3> DEFINE first(t) == before[t] # Null /\ before[t].affiliateId # Null /\
                             before[t].performedRate \in Rated /\ InRange(before[t].performed)
                 second(t) == trx[t] # Null /\ trx[t].affiliateId # Null /\
                              trx[t].executedRate \in Rated /\ InRange(trx[t].executed)
                 agrees(series, t, in, day) == IF in THEN OnceOn(series, t, day) ELSE NeverIn(series, t)
      <3>1. ASSUME NEW t \in Trxs
            PROVE  /\ agrees(answer'.pending, t, first(t) /\ before[t].status \in PendingStatuses,
                             before[t].performed)
                   /\ agrees(answer'.failed, t, first(t) /\ before[t].status \in FailedStatuses,
                             before[t].performed)
                   /\ agrees(answer'.finished, t, second(t) /\ trx[t].status = "FINISHED",
                             trx[t].executed)
        BY <2>4 DEF shows, MadeInRange, FinishedInRange, MadeOn, FinishedOn, FinishedStatuses
      <3> QED BY <1>1, <2>3, <3>1 DEF AmountsOnTheirDay
    <2>6. ASSUME NEW t \in Trxs, before[t] # Null, before[t].affiliateId # Null,
                 InRange(trx[t].performed), trx[t].performedRate \in Rated,
                 trx[t].executed # Null => InRange(trx[t].executed) /\ trx[t].executedRate \in Rated
          PROVE  \E field \in {"finished", "failed", "pending"} : ~NeverIn(answer'[field], t)
      <3>1. /\ trx[t] # Null /\ trx[t].affiliateId = before[t].affiliateId
            /\ trx[t].performed = before[t].performed /\ trx[t].performedRate = before[t].performedRate
            /\ before[t].status = "FINISHED" => trx[t].status = "FINISHED"
        BY <2>2, <2>6 DEF Follows
      <3>2. CASE trx[t].status = "FINISHED"
        <4>1. t \in FinishedInRange(trx)
          BY <2>2, <2>6, <3>1, <3>2 DEF FinishedHaveDay, FinishedInRange, FinishedStatuses
        <4>2. ~NeverIn(answer'.finished, t)
          BY <2>4, <4>1, OnceIsIn DEF shows
        <4> QED BY <4>2
      <3>3. CASE before[t].status \in PendingStatuses
        <4>1. t \in MadeInRange(before, PendingStatuses)
          BY <2>6, <3>1, <3>3 DEF MadeInRange
        <4>2. ~NeverIn(answer'.pending, t)
          BY <2>4, <4>1, OnceIsIn DEF shows
        <4> QED BY <4>2
      <3>4. CASE before[t].status \in FailedStatuses
        <4>1. t \in MadeInRange(before, FailedStatuses)
          BY <2>6, <3>1, <3>4 DEF MadeInRange
        <4>2. ~NeverIn(answer'.failed, t)
          BY <2>4, <4>1, OnceIsIn DEF shows
        <4> QED BY <4>2
      <3>5. before[t].status \in Statuses
        BY <2>6 DEF TablesOK, Traded
      <3> QED BY <3>1, <3>2, <3>3, <3>4, <3>5 DEF Statuses, FinishedStatuses
    <2>7. PendingCoversRange'
      <3>1. inOrder' => inOrder
        BY <2>1
      <3>2. inOrder' => CoversRange(answer'.pending) /\ CoversRange(answer'.failed)
        BY <1>4, <2>1, <2>2, <3>1, ChartCovers
      <3> QED BY <1>1, <3>2 DEF PendingCoversRange, CoversRange
    <2>8. NothingMissed'
      BY <1>1, <2>3, <2>6 DEF NothingMissed
    <2> QED BY <2>5, <2>7, <2>8
  <1> QED BY <1>3, <1>4

\* While a page is not shown its properties say nothing.
LEMMA NotShown ==
  ASSUME ~ChartShown'
  PROVE  AmountsOnTheirDay' /\ NothingMissed' /\ PendingCoversRange'
  BY DEF AmountsOnTheirDay, NothingMissed, PendingCoversRange

\* Rows that were read stay what they were.
LEMMA RowsStay ==
  ASSUME UNCHANGED <<filter, rows, inOrder, before>>
  PROVE  RowsRead' <=> RowsRead
  BY DEF RowsRead, Shows, MadeInRange, MadeOn, RowsOK, InOrder, InRange


\* A payment that goes on follows what it was.
LEMMA PaymentsFollow ==
  ASSUME TablesOK, FinishedHaveDay, NEW t \in Trxs, Pay(t) \/ Progress(t)
  PROVE  /\ FinishedHaveDay'
         /\ Follows(trx, before) => Follows(trx', before)
  <1>1. \E now \in Traded :
           /\ trx' = [trx EXCEPT ![t] = now]
           /\ now.status = "FINISHED" => now.executed # Null
           /\ trx[t] # Null => /\ now.affiliateId = trx[t].affiliateId
                               /\ now.performed = trx[t].performed
                               /\ now.performedRate = trx[t].performedRate
                               /\ trx[t].status # "FINISHED"
    <2>1. CASE Pay(t)
      <3>1. PICK a \in AffiliateIds \cup {Null}, s \in {"PENDING", "PREAUTH_STARTED"}, d \in RateDays[today] :
               trx' = [trx EXCEPT ![t] = [affiliateId |-> a, status |-> s, performed |-> today,
                                          performedRate |-> d, executed |-> Null, executedRate |-> Null]]
        BY <2>1, IdsAssumption DEF Pay
      <3> DEFINE now == [affiliateId |-> a, status |-> s, performed |-> today,
                         performedRate |-> d, executed |-> Null, executedRate |-> Null]
      <3>2. d \in Int /\ today \in Days
        BY DaysAssumption DEF TablesOK
      <3>3. now \in Traded /\ now.status # "FINISHED"
        BY <3>2 DEF Traded, Statuses, PendingStatuses
      <3>4. trx[t] = Null
        BY <2>1 DEF Pay
      <3> QED BY <3>1, <3>3, <3>4
    <2>2. CASE Progress(t)
      BY <2>2, ProgressTo DEF TablesOK
    <2> QED BY <2>1, <2>2
  <1>2. PICK now \in Traded :
           /\ trx' = [trx EXCEPT ![t] = now]
           /\ now.status = "FINISHED" => now.executed # Null
           /\ trx[t] # Null => /\ now.affiliateId = trx[t].affiliateId
                               /\ now.performed = trx[t].performed
                               /\ now.performedRate = trx[t].performedRate
                               /\ trx[t].status # "FINISHED"
    BY <1>1
  <1>3. /\ trx'[t] = now /\ now # Null
        /\ \A u \in Trxs : u # t => trx'[u] = trx[u]
    BY <1>2, RowsAssumption DEF TablesOK
  <1>4. FinishedHaveDay'
    BY <1>2, <1>3 DEF FinishedHaveDay
  <1>5. Follows(trx, before) => Follows(trx', before)
    BY <1>2, <1>3 DEF Follows
  <1> QED BY <1>4, <1>5

\* One step per action.
LEMMA StepChart == TablesOK /\ ChartInv /\ [Next]_vars => ChartInv'
  <1> SUFFICES ASSUME TablesOK, ChartInv, [Next]_vars PROVE ChartInv'
    OBVIOUS
  <1>1. ASSUME pc # "shown", UNCHANGED page,
               FinishedHaveDay', Follows(trx, before) => Follows(trx', before)
        PROVE  ChartInv'
    <2>1. UNCHANGED <<pc, filter, rows, inOrder, before>>
      BY <1>1 DEF page
    <2>2. ~ChartShown' /\ (HasRange' <=> HasRange)
      BY <1>1, <2>1 DEF ChartShown, HasRange
    <2>3. pc' = "finished" => Follows(trx, before)'
      BY <1>1, <2>1 DEF ChartInv, Follows
    <2> QED BY <1>1, <2>1, <2>2, <2>3, NotShown, RowsStay DEF ChartInv
  <1>2. ASSUME NEW t \in Trxs, Pay(t) \/ Progress(t)
        PROVE  ChartInv'
    <2>1. pc # "shown" /\ UNCHANGED page
      BY <1>2 DEF Pay, Progress
    <2> QED BY <1>1, <1>2, <2>1, PaymentsFollow DEF ChartInv
  <1>3. CASE NextDay \/ \E u \in Users : Register(u) \/ ChangeActive(u)
    <2>1. pc # "shown" /\ UNCHANGED page /\ UNCHANGED trx
      BY <1>3 DEF NextDay, Register, ChangeActive
    <2>2. FinishedHaveDay'
      BY <2>1 DEF ChartInv, FinishedHaveDay
    <2> QED BY <1>1, <2>1, <2>2
  <1>4. ASSUME pc # "finished", pc' # "finished", ~ChartShown', UNCHANGED trx
        PROVE  ChartInv'
    BY <1>4, NotShown DEF ChartInv, FinishedHaveDay
  <1>5. CASE SelectChart
    <2>1. /\ pc' = "finished" /\ before' = trx /\ UNCHANGED <<trx, filter>>
          /\ \E result \in ChartRows : rows' = result /\ inOrder' = Sorted(result)
      BY <1>5 DEF SelectChart, traffic
    <2>2. FinishedHaveDay' /\ Follows(trx, before)'
      BY <2>1 DEF ChartInv, FinishedHaveDay, Follows
    <2>3. ASSUME HasRange' PROVE RowsRead'
      <3>1. HasRange
        BY <2>1, <2>3 DEF HasRange
      <3>2. PICK result \in ChartRows : rows' = result /\ inOrder' = Sorted(result)
        BY <2>1
      <3>3. /\ Shows(rows', "pending", MadeInRange(trx, PendingStatuses), MadeOn(trx))
            /\ Shows(rows', "failed", MadeInRange(trx, FailedStatuses), MadeOn(trx))
            /\ \E n \in Nat : /\ RowsOK(rows', n, "pending") /\ RowsOK(rows', n, "failed")
                              /\ inOrder' => InOrder(rows', n)
        BY <3>1, <3>2, ChartRowsShow
      <3>4. MadeOn(before)' = MadeOn(trx)
        BY <2>1 DEF MadeOn
      <3>5. /\ MadeInRange(before, PendingStatuses)' = MadeInRange(trx, PendingStatuses)
            /\ MadeInRange(before, FailedStatuses)' = MadeInRange(trx, FailedStatuses)
        BY <2>1 DEF MadeInRange, InRange, PendingStatuses, FailedStatuses
      <3>6. ASSUME NEW n \in Nat
            PROVE  InOrder(rows, n)' <=> InOrder(rows', n)
        BY <2>1 DEF InOrder
      <3> QED BY <3>3, <3>4, <3>5, <3>6 DEF RowsRead, Shows, RowsOK
    <2>4. ~ChartShown'
      BY <2>1 DEF ChartShown
    <2> QED BY <2>1, <2>2, <2>3, <2>4, NotShown DEF ChartInv
  <1>6. CASE FinishChart
    <2>1. pc' = "shown" /\ UNCHANGED trx
      BY <1>6 DEF FinishChart, traffic
    <2>2. FinishedHaveDay'
      BY <2>1 DEF ChartInv, FinishedHaveDay
    <2> QED BY <1>6, <2>1, <2>2, ShowChartInv DEF ChartInv
  <1>7. CASE SelectGrid
    BY <1>4, <1>7 DEF SelectGrid, ChartShown, traffic
  <1>8. CASE SelectSignUps
    BY <1>4, <1>8 DEF SelectSignUps, ChartShown, traffic
  <1>9. CASE SelectNonAffiliates
    <2>1. filter'.page # "chart"
      BY <1>9, PageOfStatement DEF SelectNonAffiliates
    <2> QED BY <1>4, <1>9, <2>1 DEF SelectNonAffiliates, ChartShown, traffic
  <1>10. CASE SelectTotals
    BY <1>4, <1>10 DEF SelectTotals, ChartShown, traffic
  <1>11. CASE UNCHANGED vars
    <2>1. UNCHANGED <<pc, filter, rows, inOrder, before, trx, answer>>
      BY <1>11 DEF vars
    <2>2. FinishedHaveDay' /\ (HasRange' <=> HasRange) /\ (Follows(trx, before)' <=> Follows(trx, before))
      BY <2>1 DEF ChartInv, FinishedHaveDay, HasRange, Follows
    <2>3. AmountsOnTheirDay' /\ NothingMissed' /\ PendingCoversRange'
      BY <2>1, <2>2 DEF ChartInv, AmountsOnTheirDay, NothingMissed, PendingCoversRange, ChartShown,
                        InRange, CoversRange
    <2> QED BY <2>1, <2>2, <2>3, RowsStay DEF ChartInv
  <1> QED BY <1>2, <1>3, <1>5, <1>6, <1>7, <1>8, <1>9, <1>10, <1>11 DEF Next

\* The invariant holds.
LEMMA ChartAlways == Spec => []ChartInv
  <1>1. Init => ChartInv
    <2>1. ASSUME Init PROVE FinishedHaveDay /\ pc # "finished" /\ ~ChartShown
      BY <2>1 DEF Init, FinishedHaveDay, ChartShown
    <2> QED BY <2>1 DEF ChartInv, AmountsOnTheirDay, NothingMissed, PendingCoversRange
  <1> QED BY <1>1, TablesAlways, StepChart, PTL DEF Spec

(***************************************************************************)
(* For any days, rates, transactions and filters, and any order of the     *)
(* rows: a series of the chart sums every transaction its statement        *)
(* selected in one record, the one of its day, and no other transaction,   *)
(* however payments progress between the statements (SelectChart,          *)
(* FillRecordsWithEmptyDatesForRange).                                     *)
(***************************************************************************)
THEOREM ChartShowsOnce == Spec => []AmountsOnTheirDay
  <1>1. ChartInv => AmountsOnTheirDay
    BY DEF ChartInv
  <1> QED BY <1>1, ChartAlways, PTL

(***************************************************************************)
(* A payment that was there when the chart was asked for, with its days in *)
(* the range, is in one of the three series, even when it ends between the *)
(* statements: the second one reads the finished payments after the first  *)
(* read the pending ones (SelectChart).                                    *)
(***************************************************************************)
THEOREM ChartMissesNothing == Spec => []NothingMissed
  <1>1. ChartInv => NothingMissed
    BY DEF ChartInv
  <1> QED BY <1>1, ChartAlways, PTL

(***************************************************************************)
(* With the rows in the order of their days, the pending and the failed    *)
(* series have one record for each day of the range, none twice and none   *)
(* left out; a range that ends before it starts has none (SelectChart,     *)
(* PushBackRecord).                                                        *)
(***************************************************************************)
THEOREM ChartCoversRange == Spec => []PendingCoversRange
  <1>1. ChartInv => PendingCoversRange
    BY DEF ChartInv
  <1> QED BY <1>1, ChartAlways, PTL

\* A series whose last gap does not start where the series ends has too many
\* records or too few.
LEMMA SeriesMisses ==
  ASSUME filter.from \in Int, filter.to \in Int, filter.from <= filter.to,
         NEW r \in Seq(Entry), NEW last \in Int, Covers(r, last),
         NEW next \in Int, next <= filter.to + 1, next # last
  PROVE  ~CoversRange(FillRecords(r, next, filter.to + 1))
  <1> DEFINE series == FillRecords(r, next, filter.to + 1)
  <1>1. Len(series) = Len(r) + (IF next < filter.to + 1 THEN filter.to + 1 - next ELSE 0)
    BY FillRecordsType
  <1>2. last = filter.from + Len(r) /\ Len(r) \in Nat
    BY DEF Covers
  <1>3. Cardinality(filter.from .. filter.to) = filter.to - filter.from + 1
    <2>1. Cardinality(filter.from .. filter.to) =
              IF filter.from > filter.to THEN 0 ELSE filter.to - filter.from + 1
      BY FS_Interval
    <2> QED BY <2>1
  <1> HIDE DEF series
  <1>4. Len(series) # Cardinality(filter.from .. filter.to)
    BY <1>1, <1>2, <1>3
  <1> QED BY <1>4 DEF CoversRange, series

\* The day after the last row of a result, or the first of the range.
EndOf(result) ==
    LET n == Cardinality(DOMAIN result)
    IN  IF n = 0 THEN filter.from ELSE result[n].day + 1

\* A loop ends with the iterator on that day.
LEMMA LoopEnds ==
  ASSUME filter.from \in Int, filter.to \in Int,
         NEW n \in Nat, NEW result, NEW field, RowsOK(result, n, field), InOrder(result, n)
  PROVE  /\ Loop(result, field).records \in Seq(Entry)
         /\ Covers(Loop(result, field).records, EndOf(result))
         /\ Loop(result, field).next = EndOf(result) /\ EndOf(result) \in Int
         /\ EndOf(result) <= filter.to + 1 \/ EndOf(result) = filter.from
  <1> DEFINE end == Loop(result, field)
  <1>1. /\ end \in LoopState /\ Covers(end.records, end.next)
        /\ n # 0 => end.next <= filter.to + 1
        /\ end.next = IF n = 0 THEN filter.from ELSE result[n].day + 1
    BY LoopCovers
  <1>2. Cardinality(DOMAIN result) = n
    BY FS_Interval DEF RowsOK
  <1> HIDE DEF end
  <1>3. end.records \in Seq(Entry) /\ end.next \in Int
    BY <1>1 DEF LoopState
  <1>4. end.next = EndOf(result)
    BY <1>1, <1>2 DEF EndOf
  <1> QED BY <1>1, <1>3, <1>4 DEF end

(***************************************************************************)
(* What is wrong with the finished series, whose last gap is filled from   *)
(* the date iterator of the loop over the other rows: even with all rows   *)
(* in the order of their days it covers the range exactly when the last    *)
(* rows of both statements are of one day or both have none (SelectChart). *)
(***************************************************************************)
THEOREM FinishedCoversIffSameEnd ==
  ASSUME TablesOK, HasRange, filter.from <= filter.to,
         NEW first \in ChartRows, Sorted(first), NEW second \in FinishedChartRows, Sorted(second)
  PROVE  CoversRange(Chart(first, second).finished) <=> EndOf(first) = EndOf(second)
  <1> DEFINE next == EndOf(first)
             last == EndOf(second)
             r == Loop(second, "finished").records
  <1>1. filter.from \in Int /\ filter.to \in Int
    BY RangeOfDays
  <1>2. /\ Loop(first, "pending").next = next /\ next \in Int
        /\ next <= filter.to + 1 \/ next = filter.from
    <2>1. PICK n \in Nat : RowsOK(first, n, "pending") /\ InOrder(first, n)
      BY ChartRowsShow
    <2> QED BY <1>1, <2>1, LoopEnds
  <1>3. r \in Seq(Entry) /\ Covers(r, last) /\ last \in Int
    <2>1. PICK m \in Nat : RowsOK(second, m, "finished") /\ InOrder(second, m)
      BY FinishedRowsShow
    <2> QED BY <1>1, <2>1, LoopEnds
  <1>4. Chart(first, second).finished = FillRecords(r, next, filter.to + 1)
    BY <1>2 DEF Chart
  <1> HIDE DEF next, last, r
  <1>5. next <= filter.to + 1
    BY <1>1, <1>2
  <1>6. next = last => CoversRange(FillRecords(r, next, filter.to + 1))
    BY <1>1, <1>2, <1>3, <1>5, SeriesCovers
  <1>7. next # last => ~CoversRange(FillRecords(r, next, filter.to + 1))
    BY <1>1, <1>2, <1>3, <1>5, SeriesMisses
  <1> QED BY <1>4, <1>6, <1>7 DEF next, last

-----------------------------------------------------------------------------
(* Types of the pages *)

\* The rows of a statement that groups by day are a sequence.
LEMMA SeqOfDays ==
  ASSUME filter.from \in Int, filter.to \in Int,
         NEW days \in SUBSET (filter.from .. filter.to), NEW row, NEW T, \A d \in days : row[d] \in T,
         NEW result \in SetToSeqs({row[d] : d \in days})
  PROVE  result \in Seq(T)
  <1> DEFINE S == {row[d] : d \in days}
             n == Cardinality(S)
  <1>1. IsFiniteSet(S)
    <2>1. IsFiniteSet(days)
      BY FS_Interval, FS_Subset
    <2>2. [d \in days |-> row[d]] \in Surjection(days, S)
      BY DEF Surjection
    <2> HIDE DEF S
    <2> QED BY <2>1, <2>2, FS_Surjection
  <1>2. n \in Nat /\ S \subseteq T
    BY <1>1, FS_CardinalityType
  <1>3. result \in [1..n -> S]
    BY DEF SetToSeqs
  <1> HIDE DEF S, n
  <1>4. result \in [1..n -> T]
    BY <1>2, <1>3
  <1> QED BY <1>2, <1>4

\* The rows of the chart's first statement.
LEMMA ChartRowsType ==
  ASSUME TablesOK, NEW result \in ChartRows
  PROVE  result \in Seq(ChartRow)
  <1> DEFINE T == {t \in Affiliated : InRange(trx[t].performed)}
             on(d) == {t \in T : trx[t].performed = d}
             days == {trx[t].performed : t \in T}
             row == [d \in days |-> [day |-> d, failed |-> Failed(on(d)), pending |-> Pending(on(d))]]
  <1>1. CASE ~HasRange
    BY <1>1 DEF ChartRows
  <1>2. CASE HasRange
    <2>1. filter.from \in Int /\ filter.to \in Int
      BY <1>2, RangeOfDays
    <2>2. ASSUME NEW t \in T
          PROVE  trx[t].performed \in Days /\ trx[t].performed \in filter.from .. filter.to
      <3>1. t \in Trxs /\ trx[t] # Null /\ InRange(trx[t].performed)
        BY DEF Affiliated, Made
      <3>2. trx[t].performed \in Days
        BY <3>1 DEF TablesOK, Traded
      <3>3. trx[t].performed \in Int
        BY <3>2, DaysAssumption
      <3> HIDE DEF T, row, days
      <3> QED BY <2>1, <3>1, <3>2, <3>3, DaysAssumption DEF InRange
    <2>3. days \in SUBSET (filter.from .. filter.to) /\ days \subseteq Days
      BY <2>2
    <2>4. result \in SetToSeqs({row[d] : d \in days})
      BY <1>2 DEF ChartRows
    <2>5. ASSUME NEW d \in days PROVE row[d] \in ChartRow
      <3>1. Failed(on(d)) \in SUBSET Trxs /\ Pending(on(d)) \in SUBSET Trxs
        BY DEF Failed, Pending, Affiliated, Made
      <3>2. row[d] = [day |-> d, failed |-> Failed(on(d)), pending |-> Pending(on(d))]
        OBVIOUS
      <3> HIDE DEF row, on, days
      <3> QED BY <2>3, <3>1, <3>2 DEF ChartRow
    <2> HIDE DEF row, days
    <2> QED BY <2>1, <2>3, <2>4, <2>5, SeqOfDays
  <1> QED BY <1>1, <1>2

\* What the second statement assembles are three series.
LEMMA ChartType ==
  ASSUME TablesOK, HasRange, rows \in Seq(ChartRow), NEW result \in FinishedChartRows
  PROVE  Chart(rows, result) \in [finished : Seq(Entry), failed : Seq(Entry), pending : Seq(Entry)]
  <1> DEFINE next == Loop(rows, "pending").next
             series(r, field) == FillRecords(Loop(r, field).records, next, filter.to + 1)
  <1>1. filter.from \in Int /\ filter.to \in Int
    BY RangeOfDays
  <1>2. ASSUME NEW n \in Nat, NEW r, NEW field, RowsOK(r, n, field)
        PROVE  Loop(r, field).records \in Seq(Entry) /\ Loop(r, field).next \in Int
    <2>1. PICK L \in [0..n -> LoopState] : LoopsBy(L, r, n, field)
      BY <1>1, <1>2, LoopByRows
    <2>2. Loop(r, field) = L[n] /\ L[n] \in LoopState
      BY <2>1 DEF LoopsBy
    <2> QED BY <2>2 DEF LoopState
  <1>3. /\ RowsOK(rows, Len(rows), "pending") /\ RowsOK(rows, Len(rows), "failed")
        /\ Len(rows) \in Nat
    <2>1. Len(rows) \in Nat /\ DOMAIN rows = 1..Len(rows)
      OBVIOUS
    <2>2. ASSUME NEW i \in 1..Len(rows)
          PROVE  /\ rows[i].day \in Int
                 /\ rows[i].pending \in SUBSET Trxs /\ rows[i].failed \in SUBSET Trxs
      <3>1. rows[i] \in ChartRow
        BY <2>1
      <3> QED BY <3>1, DaysAssumption DEF ChartRow
    <2> QED BY <2>1, <2>2 DEF RowsOK
  <1>4. PICK m \in Nat : RowsOK(result, m, "finished")
    BY FinishedRowsShow
  <1>5. /\ Loop(rows, "pending").records \in Seq(Entry) /\ next \in Int
        /\ Loop(rows, "failed").records \in Seq(Entry)
        /\ Loop(result, "finished").records \in Seq(Entry)
    BY <1>2, <1>3, <1>4
  <1>6. Chart(rows, result) = [finished |-> series(result, "finished"),
                               failed |-> series(rows, "failed"), pending |-> series(rows, "pending")]
    BY DEF Chart
  <1>7. /\ series(result, "finished") \in Seq(Entry)
        /\ series(rows, "failed") \in Seq(Entry) /\ series(rows, "pending") \in Seq(Entry)
    <2>1. filter.to + 1 \in Int
      BY <1>1
    <2> HIDE DEF next
    <2> QED BY <1>5, <2>1, FillRecordsType
  <1> HIDE DEF series
  <1> QED BY <1>6, <1>7

\* Sums of pairs.
LEMMA SumsType ==
  ASSUME NEW S, NEW J \in SUBSET (S \X Trxs)
  PROVE  Sums(J) \in SumsOf(S)
  <1> DEFINE of(T) == {p \in J : p[2] \in T}
  <1>1. Sums(J) = [pending |-> of(Pending(Made)), finished |-> of(Finished(Made)),
                   failed |-> of(Failed(Made))]
    BY DEF Sums
  <1>2. \A T : of(T) \in SUBSET (S \X Trxs)
    OBVIOUS
  <1> HIDE DEF of
  <1> QED BY <1>1, <1>2 DEF SumsOf

\* The rows of the grid.
LEMMA GridRowsType ==
  ASSUME NEW r \in GridRows
  PROVE  r \in GridRow
  <1>1. PICK p \in GridJoined : r = RowOf(<<p[1].affiliateId, p[1].name>>)
    BY GridRowsOf
  <1> DEFINE g == <<p[1].affiliateId, p[1].name>>
  <1>2. p[1] \in Accounts
    BY DEF GridJoined
  <1>3. g[1] \in AffiliateIds /\ g[2] \in Names
    BY <1>2, AccountsAssumption DEF Names
  <1> HIDE DEF g
  <1>4. Sums(PairsOf(g)) \in SumsOf(Accounts)
    <2>1. PairsOf(g) \in SUBSET (Accounts \X Trxs)
      BY DEF PairsOf, GridJoined, Affiliated, Made
    <2> QED BY <2>1, SumsType
  <1>5. r = [affiliateId |-> g[1], name |-> g[2], sums |-> Sums(PairsOf(g))]
    BY <1>1 DEF g, RowOf
  <1> QED BY <1>3, <1>4, <1>5 DEF GridRow

\* A page of the grid.
LEMMA ExtractedType ==
  ASSUME TablesOK, rows \in SUBSET GridRow, NEW garbage \in [AffiliateIds -> Garbage]
  PROVE  Extracted(NonAffiliates, rows, garbage)
            \in [others : SumsOf({Null}), rows : SUBSET [row : GridRow, signUps : Nat \cup Garbage]]
  <1> DEFINE found(r) == IF r.affiliateId \in DOMAIN signUps
                         THEN signUps[r.affiliateId] ELSE garbage[r.affiliateId]
             shown(r) == [row |-> r, signUps |-> found(r)]
  <1>1. Extracted(NonAffiliates, rows, garbage) = [others |-> NonAffiliates, rows |-> {shown(r) : r \in rows}]
    BY Zenon DEF Extracted
  <1>2. NonAffiliates \in SumsOf({Null})
    <2> DEFINE J == {Null} \X {t \in Made : trx[t].affiliateId = Null /\ GridRange(t)}
    <2>1. J \in SUBSET ({Null} \X Trxs)
      BY DEF Made
    <2> HIDE DEF J
    <2>2. Sums(J) \in SumsOf({Null})
      BY <2>1, SumsType
    <2> QED BY <2>2 DEF NonAffiliates, J
  <1>3. ASSUME NEW r \in rows PROVE shown(r) \in [row : GridRow, signUps : Nat \cup Garbage]
    <2>1. r \in GridRow /\ r.affiliateId \in AffiliateIds
      BY DEF GridRow
    <2>2. \A i \in DOMAIN signUps : signUps[i] \in Nat
      BY DEF TablesOK
    <2>3. found(r) \in Nat \cup Garbage
      BY <2>1, <2>2
    <2> HIDE DEF found
    <2> QED BY <2>1, <2>3
  <1> HIDE DEF shown
  <1>4. {shown(r) : r \in rows} \in SUBSET [row : GridRow, signUps : Nat \cup Garbage]
    BY <1>3
  <1> QED BY <1>1, <1>2, <1>4

\* The total counts finitely many users and accounts.
LEMMA CountType == CountSignUps \in Nat
  <1> DEFINE J == {p \in Brought \X Accounts :
                      signUp[p[1]].affiliateId = p[2].affiliateId /\ Wanted(p[2])}
             strays == {u \in Brought : signUp[u].affiliateId \notin {a.affiliateId : a \in Accounts}}
                          \X {Null}
  <1>1. CountSignUps = Cardinality(IF filter.affiliateId = Null /\ Null \in filter.names
                                   THEN J \cup strays ELSE J)
    BY DEF CountSignUps
  <1>2. IsFiniteSet(Brought) /\ IsFiniteSet({Null})
    BY TablesAssumption, FS_Subset, FS_Singleton DEF Brought
  <1>3. IsFiniteSet(Brought \X Accounts) /\ IsFiniteSet(Brought \X {Null})
    BY <1>2, TablesAssumption, FS_Product
  <1>4. J \subseteq Brought \X Accounts /\ strays \subseteq Brought \X {Null}
    OBVIOUS
  <1> HIDE DEF J, strays
  <1>5. IsFiniteSet(J) /\ IsFiniteSet(J \cup strays)
    BY <1>3, <1>4, FS_Subset, FS_Union
  <1> QED BY <1>1, <1>5, FS_CardinalityType

\* One step per action.
LEMMA StepPage == TablesOK /\ PageOK /\ [Next]_vars => PageOK'
  <1> SUFFICES ASSUME TablesOK, PageOK, [Next]_vars PROVE PageOK'
    OBVIOUS
  <1> USE DEF PageOK
  <1>1. CASE \/ \E t \in Trxs : Pay(t) \/ Progress(t)
             \/ \E u \in Users : Register(u) \/ ChangeActive(u)
             \/ NextDay
    BY <1>1 DEF Pay, Progress, Register, ChangeActive, NextDay, page
  <1>2. CASE SelectChart
    <2>1. rows' \in Seq(ChartRow)
      BY <1>2, ChartRowsType DEF SelectChart
    <2> QED BY <1>2, <2>1 DEF SelectChart
  <1>3. CASE FinishChart
    <2>1. filter.page = "chart"
      BY <1>3, PageOfStatement DEF FinishChart
    <2>2. PICK result \in FinishedChartRows :
             answer' = IF HasRange THEN Chart(rows, result) ELSE EmptyChart
      BY <1>3 DEF FinishChart
    <2>3. EmptyChart \in [finished : Seq(Entry), failed : Seq(Entry), pending : Seq(Entry)]
      BY DEF EmptyChart
    <2>4. answer' \in [finished : Seq(Entry), failed : Seq(Entry), pending : Seq(Entry)]
      BY <2>1, <2>2, <2>3, ChartType
    <2> QED BY <1>3, <2>1, <2>4 DEF FinishChart
  <1>4. CASE SelectGrid
    <2>1. rows' \in SUBSET GridRow
      BY <1>4, RowsOfPage, GridRowsType DEF SelectGrid
    <2> QED BY <1>4, <2>1 DEF SelectGrid
  <1>5. CASE SelectSignUps
    BY <1>5 DEF SelectSignUps
  <1>6. CASE SelectNonAffiliates
    <2>1. filter.page = "grid"
      BY <1>6, PageOfStatement DEF SelectNonAffiliates
    <2>2. answer' \in [others : SumsOf({Null}),
                       rows : SUBSET [row : GridRow, signUps : Nat \cup Garbage]]
      BY <1>6, <2>1, ExtractedType DEF SelectNonAffiliates
    <2> QED BY <1>6, <2>1, <2>2 DEF SelectNonAffiliates
  <1>7. CASE SelectTotals
    BY <1>7, CountType DEF SelectTotals
  <1>8. CASE UNCHANGED vars
    BY <1>8 DEF vars
  <1> QED BY <1>1, <1>2, <1>3, <1>4, <1>5, <1>6, <1>7, <1>8 DEF Next

(***************************************************************************)
(* For any transactions, users, accounts and filters, whatever happens     *)
(* between the statements: the tables keep their types; a page executes    *)
(* only its own statements; the map of sign-ups never holds an affiliate   *)
(* with zero or with more sign-ups than users and accounts make; the rows  *)
(* of the first statement are a sequence of days or a set of affiliates;   *)
(* and what is shown is of the page asked for, every day of a series being *)
(* a number and every number of sign-ups a number or garbage               *)
(* (AffiliateTransactionListWork).                                         *)
(***************************************************************************)
THEOREM TypeCorrect == Spec => []TypeOK
  <1>1. Init => PageOK
    <2> SUFFICES ASSUME Init PROVE PageOK
      OBVIOUS
    <2>1. filter.page \in {"chart", "grid", "totals"} /\ <<>> \in Seq(ChartRow)
      BY FiltersAssumption DEF Init
    <2> QED BY <2>1 DEF Init, PageOK
  <1> QED BY <1>1, TablesAlways, StepPage, PTL DEF Spec, TypeOK
=============================================================================
