---------------------- MODULE TransactionReadsProofs ----------------------
(***************************************************************************)
(* What TransactionReads guarantees for any users, affiliates and rates,   *)
(* and for tables and pages of any size: types, whom a transaction is      *)
(* shown to, that sums and pages are complete.                             *)
(***************************************************************************)
EXTENDS TransactionReads, SetLemmas

-----------------------------------------------------------------------------
(* The assumptions on the constants, one by one *)

LEMMA RowsFinite ==
  /\ IsFiniteSet(TrxIds \cup AccountIds)
  /\ TrxIds \subseteq Int /\ AccountIds \subseteq Int
  <1>1. IsFiniteSet(TrxIds) /\ IsFiniteSet(AccountIds) /\ TrxIds = 1..Cardinality(TrxIds)
    BY TablesAssumption
  <1>2. AccountIds \subseteq Nat
    BY TablesAssumption
  <1>3. Cardinality(TrxIds) \in Nat
    BY <1>1, FS_CardinalityType
  <1>4. 1..Cardinality(TrxIds) \subseteq Int
    BY <1>3
  <1>5. IsFiniteSet(TrxIds \cup AccountIds)
    BY <1>1, FS_Union
  <1>6. TrxIds \subseteq Int
    BY <1>1, <1>4, Zenon
  <1>7. AccountIds \subseteq Int
    BY <1>2
  <1> QED BY <1>5, <1>6, <1>7, Zenon

\* PagedList counts as everybody does.
LEMMA SameCount == \A S : List!Cardinality(S) = Cardinality(S)
  BY DEF List!Cardinality, Cardinality

\* What the calls store.
LEMMA CallTypes ==
  /\ NewTrxs \subseteq Trx /\ Ends \subseteq Statuses /\ NewAccounts \subseteq Account
  BY TablesAssumption

\* What the tables hold at first.
LEMMA FirstTypes ==
  /\ FirstAccounts \subseteq [AccountIds -> Account \cup {Null}]
  /\ FirstRates \subseteq SUBSET (Days \X Currencies)
  BY TablesAssumption

-----------------------------------------------------------------------------
(* Types *)

\* A list has rows of one of the tables.
LEMMA MatchingRows ==
  Matching \subseteq TrxIds \cup AccountIds
  BY DEF Matching, Transactions, Accounts, Made, Opened

\* A new transaction, or a new status.
LEMMA TrxTablesType ==
  ASSUME TablesOK, MakeOrEndTrx
  PROVE  TablesOK' /\ rates' = rates
  <1>1. ASSUME NEW new \in NewTrxs, MakeTrx(new)
        PROVE  TablesOK' /\ rates' = rates
    <2>1. new \in Trx
      BY CallTypes
    <2> QED BY <1>1, <2>1 DEF MakeTrx, TablesOK
  <1>2. ASSUME NEW t \in TrxIds, NEW status \in Ends, EndTrx(t, status)
        PROVE  TablesOK' /\ rates' = rates
    <2>1. status \in Statuses
      BY CallTypes
    <2>2. trx[t] \in Trx
      BY <1>2 DEF EndTrx, Made, TablesOK
    <2>3. [trx[t] EXCEPT !.status = status] \in Trx
      BY <2>1, <2>2 DEF Trx
    <2>4. trx' = [trx EXCEPT ![t] = [trx[t] EXCEPT !.status = status]]
      BY <1>2 DEF EndTrx
    <2>5. trx' \in [TrxIds -> Trx \cup {Null}]
      BY <2>3, <2>4 DEF TablesOK
    <2> QED BY <1>2, <2>5 DEF EndTrx, TablesOK
  <1> QED BY <1>1, <1>2 DEF MakeOrEndTrx

\* Users come to affiliates, accounts are opened and edited.
LEMMA AffiliateTablesType ==
  ASSUME TablesOK, ChangeAffiliates
  PROVE  TablesOK'
  <1>1. ASSUME NEW u \in Users, NEW a \in AffiliateIds, Bring(u, a)
        PROVE  TablesOK'
    BY <1>1 DEF Bring, TablesOK
  <1>2. ASSUME NEW r \in AccountIds, NEW account \in NewAccounts, OpenAccount(r, account)
        PROVE  TablesOK'
    <2>1. account \in Account
      BY CallTypes
    <2> QED BY <1>2, <2>1 DEF OpenAccount, TablesOK
  <1>3. ASSUME NEW r \in AccountIds, NEW a \in AffiliateIds \cup {Null},
               NEW f \in Fees \cup {Null}, UpdateAccount(r, a, f)
        PROVE  TablesOK'
    <2> DEFINE inviter == IF a = Null THEN accounts[r].inviter ELSE a
               fee == IF f = Null THEN accounts[r].fee ELSE f
               account == [accounts[r] EXCEPT !.inviter = inviter, !.fee = fee]
    <2>1. accounts[r] \in Account
      BY <1>3 DEF UpdateAccount, Opened, TablesOK
    <2>2. inviter \in AffiliateIds \cup {Null} /\ fee \in Fees
      BY <2>1 DEF Account
    <2>3. account \in Account
      <3> HIDE DEF inviter, fee
      <3> QED BY <2>1, <2>2 DEF Account
    <2>4. accounts' = [accounts EXCEPT ![r] = account]
      BY <1>3, Zenon DEF UpdateAccount, TablesOK
    <2>5. accounts' \in [AccountIds -> Account \cup {Null}]
      <3> HIDE DEF account
      <3> QED BY <2>3, <2>4 DEF TablesOK
    <2> QED BY <1>3, <2>5 DEF UpdateAccount, TablesOK
  <1> QED BY <1>1, <1>2, <1>3 DEF ChangeAffiliates

\* More rates.
LEMMA RateTablesType ==
  ASSUME TablesOK, StoreRates
  PROVE  TablesOK'
  BY DEF TablesOK, StoreRates, StoreRate

\* What a list remembers has the right types, whatever is read.
LEMMA ListSteps ==
  ASSUME TypeOK, ReadList \/ WatchList \/ \E q \in Queries : OpenList(q)
  PROVE  /\ query' \in Queries \cup {Null} /\ List!TypeOK'
         /\ unseen' \subseteq TrxIds \cup AccountIds
  <1> USE DEF TypeOK, List!TypeOK
  <1>1. CASE WatchList
    BY <1>1 DEF WatchList, List!Watch
  <1>2. ASSUME NEW q \in Queries, OpenList(q)
        PROVE  /\ query' \in Queries \cup {Null} /\ List!TypeOK'
               /\ unseen' \subseteq TrxIds \cup AccountIds
    <2>1. Matching' \subseteq TrxIds \cup AccountIds
      BY DEF Matching, Transactions, Accounts, Made, Opened
    <2> QED BY <1>2, <2>1 DEF OpenList, List!Open
  <1>3. CASE List!CountRows /\ UNCHANGED query
    <2>1. Cardinality(Matching) \in Nat
      BY RowsFinite, MatchingRows, FS_Subset, FS_CardinalityType
    <2> QED BY <1>3, <2>1, SameCount DEF List!CountRows
  <1>4. CASE List!SelectPage /\ UNCHANGED query
    BY <1>4 DEF List!SelectPage
  <1>5. CASE List!Close /\ query' = Null
    BY <1>5 DEF List!Close
  <1> QED BY <1>1, <1>2, <1>3, <1>4, <1>5 DEF ReadList, ReadPage

\* The same for a sum.
LEMMA SumSteps ==
  ASSUME TypeOK, Sum \/ WatchSum \/ \E s \in SumCalls : BeginSum(s)
  PROVE  /\ sumOf' \in SumCalls \cup {Null} /\ days' \subseteq Days /\ known' \subseteq TrxIds
  <1>1. CASE WatchSum
    BY <1>1 DEF WatchSum, TypeOK
  <1>2. ASSUME NEW s \in SumCalls, BeginSum(s)
        PROVE  /\ sumOf' \in SumCalls \cup {Null} /\ days' \subseteq Days /\ known' \subseteq TrxIds
    <2>1. \A t \in Wanted(s) : t \in TrxIds /\ trx[t].day \in Days
      BY DEF Wanted, Made, TypeOK, TablesOK, Trx
    <2> QED BY <1>2, <2>1 DEF BeginSum, MissingRateDates
  <1>3. CASE Sum
    BY <1>3 DEF Sum, EnsureRateAvailability, SelectSum, EndSum, TypeOK
  <1> QED BY <1>1, <1>2, <1>3

\* The rates service leaves the tables well-typed.
LEMMA SumTables ==
  ASSUME TablesOK, Sum
  PROVE  TablesOK'
  BY DEF TablesOK, Sum, EnsureRateAvailability, SelectSum, tables

\* Nothing is read at first.
LEMMA InitType == Init => TypeOK
  <1> SUFFICES ASSUME Init PROVE TypeOK
    OBVIOUS
  <1>1. TablesOK
    BY FirstTypes DEF Init, TablesInit, TablesOK
  <1>2. List!TypeOK /\ query = Null /\ unseen = {}
    BY DEF Init, ListInit, List!Closed, List!TypeOK
  <1> QED BY <1>1, <1>2 DEF Init, SumInit, TypeOK

\* One step per reader and kind of step.
LEMMA StepType == TypeOK /\ [Next]_vars => TypeOK'
  <1> SUFFICES ASSUME TypeOK, [Next]_vars PROVE TypeOK'
    OBVIOUS
  <1>1. CASE NextOfList
    <2>1. TablesOK'
      <3>1. CASE UNCHANGED tables
        BY <3>1 DEF TypeOK, TablesOK, tables
      <3>2. CASE MakeOrEndTrx \/ ChangeAffiliates
        BY <3>2, TrxTablesType, AffiliateTablesType DEF TypeOK
      <3> QED BY <1>1, <3>1, <3>2 DEF NextOfList, ReadList, OpenList
    <2>2. /\ query' \in Queries \cup {Null} /\ List!TypeOK'
          /\ unseen' \subseteq TrxIds \cup AccountIds
      BY <1>1, ListSteps DEF NextOfList
    <2> QED BY <1>1, <2>1, <2>2 DEF NextOfList, summing, TypeOK
  <1>2. CASE NextOfSum
    <2>1. TablesOK'
      <3>1. CASE UNCHANGED tables
        BY <3>1 DEF TypeOK, TablesOK, tables
      <3>2. CASE MakeOrEndTrx \/ StoreRates \/ Sum
        BY <3>2, TrxTablesType, RateTablesType, SumTables DEF TypeOK
      <3> QED BY <1>2, <3>1, <3>2 DEF NextOfSum, BeginSum
    <2>2. /\ sumOf' \in SumCalls \cup {Null} /\ days' \subseteq Days /\ known' \subseteq TrxIds
      BY <1>2, SumSteps DEF NextOfSum
    <2> QED BY <1>2, <2>1, <2>2 DEF NextOfSum, reading, TypeOK, List!TypeOK
  <1>3. CASE UNCHANGED vars
    BY <1>3 DEF vars, tables, reading, summing, TypeOK, TablesOK, List!TypeOK
  <1> QED BY <1>1, <1>2, <1>3 DEF Next

(***************************************************************************)
(* Tables and readers keep their types, whatever goes on in the tables     *)
(* between two statements (AffiliateTransactionWork, AffiliateWork,        *)
(* GetUserTransactionSumTotal).                                            *)
(***************************************************************************)
THEOREM TypeCorrect == Spec => []TypeOK
  BY InitType, StepType, PTL DEF Spec

-----------------------------------------------------------------------------
(* Whom a transaction is shown to *)

\* Affiliates who have an account of the same id in their view are one inviter
\* and one invited.
LEMMA InvitedTogether ==
  ASSUME TypeOK, DistinctIds, NEW a, NEW b, a # b,
         NEW x \in Invited(a), x \in Invited(b)
  PROVE  InvitedBy(a, b) \/ InvitedBy(b, a)
  <1>1. PICK r \in Opened : accounts[r].affiliateId = x /\ a \in {accounts[r].inviter, x}
    BY DEF Invited
  <1>2. PICK s \in Opened : accounts[s].affiliateId = x /\ b \in {accounts[s].inviter, x}
    BY DEF Invited
  <1>3. r = s
    BY <1>1, <1>2 DEF DistinctIds
  <1> QED BY <1>1, <1>2, <1>3 DEF InvitedBy

\* Nobody is invited with the affiliate id NULL.
LEMMA InvitedIds ==
  ASSUME TypeOK, NEW a
  PROVE  Null \notin Invited(a)
  <1>1. \A r \in Opened : accounts[r] \in Account
    BY DEF Opened, TypeOK, TablesOK
  <1>2. Null \notin AffiliateIds
    BY TablesAssumption
  <1> QED BY <1>1, <1>2 DEF Invited, Account

\* A transaction has one affiliate, its own or its user's.
LEMMA Shared == TypeOK => SharedByInvitation
  <1> SUFFICES ASSUME TypeOK, DistinctIds, NEW t \in Made, NEW a \in AffiliateIds,
                      NEW b \in AffiliateIds, Mine(a, t), Mine(b, t), a # b
               PROVE  InvitedBy(a, b) \/ InvitedBy(b, a)
    BY DEF SharedByInvitation
  <1> DEFINE x == IF trx[t].affiliateId = Null THEN broughtBy[trx[t].user]
                  ELSE trx[t].affiliateId
  <1>1. x \in Invited(a) /\ x \in Invited(b)
    BY InvitedIds DEF Mine
  <1> QED BY <1>1, InvitedTogether

(***************************************************************************)
(* For any accounts, users and transactions: as long as affiliate ids are  *)
(* distinct, two affiliates see the same transaction only if one of them   *)
(* invited the other, whatever is NULL in the transaction and in the       *)
(* accounts (AffiliateTransactionWork::GetSelectQuery).                    *)
(***************************************************************************)
THEOREM SharedAmongInvited == Spec => []SharedByInvitation
  BY TypeCorrect, Shared, PTL

-----------------------------------------------------------------------------
(* Sums *)

\* Only one reader is at work.
OneReader ==
    /\ reader = "list" => sumOf = Null
    /\ reader = "sum" => query = Null

\* While a sum is under way, what it knows is still wanted, and every known
\* transaction whose day no longer waits for rates has those of its own
\* currency and of the euro.
SumInv ==
    sumOf # Null =>
        \A t \in known :
            /\ t \in Wanted(sumOf)
            /\ trx[t].day \notin days =>
                  Rated(trx[t].day, trx[t].currency) /\ Rated(trx[t].day, "EUR")

LEMMA StepReader == OneReader /\ [Next]_vars => OneReader'
  BY DEF OneReader, Next, NextOfList, NextOfSum, vars, reading, summing

\* The first statement finds the days without rates.
LEMMA BeginSumInv ==
  ASSUME TypeOK, NEW s \in SumCalls, BeginSum(s)
  PROVE  SumInv'
  <1>1. /\ sumOf' = s /\ days' = MissingRateDates(s) /\ known' = Wanted(s)
        /\ UNCHANGED <<trx, rates>>
    BY DEF BeginSum, tables
  <1>2. ASSUME NEW t \in Wanted(s), trx[t].day \notin MissingRateDates(s)
        PROVE  Rated(trx[t].day, trx[t].currency) /\ Rated(trx[t].day, "EUR")
    BY <1>2 DEF MissingRateDates
  <1> QED BY <1>1, <1>2 DEF SumInv, Wanted, Made, Rated

\* A day leaves the days to be asked for when it has all rates.
LEMMA RatesSumInv ==
  ASSUME TypeOK, SumInv, NEW d \in Days, d \in days,
         rates' = rates \cup ({d} \X Currencies), days' = days \ {d},
         UNCHANGED <<trx, sumOf, known>>
  PROVE  SumInv'
  <1> SUFFICES ASSUME sumOf # Null, NEW t \in known
               PROVE  /\ t \in Wanted(sumOf)
                      /\ trx[t].day \notin days \ {d} =>
                            Rated(trx[t].day, trx[t].currency)' /\ Rated(trx[t].day, "EUR")'
    BY DEF SumInv, Wanted, Made
  <1>1. t \in Wanted(sumOf) /\ trx[t] \in Trx
    BY DEF SumInv, Wanted, Made, TypeOK, TablesOK
  <1>2. trx[t].currency \in Currencies /\ "EUR" \in Currencies
    BY <1>1, TablesAssumption DEF Trx
  <1>3. CASE trx[t].day = d
    BY <1>1, <1>2, <1>3 DEF Rated
  <1>4. CASE trx[t].day # d
    BY <1>1, <1>4 DEF SumInv, Rated
  <1> QED BY <1>1, <1>3, <1>4

\* Transactions that change are known no longer; rates only come.
LEMMA WatchSumInv ==
  ASSUME TypeOK, SumInv, WatchSum, rates \subseteq rates'
  PROVE  SumInv'
  <1> SUFFICES ASSUME sumOf # Null, NEW t \in known'
               PROVE  /\ t \in Wanted(sumOf)'
                      /\ trx'[t].day \notin days =>
                            /\ <<trx'[t].day, trx'[t].currency>> \in rates'
                            /\ <<trx'[t].day, "EUR">> \in rates'
    BY DEF SumInv, WatchSum, Rated
  <1>1. t \in known /\ trx'[t] = trx[t] /\ UNCHANGED sumOf
    BY DEF WatchSum
  <1>2. t \in Wanted(sumOf)'
    BY <1>1 DEF SumInv, Wanted, Made
  <1> QED BY <1>1, <1>2 DEF SumInv, Rated

\* One step per statement, answer of the rates service and change of the tables.
LEMMA StepSum == TypeOK /\ OneReader /\ SumInv /\ [Next]_vars => SumInv'
  <1> SUFFICES ASSUME TypeOK, OneReader, SumInv, [Next]_vars PROVE SumInv'
    OBVIOUS
  <1>1. CASE NextOfList
    BY <1>1 DEF NextOfList, OneReader, summing, SumInv
  <1>2. CASE NextOfSum
    <2>1. ASSUME NEW s \in SumCalls, BeginSum(s)
          PROVE  SumInv'
      BY <2>1, BeginSumInv
    <2>2. ASSUME NEW d \in Days, EnsureRateAvailability(d)
          PROVE  SumInv'
      <3>1. CASE EndSum
        BY <3>1 DEF EndSum, SumInv
      <3>2. CASE ~EndSum
        BY <2>2, <3>2, RatesSumInv DEF EnsureRateAvailability
      <3> QED BY <3>1, <3>2
    <2>3. CASE SelectSum
      BY <2>3 DEF SelectSum, EndSum, SumInv
    <2>4. CASE (MakeOrEndTrx \/ StoreRates) /\ WatchSum
      <3>1. rates \subseteq rates'
        BY <2>4, TrxTablesType DEF TypeOK, StoreRates, StoreRate
      <3> QED BY <2>4, <3>1, WatchSumInv
    <2> QED BY <1>2, <2>1, <2>2, <2>3, <2>4 DEF NextOfSum, Sum
  <1>3. CASE UNCHANGED vars
    BY <1>3 DEF vars, tables, summing, SumInv, Wanted, Made, Rated
  <1> QED BY <1>1, <1>2, <1>3 DEF Next

(***************************************************************************)
(* For any number of days, currencies and transactions: a sum leaves out   *)
(* no transaction that it wanted from the start, save for lack of the      *)
(* target currency's rate, and none at all in euro, whoever stores rates   *)
(* and transactions in between (GetUserTransactionSumTotal).               *)
(***************************************************************************)
THEOREM SumsAreComplete == Spec => []SumCountsKnown
  <1>1. Init => OneReader /\ SumInv
    BY DEF Init, SumInit, ListInit, OneReader, SumInv
  <1>2. SumInv => SumCountsKnown
    BY DEF SumInv, SumCountsKnown, Summed
  <1> QED BY <1>1, <1>2, InitType, StepType, StepReader, StepSum, PTL DEF Spec

-----------------------------------------------------------------------------
(* Pages *)

\* An unseen row still matches and comes too late for the pages shown so far;
\* when the page is selected, the rows were counted, all of them.
ListInv ==
    /\ step = "closed" => pageNo = 0 /\ unseen = {}
    /\ unseen \subseteq Matching
    /\ \A i \in unseen : pageNo * PageSize <= Cardinality(Before(Matching, i))
    /\ step = "select" /\ ~grown => Cardinality(Matching) <= count
    /\ ListMissesNothing

\* The size of a page, and the places before one.
LEMMA PageSizes == PageSize \in Nat \ {0}
  BY PageSizeAssumption

LEMMA PagePlaces ==
  ASSUME TypeOK
  PROVE  /\ pageNo \in Nat /\ pageNo * PageSize \in Nat /\ (pageNo + 1) * PageSize \in Nat
         /\ 0 * PageSize = 0
  <1>1. pageNo \in Nat
    BY DEF TypeOK, List!TypeOK
  <1> QED BY <1>1, PageSizes, NextPagePlaces

\* A set of rows is finite, and its rows are numbered.
LEMMA RowsCounted ==
  ASSUME NEW S \in SUBSET (TrxIds \cup AccountIds)
  PROVE  S \in SUBSET Int /\ IsFiniteSet(S) /\ Cardinality(S) \in Nat
  BY RowsFinite, FS_Subset, FS_CardinalityType

\* Nothing that a list depends on changes.
LEMMA SameList ==
  ASSUME ListInv, UNCHANGED tables, UNCHANGED <<query, step, pageNo, count, unseen, grown>>
  PROVE  ListInv'
  <1>1. Matching' = Matching
    BY DEF tables, Matching, Transactions, Accounts, Made, Opened, OfStatus, Mine, Invited,
           AccountMatches, From, To, StartsWith
  <1> QED BY <1>1 DEF ListInv, ListMissesNothing, List!MissesNothing, List!Finished, Before

\* A list is opened: all that matches is unseen.
LEMMA OpenListInv ==
  ASSUME TypeOK, ListInv, NEW q \in Queries, OpenList(q)
  PROVE  ListInv'
  <1>1. /\ step' = "count" /\ pageNo' = 0 /\ unseen' = Matching'
    BY DEF OpenList, List!Open, ListInv
  <1>2. Matching' \subseteq TrxIds \cup AccountIds
    BY DEF Matching, Transactions, Accounts, Made, Opened
  <1>3. \A i : Cardinality(Before(Matching', i)) \in Nat
    BY <1>2, RowsCounted, BeforeGrows
  <1>4. 0 * PageSize = 0
    BY PagePlaces
  <1>5. \A i : 0 * PageSize <= Cardinality(Before(Matching', i))
    BY <1>3, <1>4
  <1> QED BY <1>1, <1>5 DEF ListInv, ListMissesNothing, List!MissesNothing, List!Finished

\* The rows are counted, and nothing is selected when there are none.
LEMMA CountRowsInv ==
  ASSUME TypeOK, ListInv, List!CountRows, UNCHANGED <<tables, query>>
  PROVE  ListInv'
  <1>1. Matching' = Matching
    BY DEF tables, Matching, Transactions, Accounts, Made, Opened, OfStatus, Mine, Invited,
           AccountMatches, From, To, StartsWith
  <1>2. /\ UNCHANGED <<pageNo, unseen>> /\ count' = Cardinality(Matching)
        /\ step' = IF Matching = {} THEN "shown" ELSE "select"
    BY SameCount DEF List!CountRows
  <1>3. Cardinality(Matching) <= count'
    BY <1>2, MatchingRows, RowsCounted
  <1>4. step' = "shown" => unseen' = {}
    BY <1>2 DEF ListInv
  <1> QED BY <1>1, <1>2, <1>3, <1>4
          DEF ListInv, ListMissesNothing, List!MissesNothing, List!Finished, Before

\* A page is selected: what it does not show comes later still, and on the last
\* page there is nothing later.
LEMMA SelectPageInv ==
  ASSUME TypeOK, ListInv, List!SelectPage, UNCHANGED <<tables, query>>
  PROVE  ListInv'
  <1>1. Matching' = Matching
    BY DEF tables, Matching, Transactions, Accounts, Made, Opened, OfStatus, Mine, Invited,
           AccountMatches, From, To, StartsWith
  <1>2. /\ step = "select" /\ step' = "shown" /\ pageNo' = pageNo + 1
        /\ unseen' = unseen \ List!Page(pageNo) /\ UNCHANGED <<count, grown>>
    BY DEF List!SelectPage
  <1> DEFINE before(i) == Cardinality(Before(Matching, i))
             next == (pageNo + 1) * PageSize
  <1>3. \A i : before(i) \in Nat
    BY MatchingRows, RowsCounted, BeforeGrows
  <1>4. \A i \in Matching : pageNo * PageSize <= before(i) /\ before(i) < next => i \in List!Page(pageNo)
    BY SameCount DEF List!Page, Before
  <1>5. next \in Nat /\ pageNo * PageSize \in Nat
    BY PagePlaces
  <1>6. ASSUME NEW i \in unseen'
        PROVE  i \in unseen /\ i \in Matching /\ next <= before(i)
    <2>1. i \in unseen /\ i \in Matching /\ pageNo * PageSize <= before(i)
      BY <1>2, <1>6 DEF ListInv
    <2>2. ~(before(i) < next)
      BY <1>2, <1>4, <1>6, <2>1
    <2> HIDE DEF before, next
    <2> QED BY <1>3, <1>5, <2>1, <2>2
  <1>7. ASSUME ~grown, next >= count
        PROVE  unseen' = {}
    <2> SUFFICES ASSUME NEW i \in unseen' PROVE FALSE
      OBVIOUS
    <2>1. before(i) < Cardinality(Matching)
      BY <1>6, MatchingRows, RowsCounted, BeforeIsFewer
    <2>2. Cardinality(Matching) \in Nat /\ Cardinality(Matching) <= count /\ count \in Nat
      BY <1>2, <1>7, MatchingRows, RowsCounted DEF ListInv, TypeOK, List!TypeOK
    <2>3. next <= before(i) /\ before(i) \in Nat
      BY <1>3, <1>6
    <2> HIDE DEF before, next
    <2> QED BY <1>5, <1>7, <2>1, <2>2, <2>3
  <1>8. ListMissesNothing'
    BY <1>2, <1>7 DEF ListMissesNothing, List!MissesNothing, List!Finished
  <1>9. \A i \in unseen' : pageNo' * PageSize <= Cardinality(Before(Matching', i))
    BY <1>1, <1>2, <1>6
  <1>10. unseen' \subseteq Matching'
    BY <1>1, <1>6
  <1> QED BY <1>2, <1>8, <1>9, <1>10 DEF ListInv

\* The tables change under the list: it grows, or a row is lost and nothing is
\* promised any more.
LEMMA WatchListInv ==
  ASSUME TypeOK, ListInv, WatchList
  PROVE  ListInv'
  <1>1. /\ UNCHANGED <<query, step, pageNo, count>>
        /\ unseen' = IF Matching \subseteq Matching' THEN unseen ELSE {}
        /\ grown' = (grown \/ (step = "select" /\ ~(Matching' \subseteq Matching)))
    BY DEF WatchList, List!Watch
  <1>2. Matching' \subseteq TrxIds \cup AccountIds
    BY DEF Matching, Transactions, Accounts, Made, Opened
  <1>3. unseen' \subseteq unseen
    BY <1>1
  <1>4. unseen' \subseteq Matching'
    BY <1>1 DEF ListInv
  <1>5. ASSUME NEW i \in unseen'
        PROVE  pageNo' * PageSize <= Cardinality(Before(Matching', i))
    <2> DEFINE was == Cardinality(Before(Matching, i))
               is == Cardinality(Before(Matching', i))
    <2>1. Matching \in SUBSET Matching' /\ i \in unseen
      BY <1>1, <1>5
    <2>2. IsFiniteSet(Matching')
      BY <1>2, RowsCounted
    <2>3. was \in Nat /\ was <= is
      BY <2>1, <2>2, BeforeGrows
    <2>4. is \in Nat
      BY <2>2, BeforeGrows
    <2>5. pageNo * PageSize <= was /\ pageNo * PageSize \in Nat
      BY <2>1, PagePlaces DEF ListInv
    <2> HIDE DEF was, is
    <2>6. pageNo * PageSize <= is
      BY <2>3, <2>4, <2>5
    <2> QED BY <1>1, <2>6 DEF is
  <1>6. ASSUME step = "select", ~grown'
        PROVE  Cardinality(Matching') <= count'
    <2>1. Matching' \subseteq Matching /\ ~grown
      BY <1>1, <1>6
    <2>2. Cardinality(Matching) <= count /\ count \in Nat
      BY <1>6, <2>1 DEF ListInv, TypeOK, List!TypeOK
    <2>3. Cardinality(Matching') <= Cardinality(Matching)
      BY <2>1, MatchingRows, RowsCounted, FS_Subset
    <2>4. Cardinality(Matching') \in Nat /\ Cardinality(Matching) \in Nat
      BY <1>2, MatchingRows, RowsCounted
    <2> QED BY <1>1, <2>2, <2>3, <2>4
  <1>7. ListMissesNothing'
    BY <1>1, <1>3 DEF ListInv, ListMissesNothing, List!MissesNothing, List!Finished
  <1> QED BY <1>1, <1>3, <1>4, <1>5, <1>6, <1>7 DEF ListInv

\* While a sum is read no list is open, and the tables may change as they like.
LEMMA NoListInv ==
  ASSUME TypeOK, ListInv, query = Null, UNCHANGED <<query, step, pageNo, count, unseen, grown>>
  PROVE  ListInv'
  <1>1. Matching = {} /\ Matching' = {}
    BY DEF Matching
  <1> QED BY <1>1 DEF ListInv, ListMissesNothing, List!MissesNothing, List!Finished, Before

\* One step per statement and kind of change.
LEMMA StepList == TypeOK /\ OneReader /\ ListInv /\ [Next]_vars => ListInv'
  <1> SUFFICES ASSUME TypeOK, OneReader, ListInv, [Next]_vars PROVE ListInv'
    OBVIOUS
  <1>1. CASE NextOfList
    <2>1. CASE ReadPage /\ UNCHANGED <<tables, query>>
      BY <2>1, CountRowsInv, SelectPageInv DEF ReadPage
    <2>2. CASE List!Close /\ query' = Null
      <3>1. Matching' = {}
        BY <2>2 DEF Matching
      <3> QED BY <2>2, <3>1 DEF List!Close, ListInv, ListMissesNothing, List!MissesNothing
    <2>3. ASSUME NEW q \in Queries, OpenList(q)
          PROVE  ListInv'
      BY <2>3, OpenListInv
    <2>4. CASE WatchList
      BY <2>4, WatchListInv
    <2> QED BY <1>1, <2>1, <2>2, <2>3, <2>4 DEF NextOfList, ReadList
  <1>2. CASE NextOfSum
    BY <1>2, NoListInv DEF NextOfSum, OneReader, reading
  <1>3. CASE UNCHANGED vars
    BY <1>3, SameList DEF vars, reading
  <1> QED BY <1>1, <1>2, <1>3 DEF Next

(***************************************************************************)
(* For any filter, tables of any size and pages of any length: reading     *)
(* page by page shows every row that matched all along, though the count   *)
(* and the page are two statements and rows come in between pages, unless  *)
(* a matching row was lost or one was gained between the two statements of *)
(* the last page (AffiliateTransactionWork::Select, AffiliateWork::Count   *)
(* and Select).                                                            *)
(***************************************************************************)
THEOREM ListsAreComplete == Spec => []ListMissesNothing
  <1>1. Init => OneReader /\ ListInv
    BY DEF Init, SumInit, ListInit, List!Closed, OneReader, ListInv, ListMissesNothing,
           List!MissesNothing, List!Finished
  <1>2. ListInv => ListMissesNothing
    BY DEF ListInv
  <1> QED BY <1>1, <1>2, InitType, StepType, StepReader, StepList, PTL DEF Spec
=============================================================================
