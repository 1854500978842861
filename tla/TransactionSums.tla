-------------------------- MODULE TransactionSums --------------------------
(***************************************************************************)
(* AmountLimitRulesWork::GetUserTransactionSumTotal: the sum of a user's   *)
(* transactions in one currency.  A first statement looks for days without *)
(* exchange rates, the rates service is asked for each of them, a second   *)
(* statement sums.  A sum is modelled by the set of transactions in it;    *)
(* the amount that the caller adds to it is left out.                      *)
(***************************************************************************)
EXTENDS TransactionTables

CONSTANT SumCalls    \* [user, currency, statuses] that sums are asked for

ASSUME SumCallsAssumption ==
    SumCalls \subseteq [user : Users, currency : Currencies, statuses : SUBSET Statuses]

VARIABLES
    sumOf,       \* the running call, or Null
    days,        \* days whose rates it still asks for
    known        \* history: transactions it wanted from its first statement on

summing == <<sumOf, days, known>>

SumInit == sumOf = Null /\ days = {} /\ known = {}

Rated(d, c) == <<d, c>> \in rates

Wanted(s) == {t \in Made : trx[t].user = s.user /\ trx[t].status \in s.statuses}

\* Mutant of MissingRateDates: the rate of the euro is not looked for.
MissingOwnRateDates(s) ==
    {trx[t].day : t \in {u \in Wanted(s) : ~Rated(trx[u].day, trx[u].currency)}}

MissingRateDates(s) ==
    {trx[t].day : t \in {u \in Wanted(s) : \/ ~Rated(trx[u].day, trx[u].currency)
                                           \/ ~Rated(trx[u].day, "EUR")}}

\* An empty list of statuses is refused before the first statement.
BeginSum(s) ==
    /\ sumOf = Null /\ s.statuses # {}
    /\ sumOf' = s
    /\ days' = MissingRateDates(s)
    /\ known' = Wanted(s)
    /\ UNCHANGED tables

EndSum == sumOf' = Null /\ days' = {} /\ known' = {}

\* ExchangeRates::EnsureRateAvailability(d), external: the rates of the day are
\* stored for every currency, or it throws and the call ends.
EnsureRateAvailability(d) ==
    /\ d \in days
    /\ \/ /\ rates' = rates \cup ({d} \X Currencies)
          /\ days' = days \ {d}
          /\ UNCHANGED <<trx, broughtBy, accounts, sumOf, known>>
       \/ EndSum /\ UNCHANGED tables

\* The inner joins of the second statement.
Summed(s) ==
    {t \in Wanted(s) : Rated(trx[t].day, trx[t].currency) /\ Rated(trx[t].day, s.currency)}

\* The call returns Summed(sumOf).
SelectSum == sumOf # Null /\ days = {} /\ EndSum /\ UNCHANGED tables

Sum == (\E d \in Days : EnsureRateAvailability(d)) \/ SelectSum

\* The tables change under the call.
WatchSum ==
    /\ UNCHANGED <<sumOf, days>>
    /\ known' = {t \in known : trx'[t] = trx[t]}
=============================================================================
