------------------------- MODULE TransactionTables -------------------------
(***************************************************************************)
(* The tables that the lists of affiliates and the sums of transactions    *)
(* are read from, and what goes on in them meanwhile.  Transactions of all *)
(* affiliates are rows of transaction_info; the view affiliate_tx_view is  *)
(* declared by no migration of the repository and stands for the same rows *)
(* joined with their users.                                                *)
(***************************************************************************)
EXTENDS Integers, FiniteSets

CONSTANTS
    Users,
    AffiliateIds,
    Null,            \* SQL NULL, std::nullopt, no row
    Currencies, Days,
    Fees,
    TrxIds,          \* ids of transactions, 1..n
    NewTrxs,         \* transactions the users make
    Ends,            \* statuses in which they end
    AccountIds,      \* ids of accounts
    NewAccounts,     \* accounts that are opened
    FirstAccounts,   \* what the table of accounts may hold at first
    FirstRates       \* what the table of exchange rates may hold at first

\* The first migration's type has the first three; the statements name all.
Statuses ==
    {"PENDING", "FINISHED", "FAILED", "PREAUTH_STARTED", "PREAUTH_FINISHED", "PREAUTH_CANCELLED"}

Trx ==
    [user : Users, affiliateId : AffiliateIds \cup {Null}, currency : Currencies,
     day : Days, status : Statuses]

Account ==
    [affiliateId : AffiliateIds, inviter : AffiliateIds \cup {Null}, fee : Fees]

ASSUME TablesAssumption ==
    /\ IsFiniteSet(TrxIds) /\ TrxIds = 1..Cardinality(TrxIds)
    /\ IsFiniteSet(AccountIds) /\ AccountIds \subseteq Nat /\ Fees \subseteq Nat
    /\ Null \notin AffiliateIds
    /\ NewTrxs \subseteq Trx /\ Ends \subseteq Statuses
    /\ NewAccounts \subseteq Account
    /\ FirstAccounts \subseteq [AccountIds -> Account \cup {Null}]
    /\ FirstRates \subseteq SUBSET (Days \X Currencies)
    /\ "EUR" \in Currencies

VARIABLES
    trx,         \* transaction_info
    broughtBy,   \* user_account_info.affiliate_id
    accounts,    \* affiliate_info
    rates        \* exchange_rate: the days and currencies that have one

tables == <<trx, broughtBy, accounts, rates>>

TablesOK ==
    /\ trx \in [TrxIds -> Trx \cup {Null}]
    /\ broughtBy \in [Users -> AffiliateIds \cup {Null}]
    /\ accounts \in [AccountIds -> Account \cup {Null}]
    /\ rates \subseteq Days \X Currencies

Made == {t \in TrxIds : trx[t] # Null}
Opened == {r \in AccountIds : accounts[r] # Null}

TablesInit ==
    /\ trx = [t \in TrxIds |-> Null]
    /\ broughtBy = [u \in Users |-> Null]
    /\ accounts \in FirstAccounts
    /\ rates \in FirstRates

\* The next id of the sequence.
MakeTrx(new) ==
    /\ Made # TrxIds
    /\ trx' = [trx EXCEPT ![Cardinality(Made) + 1] = new]
    /\ UNCHANGED <<broughtBy, accounts, rates>>

EndTrx(t, status) ==
    /\ t \in Made /\ trx[t].status \notin {"FINISHED", "FAILED", "PREAUTH_CANCELLED"}
    /\ trx' = [trx EXCEPT ![t].status = status]
    /\ UNCHANGED <<broughtBy, accounts, rates>>

\* A user follows an affiliate's link.
Bring(u, a) ==
    /\ broughtBy' = [broughtBy EXCEPT ![u] = a]
    /\ UNCHANGED <<trx, accounts, rates>>

\* AffiliateWork::Insert commits; the affiliate id may be taken by then.
OpenAccount(r, account) ==
    /\ r \notin Opened
    /\ accounts' = [accounts EXCEPT ![r] = account]
    /\ UNCHANGED <<trx, broughtBy, rates>>

\* Mutant of UpdateAccount: columns that are not given are emptied.
UpdateAllColumns(r, inviter, fee) ==
    /\ r \in Opened
    /\ accounts' = [accounts EXCEPT ![r].inviter = inviter, ![r].fee = fee]
    /\ UNCHANGED <<trx, broughtBy, rates>>

\* AffiliateWork::Update commits; a set column cannot be emptied.
UpdateAccount(r, inviter, fee) ==
    /\ r \in Opened
    /\ accounts' = [accounts EXCEPT
          ![r].inviter = IF inviter = Null THEN @ ELSE inviter,
          ![r].fee = IF fee = Null THEN @ ELSE fee]
    /\ UNCHANGED <<trx, broughtBy, rates>>

\* The rates of a day are stored one by one by whoever fetches them.
StoreRate(d, c) ==
    /\ rates' = rates \cup {<<d, c>>}
    /\ UNCHANGED <<trx, broughtBy, accounts>>

MakeOrEndTrx ==
    \/ \E new \in NewTrxs : MakeTrx(new)
    \/ \E t \in TrxIds, status \in Ends : EndTrx(t, status)

ChangeAffiliates ==
    \/ \E u \in Users, a \in AffiliateIds : Bring(u, a)
    \/ \E r \in AccountIds, account \in NewAccounts : OpenAccount(r, account)
    \/ \E r \in AccountIds, a \in AffiliateIds : UpdateAccount(r, a, Null)
    \/ \E r \in AccountIds, f \in Fees : UpdateAccount(r, Null, f)

StoreRates == \E d \in Days, c \in Currencies : StoreRate(d, c)
=============================================================================
