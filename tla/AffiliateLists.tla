-------------------------- MODULE AffiliateLists --------------------------
(***************************************************************************)
(* The lists that affiliates and administrators read page by page: the     *)
(* transactions an affiliate brought, himself or by inviting others        *)
(* (AffiliateTransactionWork), and the accounts that match a filter        *)
(* (AffiliateWork::Count and Select).  Filters on columns that nothing     *)
(* here tells apart (names, wallet, dates, ...) are left out.              *)
(***************************************************************************)
EXTENDS TransactionTables

CONSTANTS
    PageSize,
    PrefixOf,    \* pairs <<p, a>>: the digits of p begin those of affiliate id a
    Queries      \* the lists asked for

ASSUME PageSizeAssumption == PageSize \in Nat \ {0}

VARIABLES query, step, pageNo, count, unseen, grown

-----------------------------------------------------------------------------
(* AffiliateTransactionWork::GetSelectQuery *)

\* The affiliates invited by a, including a: those that have an account.
Invited(a) ==
    {accounts[r].affiliateId : r \in {x \in Opened : a \in {accounts[x].inviter, accounts[x].affiliateId}}}

\* Mutant of Mine: a transaction without affiliate is everybody's.
MineOrNobodys(a, t) ==
    trx[t].affiliateId \in Invited(a) \/ trx[t].affiliateId = Null

\* Brought by one of them, or by nobody and made by a user of one of them.
Mine(a, t) ==
    \/ trx[t].affiliateId \in Invited(a)
    \/ trx[t].affiliateId = Null /\ broughtBy[trx[t].user] \in Invited(a)

\* BuildFilter of TransactionInfoWork: the statuses, if the filter has any.
OfStatus(f, t) == f.statuses = {} \/ trx[t].status \in f.statuses

Transactions(f) == {t \in Made : OfStatus(f, t) /\ Mine(f.affiliateId, t)}

-----------------------------------------------------------------------------
(* AffiliateWork::BuildFilter *)

From(bound, x) == bound # Null => bound <= x
To(bound, x) == bound # Null => x <= bound

\* "{}::text ILIKE '{}%'": NULL is like nothing.
StartsWith(x, part) == x # Null /\ (x = part \/ <<part, x>> \in PrefixOf)

AccountMatches(f, r) ==
    /\ f.id \in {Null, r}
    /\ f.inviter \in {Null, accounts[r].inviter}
    /\ f.inviterPart # Null => StartsWith(accounts[r].inviter, f.inviterPart)
    /\ f.affiliateId \in {Null, accounts[r].affiliateId}
    /\ f.affiliateIdPart # Null => StartsWith(accounts[r].affiliateId, f.affiliateIdPart)
    /\ From(f.feeFrom, accounts[r].fee) /\ To(f.feeTo, accounts[r].fee)

Accounts(f) == {r \in Opened : AccountMatches(f, r)}

-----------------------------------------------------------------------------
\* The rows of the list that is open.
Matching ==
    IF query = Null THEN {}
    ELSE IF query.of = "transactions" THEN Transactions(query) ELSE Accounts(query)

List == INSTANCE PagedList WITH matching <- Matching

reading == <<query, step, pageNo, count, unseen, grown>>

ListInit == query = Null /\ List!Closed

OpenList(q) ==
    /\ query = Null /\ query' = q
    /\ UNCHANGED tables
    /\ List!Open

\* AffiliateTransactionWork::Select is both statements; AffiliateWork::Count and
\* Select are called one after the other.
ReadPage == List!CountRows \/ List!SelectPage

ReadList ==
    /\ UNCHANGED tables
    /\ \/ ReadPage /\ UNCHANGED query
       \/ List!Close /\ query' = Null

WatchList == UNCHANGED query /\ List!Watch
=============================================================================
