------------------------- MODULE TransactionReads -------------------------
(***************************************************************************)
(* The readers of the transaction tables, one list or one sum at a time,   *)
(* each taking several statements, while the tables change.               *)
(***************************************************************************)
EXTENDS AffiliateLists, TransactionSums

VARIABLE reader    \* what is read in this behaviour: "list" or "sum"

vars == <<tables, reading, summing, reader>>

\* Lists read no rates, and sums no accounts: what a reader does not read is
\* left alone while it reads.
Init ==
    /\ TablesInit /\ ListInit /\ SumInit
    /\ reader \in {"list", "sum"}
    /\ reader = "list" => rates = {}

NextOfList ==
    /\ reader = "list" /\ UNCHANGED <<summing, reader>>
    /\ \/ ReadList
       \/ \E q \in Queries : OpenList(q)
       \/ (MakeOrEndTrx \/ ChangeAffiliates) /\ WatchList

NextOfSum ==
    /\ reader = "sum" /\ UNCHANGED <<reading, reader>>
    /\ \/ Sum
       \/ \E s \in SumCalls : BeginSum(s)
       \/ (MakeOrEndTrx \/ StoreRates) /\ WatchSum

Next == NextOfList \/ NextOfSum

Spec == Init /\ [][Next]_vars

TypeOK ==
    /\ TablesOK /\ reader \in {"list", "sum"}
    /\ query \in Queries \cup {Null} /\ List!TypeOK
    /\ unseen \subseteq TrxIds \cup AccountIds
    /\ sumOf \in SumCalls \cup {Null} /\ days \subseteq Days /\ known \subseteq TrxIds

-----------------------------------------------------------------------------
(***************************************************************************)
(* A list read page by page shows every row that matched all along, though *)
(* each page takes a count and a select between which rows come, go, move  *)
(* to another affiliate or change their status; unless a matching row was  *)
(* lost, or one was gained between the two statements of the last page     *)
(* (AffiliateTransactionWork::Select, AffiliateWork::Count and Select).    *)
(***************************************************************************)
ListMissesNothing == List!MissesNothing

(***************************************************************************)
(* While affiliate ids are distinct, two affiliates see the same           *)
(* transaction only if one of them invited the other: so no commission is  *)
(* shown to more than an affiliate and his inviter                         *)
(* (AffiliateTransactionWork::GetSelectQuery).                             *)
(***************************************************************************)
DistinctIds ==
    \A q, r \in Opened : accounts[q].affiliateId = accounts[r].affiliateId => q = r

InvitedBy(b, a) ==
    \E r \in Opened : accounts[r].affiliateId = b /\ accounts[r].inviter = a

SharedByInvitation ==
    DistinctIds =>
        \A t \in Made, a, b \in AffiliateIds :
            Mine(a, t) /\ Mine(b, t) /\ a # b => InvitedBy(a, b) \/ InvitedBy(b, a)

(***************************************************************************)
(* A sum that is about to be returned has every transaction that the call  *)
(* found at first and still wants, save those whose day has no rate for    *)
(* the target currency; in euro it has all of them.  The rates that the    *)
(* first statement looked for stay good for the second, whoever stores     *)
(* rates and transactions in between (GetUserTransactionSumTotal).         *)
(***************************************************************************)
SumCountsKnown ==
    sumOf # Null /\ days = {} =>
        \A t \in known \ Summed(sumOf) :
            sumOf.currency # "EUR" /\ ~Rated(trx[t].day, sumOf.currency)
=============================================================================
