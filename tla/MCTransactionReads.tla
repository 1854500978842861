------------------------ MODULE MCTransactionReads ------------------------
(* An instance of TransactionReads for TLC. *)
EXTENDS TransactionReads, TLC

CONSTANTS u1, Nobody

New(affiliateId, currency, day) ==
    [user |-> u1, affiliateId |-> affiliateId, currency |-> currency, day |-> day,
     status |-> "PENDING"]

TwoTrxs == {New(11, "EUR", 1), New(Nobody, "USD", 2)}

\* Affiliate 1 has an account; later he gets an invited affiliate, or a second
\* account gets his id.
Acc(affiliateId, inviter) == [affiliateId |-> affiliateId, inviter |-> inviter, fee |-> 1]
OneAccount == {(1 :> Acc(1, Nobody) @@ 2 :> Nobody)}
Latecomers == {Acc(11, 1), Acc(1, Nobody)}

Prefixes == {<<1, 11>>}

\* Nothing is rated, or a day is half filled.
SomeRates == {{}, {<<1, "EUR">>, <<1, "USD">>}}

TrxList(a, statuses) == [of |-> "transactions", affiliateId |-> a, statuses |-> statuses]
AccList(inviterPart, affiliateIdPart, feeTo) ==
    [of |-> "accounts", id |-> Nobody, inviter |-> Nobody, inviterPart |-> inviterPart,
     affiliateId |-> Nobody, affiliateIdPart |-> affiliateIdPart, feeFrom |-> Nobody,
     feeTo |-> feeTo]
SomeQueries ==
    {TrxList(1, {}), TrxList(11, {"PENDING"}),
     AccList(1, Nobody, 1), AccList(Nobody, 1, Nobody)}

SomeSums ==
    {[user |-> u1, currency |-> c, statuses |-> {"PENDING", "FINISHED"}] : c \in {"EUR", "GBP"}}
=============================================================================
