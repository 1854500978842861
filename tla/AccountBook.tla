--------------------------- MODULE AccountBook ---------------------------
(***************************************************************************)
(* What AffiliateWork promises of the table affiliate_info, whatever order *)
(* the statements of its callers run in: a book of accounts, each with an  *)
(* e-mail and a balance.  A caller collects amounts for accounts and books *)
(* all of them at once, on top of the balances of that moment, or forgets  *)
(* them.  An account stays in the book, and no two share an e-mail.        *)
(***************************************************************************)
EXTENDS Integers

CONSTANTS Sessions, RowIds, Emails, NoRow

VARIABLES
    book,      \* the account of each row id, or NoRow
    credits    \* amounts each session has collected for each account

Entry == [email : Emails, balance : Int]

NoCredits == [r \in RowIds |-> 0]

Present(b) == {r \in RowIds : b[r] # NoRow}

Balance(r) == IF book[r] = NoRow THEN 0 ELSE book[r].balance

Init ==
    /\ book = [r \in RowIds |-> NoRow]
    /\ credits = [s \in Sessions |-> NoCredits]

\* Any amount, for one account.
Collect(s, r) ==
    /\ credits'[s][r] \in Int
    /\ credits' = [credits EXCEPT ![s][r] = credits'[s][r]]
    /\ UNCHANGED book

Forget(s) ==
    /\ credits' = [credits EXCEPT ![s] = NoCredits]
    /\ UNCHANGED book

\* The accounts in the book afterwards: those before, and perhaps new ones;
\* e-mails may have changed, balances only by the collected amounts, none of
\* which is lost.
Post(s) ==
    /\ book' \in [RowIds -> Entry \cup {NoRow}]
    /\ Present(book) \subseteq Present(book')
    /\ \A r \in Present(book') : book'[r].balance = Balance(r) + credits[s][r]
    /\ \A q, r \in Present(book') : q # r => book'[q].email # book'[r].email
    /\ \A r \in RowIds : credits[s][r] # 0 => r \in Present(book')
    /\ credits' = [credits EXCEPT ![s] = NoCredits]

Next ==
    \E s \in Sessions :
        \/ \E r \in RowIds : Collect(s, r)
        \/ Forget(s)
        \/ Post(s)

Spec == Init /\ [][Next]_<<book, credits>>
=============================================================================
