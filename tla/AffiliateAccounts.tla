------------------------ MODULE AffiliateAccounts ------------------------
(***************************************************************************)
(* The accounts of affiliates: AffiliateWork over the table affiliate_info.*)
(*                                                                         *)
(* A session is one caller's transaction.  Each Exec of the class is one   *)
(* SQL statement, atomic by itself, and the statements of several sessions *)
(* interleave.  The database is modelled as READ COMMITTED: a statement    *)
(* reads the rows committed when it starts and the session's own writes; a *)
(* row written by an unfinished session is locked; a unique column waits   *)
(* for an unfinished writer of the same value and fails on a finished one. *)
(* Columns that AffiliateWork copies one by one and that nothing here      *)
(* reads (names, wallet, status, ...) are left out.                        *)
(***************************************************************************)
EXTENDS Integers, FiniteSets

CONSTANTS
    Sessions,            \* callers' transactions
    NoSession,           \* no unfinished session holds the row
    Emails,
    AffiliateIds,        \* the range of the random generator, 1001..9999 in the code
    Fees,
    DefaultInviterFee,   \* column defaults of the migrations
    DefaultUserFee,
    Amounts,             \* amounts passed to UpdateBalance
    Attempts,            \* tries at a free affiliate id, 5 in the code
    MaxRow,              \* last value of the sequence affiliate_info_id_seq
    MaxBalance,          \* bound on the balances the callers drive a row to
    Unset,               \* std::nullopt
    NoRow,               \* no such row
    LookedUp,            \* affiliate ids passed to Get
    InsertAccounts,      \* accounts passed to Insert
    UpdateAccounts       \* accounts passed to Update besides those read before

RowIds == 1..MaxRow

\* data::Affiliate: every field is optional.
Account ==
    [id : RowIds \cup {Unset}, email : Emails \cup {Unset},
     affiliateId : AffiliateIds \cup {Unset}, fee : Fees \cup {Unset},
     inviterFee : Fees \cup {Unset}, userFee : Fees \cup {Unset},
     balance : Int \cup {Unset}]

NoAccount ==
    [id |-> Unset, email |-> Unset, affiliateId |-> Unset, fee |-> Unset,
     inviterFee |-> Unset, userFee |-> Unset, balance |-> Unset]

\* A row of affiliate_info.  The last two fields are history: whether the
\* affiliate id came from Insert or from Update, and the rows that Insert's
\* last check saw.
Row ==
    [email : Emails, affiliateId : AffiliateIds, fee : Fees, inviterFee : Fees,
     userFee : Fees, balance : Int, assigned : {"insert", "update"},
     seen : SUBSET RowIds]

ASSUME SessionsAssumption == NoSession \notin Sessions
ASSUME RangesAssumption ==
    /\ Attempts \in Nat \ {0} /\ MaxRow \in Nat /\ MaxBalance \in Nat
    /\ Amounts \subseteq Int
    /\ DefaultInviterFee \in Fees /\ DefaultUserFee \in Fees
ASSUME UnsetAssumption ==
    /\ Unset \notin Int /\ Unset \notin Emails
    /\ Unset \notin AffiliateIds /\ Unset \notin Fees
ASSUME NoRowAssumption == NoRow \notin Row /\ NoRow \notin [email : Emails, balance : Int]
ASSUME AccountsAssumption ==
    /\ InsertAccounts \subseteq Account /\ UpdateAccounts \subseteq Account
    /\ LookedUp \subseteq AffiliateIds

VARIABLES
    committed,   \* committed version of each row, or NoRow
    dirty,       \* latest version of each row, committed or not
    owner,       \* the unfinished session that wrote the latest version
    nextId,      \* the sequence; not transactional
    pc,          \* where the session is in its call
    call,        \* argument of the running call
    amount,      \* amount of the running UpdateBalance
    attempt,     \* Insert's loop counter i
    seen,        \* history: rows the last check of the running Insert saw
    read,        \* the account the caller keeps from its last Get
    ledger,      \* history: sum of the committed amounts of a row
    pending      \* history: sum of a session's uncommitted amounts of a row

rowVars == <<committed, dirty, owner, nextId>>
history == <<ledger, pending>>
vars == <<committed, dirty, owner, nextId, pc, call, amount, attempt, seen,
          read, ledger, pending>>

TypeOK ==
    /\ committed \in [RowIds -> Row \cup {NoRow}]
    /\ dirty \in [RowIds -> Row \cup {NoRow}]
    /\ owner \in [RowIds -> Sessions \cup {NoSession}]
    /\ nextId \in 1..(MaxRow + 1)
    /\ pc \in [Sessions -> {"open", "picking", "inserting", "updating",
                            "crediting", "failed"}]
    /\ call \in [Sessions -> Account]
    /\ amount \in [Sessions -> Int]
    /\ attempt \in [Sessions -> 0..(Attempts - 1)]
    /\ seen \in [Sessions -> SUBSET RowIds]
    /\ read \in [Sessions -> Account]
    /\ ledger \in [RowIds -> Int]
    /\ pending \in [Sessions -> [RowIds -> Int]]

-----------------------------------------------------------------------------
(* What a statement of a session sees, and what it has to wait for. *)

Visible(s, r) == IF owner[r] = s THEN dirty[r] ELSE committed[r]

VisibleRows(s) == {r \in RowIds : Visible(s, r) # NoRow}

\* Mutant of Exists: one row with the id is not enough.
ExistsTwice(s, id) == Cardinality({r \in VisibleRows(s) : Visible(s, r).affiliateId = id}) > 1

\* The affiliate id is held by a row the session sees.
Exists(s, id) == \E r \in VisibleRows(s) : Visible(s, r).affiliateId = id

\* The id of the row an Insert stores: the caller's, else the sequence's.
InsertId(s) == IF call[s].id # Unset THEN call[s].id ELSE nextId

\* The row the pending statement writes.
Target(s) == IF pc[s] = "inserting" THEN InsertId(s) ELSE call[s].id

\* The pending statement stores an e-mail.
StoresEmail(s) ==
    \/ pc[s] = "inserting"
    \/ pc[s] = "updating" /\ call[s].email # Unset /\ call[s].id \in VisibleRows(s)

EmailsOf(r) == {v.email : v \in {committed[r], dirty[r]} \ {NoRow}}

\* Rows of other unfinished sessions that the pending statement waits for.
Contended(s) ==
    {r \in RowIds :
        /\ owner[r] \notin {NoSession, s}
        /\ \/ pc[s] \in {"updating", "crediting"} /\ r = Target(s) /\ committed[r] # NoRow
           \/ pc[s] = "inserting" /\ r = Target(s)
           \/ StoresEmail(s) /\ call[s].email \in EmailsOf(r)}

WaitsFor(s, t) == \E r \in Contended(s) : owner[r] = t

\* Mutant of Violates: the column email is not UNIQUE.
ViolatesKeyOnly(s) ==
    pc[s] = "inserting" /\ Target(s) \notin RowIds \ VisibleRows(s)

\* The statement breaks PRIMARY KEY(id), UNIQUE(email) or ends the sequence.
Violates(s) ==
    \/ pc[s] = "inserting" /\ Target(s) \notin RowIds \ VisibleRows(s)
    \/ StoresEmail(s) /\ \E r \in VisibleRows(s) \ {Target(s)} :
                            Visible(s, r).email = call[s].email

-----------------------------------------------------------------------------
Init ==
    /\ committed = [r \in RowIds |-> NoRow]
    /\ dirty = [r \in RowIds |-> NoRow]
    /\ owner = [r \in RowIds |-> NoSession]
    /\ nextId = 1
    /\ pc = [s \in Sessions |-> "open"]
    /\ call = [s \in Sessions |-> NoAccount]
    /\ amount = [s \in Sessions |-> 0]
    /\ attempt = [s \in Sessions |-> 0]
    /\ seen = [s \in Sessions |-> {}]
    /\ read = [s \in Sessions |-> NoAccount]
    /\ ledger = [r \in RowIds |-> 0]
    /\ pending = [s \in Sessions |-> [r \in RowIds |-> 0]]

\* The call starts and waits at location l.
Start(s, l, account, amt) ==
    /\ pc[s] = "open"
    /\ pc' = [pc EXCEPT ![s] = l]
    /\ call' = [call EXCEPT ![s] = account]
    /\ amount' = [amount EXCEPT ![s] = amt]
    /\ attempt' = [attempt EXCEPT ![s] = 0]
    /\ seen' = [seen EXCEPT ![s] = {}]

\* The call returns or throws; its local variables are gone.
End(s, l) ==
    /\ pc' = [pc EXCEPT ![s] = l]
    /\ call' = [call EXCEPT ![s] = NoAccount]
    /\ amount' = [amount EXCEPT ![s] = 0]
    /\ attempt' = [attempt EXCEPT ![s] = 0]
    /\ seen' = [seen EXCEPT ![s] = {}]

Store(s, r, row) ==
    /\ dirty' = [dirty EXCEPT ![r] = row]
    /\ owner' = [owner EXCEPT ![r] = s]

-----------------------------------------------------------------------------
(* AffiliateWork::Insert *)

BeginInsert(s, account) ==
    /\ Start(s, "picking", account, 0)
    /\ UNCHANGED <<rowVars, read, history>>

\* GetInsertionString throws when a required field is missing.
Insertable(account) == account.email # Unset /\ account.fee # Unset

\* The picked id is free: leave the loop and build the INSERT.
PickFree(s, id) ==
    /\ pc[s] = "picking" /\ ~Exists(s, id)
    /\ IF Insertable(call[s])
       THEN /\ pc' = [pc EXCEPT ![s] = "inserting"]
            /\ call' = [call EXCEPT ![s].affiliateId = id]
            /\ seen' = [seen EXCEPT ![s] = VisibleRows(s)]
            /\ UNCHANGED <<amount, attempt>>
       ELSE End(s, "open")
    /\ UNCHANGED <<rowVars, read, history>>

\* The picked id is taken: try again, or throw on the last attempt.
LastAttempt(i) == i = Attempts - 1

\* Mutant of NextAttempt: the counter stays.
SameAttempt(i) == i

NextAttempt(i) == i + 1

PickTaken(s, id) ==
    /\ pc[s] = "picking" /\ Exists(s, id)
    /\ IF LastAttempt(attempt[s])
       THEN End(s, "open")
       ELSE /\ attempt' = [attempt EXCEPT ![s] = NextAttempt(@)]
            /\ UNCHANGED <<pc, call, amount, seen>>
    /\ UNCHANGED <<rowVars, read, history>>

\* Mutant of OrDefault: the column's own value is forgotten.
OnlyField(field, default) == field

OrDefault(field, default) == IF field = Unset THEN default ELSE field

NewRow(s) ==
    [email |-> call[s].email, affiliateId |-> call[s].affiliateId,
     fee |-> call[s].fee,
     inviterFee |-> OrDefault(call[s].inviterFee, DefaultInviterFee),
     userFee |-> OrDefault(call[s].userFee, DefaultUserFee),
     balance |-> 0, assigned |-> "insert", seen |-> seen[s]]

\* The sequence is advanced whether or not the statement succeeds.
DrawId(s) ==
    nextId' = IF call[s].id = Unset /\ nextId \in RowIds THEN nextId + 1 ELSE nextId

InsertRow(s) ==
    /\ pc[s] = "inserting" /\ Contended(s) = {}
    /\ DrawId(s)
    /\ IF Violates(s)
       THEN End(s, "failed") /\ UNCHANGED <<dirty, owner>>
       ELSE Store(s, Target(s), NewRow(s)) /\ End(s, "open")
    /\ UNCHANGED <<committed, read, history>>

-----------------------------------------------------------------------------
(* AffiliateWork::Get, Update and UpdateBalance *)

AsAccount(r, row) ==
    [id |-> r, email |-> row.email, affiliateId |-> row.affiliateId,
     fee |-> row.fee, inviterFee |-> row.inviterFee, userFee |-> row.userFee,
     balance |-> row.balance]

Matching(s, id) == {r \in VisibleRows(s) : Visible(s, r).affiliateId = id}

\* Get throws DataNotFound for no row, InternalServerError for several.
Get(s, id) ==
    /\ pc[s] = "open"
    /\ \/ /\ Cardinality(Matching(s, id)) # 1
          /\ read' = [read EXCEPT ![s] = NoAccount]
       \/ \E r \in RowIds :
             /\ Matching(s, id) = {r}
             /\ read' = [read EXCEPT ![s] = AsAccount(r, Visible(s, r))]
    /\ UNCHANGED <<rowVars, pc, call, amount, attempt, seen, history>>

BeginUpdate(s, account) ==
    /\ account.id # Unset   \* else BadRequest, and nothing changes
    /\ Start(s, "updating", account, 0)
    /\ UNCHANGED <<rowVars, read, history>>

\* A caller passes an account of its own making, or one it read before with
\* the fee changed.
Updates(s) ==
    UpdateAccounts \cup
    (IF read[s].id = Unset THEN {} ELSE {[read[s] EXCEPT !.fee = f] : f \in Fees})

\* inviter_fee and user_fee are written from *account.fee_; an empty optional
\* yields any value.
FeesWritten(account) == IF account.fee = Unset THEN Fees ELSE {account.fee}

\* Mutant of SetRow: the account's balance is written, too.
SetRowAndBalance(row, account, iFee, uFee) ==
    [row EXCEPT !.email = OrDefault(account.email, @), !.balance = OrDefault(account.balance, @)]

\* The row after the SET list; balance is not in it.
SetRow(row, account, iFee, uFee) ==
    [row EXCEPT
        !.email = OrDefault(account.email, @),
        !.affiliateId = OrDefault(account.affiliateId, @),
        !.fee = OrDefault(account.fee, @),
        !.inviterFee = IF account.inviterFee = Unset THEN @ ELSE iFee,
        !.userFee = IF account.userFee = Unset THEN @ ELSE uFee,
        !.assigned = IF account.affiliateId \in {Unset, row.affiliateId}
                     THEN @ ELSE "update"]

Update(s) ==
    /\ pc[s] = "updating" /\ Contended(s) = {}
    /\ \/ /\ call[s].id \notin VisibleRows(s)
          /\ End(s, "open") /\ UNCHANGED <<dirty, owner>>
       \/ /\ call[s].id \in VisibleRows(s) /\ Violates(s)
          /\ End(s, "failed") /\ UNCHANGED <<dirty, owner>>
       \/ /\ call[s].id \in VisibleRows(s) /\ ~Violates(s)
          /\ \E iFee, uFee \in FeesWritten(call[s]) :
                Store(s, call[s].id, SetRow(Visible(s, call[s].id), call[s], iFee, uFee))
          /\ End(s, "open")
    /\ UNCHANGED <<committed, nextId, read, history>>

\* MaxBalance bounds the balance a caller still adds to.
WithinBound(r, amt) ==
    dirty[r] # NoRow => dirty[r].balance + amt \in -MaxBalance..MaxBalance

BeginUpdateBalance(s, r, amt) ==
    /\ WithinBound(r, amt)
    /\ Start(s, "crediting", [NoAccount EXCEPT !.id = r], amt)
    /\ UNCHANGED <<rowVars, read, history>>

Credited(row, amt) == [row EXCEPT !.balance = @ + amt]

UpdateBalance(s) ==
    /\ pc[s] = "crediting" /\ Contended(s) = {}
    /\ IF call[s].id \in VisibleRows(s)
       THEN /\ Store(s, call[s].id, Credited(Visible(s, call[s].id), amount[s]))
            /\ pending' = [pending EXCEPT ![s][call[s].id] = @ + amount[s]]
            /\ End(s, "open")
       ELSE /\ End(s, "open")
            /\ UNCHANGED <<dirty, owner, pending>>
    /\ UNCHANGED <<committed, nextId, read, ledger>>

-----------------------------------------------------------------------------
(* The ends of a transaction: the caller's commit or rollback, at a point    *)
(* between two calls or after an SQL error, a lost connection at any point,  *)
(* and the database's choice of a victim when sessions wait in a circle.     *)

Own(s) == {r \in RowIds : owner[r] = s}

Commit(s) ==
    /\ pc[s] = "open" /\ Own(s) # {}
    /\ committed' = [r \in RowIds |-> IF r \in Own(s) THEN dirty[r] ELSE committed[r]]
    /\ owner' = [r \in RowIds |-> IF r \in Own(s) THEN NoSession ELSE owner[r]]
    /\ ledger' = [r \in RowIds |-> ledger[r] + pending[s][r]]
    /\ pending' = [pending EXCEPT ![s] = [r \in RowIds |-> 0]]
    /\ UNCHANGED <<dirty, nextId, pc, call, amount, attempt, seen, read>>

Rollback(s) ==
    /\ dirty' = [r \in RowIds |-> IF r \in Own(s) THEN committed[r] ELSE dirty[r]]
    /\ owner' = [r \in RowIds |-> IF r \in Own(s) THEN NoSession ELSE owner[r]]
    /\ pending' = [pending EXCEPT ![s] = [r \in RowIds |-> 0]]
    /\ End(s, "open")
    /\ UNCHANGED <<committed, nextId, read, ledger>>

Abort(s) == pc[s] = "failed" /\ Rollback(s)

Disconnect(s) == Rollback(s)

Deadlocked(s) ==
    \E C \in SUBSET Sessions :
        s \in C /\ \A t \in C : \E u \in C : WaitsFor(t, u)

DeadlockVictim(s) == Deadlocked(s) /\ Rollback(s)

-----------------------------------------------------------------------------
Step(s) == \/ \E id \in AffiliateIds : PickFree(s, id) \/ PickTaken(s, id)
           \/ InsertRow(s)
           \/ Update(s)
           \/ UpdateBalance(s)

Next ==
    \E s \in Sessions :
        \/ \E account \in InsertAccounts : BeginInsert(s, account)
        \/ \E id \in LookedUp : Get(s, id)
        \/ \E account \in Updates(s) : BeginUpdate(s, account)
        \/ \E r \in RowIds, amt \in Amounts : BeginUpdateBalance(s, r, amt)
        \/ Step(s)
        \/ Commit(s)
        \/ Abort(s)
        \/ Disconnect(s)
        \/ DeadlockVictim(s)

Spec == Init /\ [][Next]_vars

(***************************************************************************)
(* A running call takes its next statement (the lock queue of the database *)
(* serves a waiting statement, hence strong fairness); a caller between    *)
(* two calls ends its transaction sooner or later; a circle of waiting     *)
(* sessions is broken.                                                     *)
(***************************************************************************)
Fairness ==
    \A s \in Sessions :
        /\ SF_vars(Step(s))
        /\ SF_vars(Commit(s))
        /\ WF_vars(Abort(s))
        /\ WF_vars(DeadlockVictim(s))

FairSpec == Spec /\ Fairness

-----------------------------------------------------------------------------
(***************************************************************************)
(* The balance of a committed row is exactly the sum of the amounts of the *)
(* UpdateBalance calls that committed, whatever Update writes back from an *)
(* account that was read before (AffiliateWork.cpp, Update and             *)
(* UpdateBalance).                                                         *)
(***************************************************************************)
BalanceLedger ==
    \A r \in RowIds : committed[r] # NoRow => committed[r].balance = ledger[r]

(***************************************************************************)
(* Two accounts that Insert gave the same affiliate id come from           *)
(* overlapping Inserts: neither check could see the other row.  So the     *)
(* check before the INSERT does its work for transactions in sequence      *)
(* (AffiliateWork.cpp, Insert).                                            *)
(***************************************************************************)
DuplicateOnlyFromOverlap ==
    \A q, r \in RowIds :
        /\ q # r /\ committed[q] # NoRow /\ committed[r] # NoRow
        /\ committed[q].assigned = "insert" /\ committed[r].assigned = "insert"
        /\ committed[q].affiliateId = committed[r].affiliateId
        => q \notin committed[r].seen /\ r \notin committed[q].seen

\* The committed rows as a book of accounts.
Booked(row) ==
    IF row = NoRow THEN NoRow ELSE [email |-> row.email, balance |-> row.balance]

Book == INSTANCE AccountBook WITH
            book <- [r \in RowIds |-> Booked(committed[r])],
            credits <- pending

(***************************************************************************)
(* The committed rows are the book of accounts of AccountBook: whatever    *)
(* the interleaving of the sessions' statements, a commit books all the    *)
(* amounts of its session on the balances of that moment, in one step, and *)
(* keeps the e-mails distinct; a rollback books nothing                    *)
(* (AffiliateWork.cpp, Insert, Update, UpdateBalance;                      *)
(* 20181210130704_create_affiliate_info_table.sql, UNIQUE(email)).         *)
(***************************************************************************)
KeepsBook == Book!Spec

(***************************************************************************)
(* Every call ends, by its loop bound, by the locks being released or by   *)
(* the deadlock detector (AffiliateWork.cpp, Insert, Update,               *)
(* UpdateBalance).                                                         *)
(***************************************************************************)
CallsEnd == \A s \in Sessions : pc[s] # "open" ~> pc[s] = "open"

(***************************************************************************)
(* What Get asserts of the table: never several rows for one affiliate id  *)
(* (AffiliateWork.cpp, Get).                                               *)
(***************************************************************************)
GetFindsOneRow ==
    \A s \in Sessions, id \in LookedUp :
        pc[s] = "open" => Cardinality(Matching(s, id)) <= 1

\* The row holds every fee that the account carries.
Carries(row, account) ==
    /\ account.fee \in {Unset, row.fee}
    /\ account.inviterFee \in {Unset, row.inviterFee}
    /\ account.userFee \in {Unset, row.userFee}

(***************************************************************************)
(* A successful Update stores every fee the account carries (Affiliate.h,  *)
(* Set; AffiliateWork.cpp, Update).                                        *)
(***************************************************************************)
UpdateStoresFees ==
    [][\A s \in Sessions :
          pc[s] = "updating" /\ pc'[s] = "open" /\ owner'[call[s].id] = s =>
              Carries(dirty'[call[s].id], call[s])]_vars
=============================================================================
