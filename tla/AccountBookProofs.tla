------------------------ MODULE AccountBookProofs ------------------------
(***************************************************************************)
(* AffiliateAccounts implements AccountBook, for every set of sessions,    *)
(* e-mails and amounts, and for a table of any size.                       *)
(***************************************************************************)
EXTENDS AffiliateAccountsProofs

\* Rows that were committed have different e-mails, so have the latest versions
\* of the rows; and a latest version takes the e-mail of another committed row
\* only when one unfinished session wrote both rows.
EmailsOK ==
    \A q, r \in RowIds : q # r =>
        /\ committed[q] # NoRow /\ committed[r] # NoRow =>
              committed[q].email # committed[r].email
        /\ dirty[q] # NoRow /\ dirty[r] # NoRow => dirty[q].email # dirty[r].email
        /\ committed[q] # NoRow /\ dirty[r] # NoRow /\ committed[q].email = dirty[r].email =>
              owner[q] = owner[r] /\ owner[q] # NoSession

BookInv == TypeInv /\ LedgerInv /\ EmailsOK

-----------------------------------------------------------------------------
(* Distinct e-mails *)

\* An e-mail that a statement may store is held by no other row, except in the
\* committed version of a row that the session itself has rewritten.
LEMMA StoredEmailIsFree ==
  ASSUME TypeInv, LocksOK, NEW s \in Sessions, StoresEmail(s),
         Contended(s) = {}, ~Violates(s), NEW q \in RowIds, q # Target(s)
  PROVE  /\ dirty[q] # NoRow => dirty[q].email # call[s].email
         /\ committed[q] # NoRow /\ committed[q].email = call[s].email => owner[q] = s
  <1>1. CASE owner[q] \notin {NoSession, s}
    <2>1. call[s].email \notin EmailsOf(q)
      BY <1>1 DEF Contended
    <2> QED BY <2>1 DEF EmailsOf
  <1>2. CASE owner[q] \in {NoSession, s}
    <2>1. dirty[q] = Visible(s, q)
      BY <1>2, SessionsAssumption DEF LocksOK, Visible
    <2>2. Visible(s, q) # NoRow => Visible(s, q).email # call[s].email
      BY DEF Violates, VisibleRows
    <2>3. CASE owner[q] = s
      BY <2>1, <2>2, <2>3
    <2>4. CASE owner[q] = NoSession
      BY <2>1, <2>2, <2>4 DEF LocksOK
    <2> QED BY <1>2, <2>3, <2>4
  <1> QED BY <1>1, <1>2

\* Writing a row: it keeps its e-mail, or takes one that is free.
LEMMA StoreEmails ==
  ASSUME TypeInv, LocksOK, EmailsOK, NEW s \in Sessions, NEW r \in RowIds, NEW row \in Row,
         owner[r] \in {NoSession, s}, Store(s, r, row), UNCHANGED committed,
         \/ dirty[r] # NoRow /\ row.email = dirty[r].email
         \/ \A q \in RowIds \ {r} :
               /\ dirty[q] # NoRow => dirty[q].email # row.email
               /\ committed[q] # NoRow /\ committed[q].email = row.email => owner[q] = s
  PROVE  EmailsOK'
  <1>1. /\ dirty'[r] = row /\ owner'[r] = s
        /\ \A q \in RowIds \ {r} : dirty'[q] = dirty[q] /\ owner'[q] = owner[q]
    BY DEF Store, TypeInv, TypeOK
  <1>2. ASSUME NEW q \in RowIds \ {r}
        PROVE  /\ dirty[q] # NoRow => dirty[q].email # row.email
               /\ committed[q] # NoRow /\ committed[q].email = row.email => owner[q] = s
    BY <1>2, SessionsAssumption DEF EmailsOK
  <1>3. ASSUME NEW q \in RowIds \ {r},
               committed[r] # NoRow, dirty[q] # NoRow, committed[r].email = dirty[q].email
        PROVE  owner[q] = s
    BY <1>3, SessionsAssumption DEF EmailsOK
  <1> QED BY <1>1, <1>2, <1>3, SessionsAssumption DEF EmailsOK

\* A commit replaces the versions that only its session saw, all at once.
LEMMA CommitEmails ==
  ASSUME TypeInv, LocksOK, EmailsOK, NEW s \in Sessions, Commit(s)
  PROVE  EmailsOK'
  <1>1. /\ UNCHANGED dirty
        /\ \A q \in RowIds :
              /\ committed'[q] = IF owner[q] = s THEN dirty[q] ELSE committed[q]
              /\ owner'[q] = IF owner[q] = s THEN NoSession ELSE owner[q]
    BY DEF Commit, Own
  <1> QED BY <1>1, SessionsAssumption DEF EmailsOK

\* A rollback takes them back, all at once.
LEMMA RollbackEmails ==
  ASSUME TypeInv, LocksOK, EmailsOK, NEW s \in Sessions, Rollback(s)
  PROVE  EmailsOK'
  <1>1. /\ UNCHANGED committed
        /\ \A q \in RowIds :
              /\ dirty'[q] = IF owner[q] = s THEN committed[q] ELSE dirty[q]
              /\ owner'[q] = IF owner[q] = s THEN NoSession ELSE owner[q]
    BY DEF Rollback, Own
  <1> QED BY <1>1, SessionsAssumption DEF EmailsOK

\* An Update without an e-mail keeps the row's, one with an e-mail stores it.
LEMMA SetRowEmail ==
  ASSUME NEW row \in Row, NEW account \in Account, NEW i, NEW u
  PROVE  SetRow(row, account, i, u).email = OrDefault(account.email, row.email)
  BY DEF Row, SetRow

\* Every step keeps the e-mails distinct; one step per action that writes rows.
LEMMA StepEmails == TypeInv /\ LocksOK /\ EmailsOK /\ [Next]_vars => EmailsOK'
  <1> SUFFICES ASSUME TypeInv, LocksOK, EmailsOK, [Next]_vars PROVE EmailsOK'
    OBVIOUS
  <1>1. ASSUME UNCHANGED <<committed, dirty, owner>>
        PROVE  EmailsOK'
    BY <1>1 DEF EmailsOK
  <1>2. ASSUME NEW s \in Sessions, InsertRow(s)
        PROVE  EmailsOK'
    <2>1. CASE Violates(s)
      BY <1>1, <1>2, <2>1 DEF InsertRow
    <2>2. CASE ~Violates(s)
      <3> DEFINE r == Target(s)
                 row == NewRow(s)
      <3>1. r \in RowIds
        BY <1>2, <2>2 DEF InsertRow, Violates
      <3>2. owner[r] = NoSession
        BY <1>2, <2>2, <3>1, InsertedIsNew DEF InsertRow
      <3>3. row \in Row /\ row.email = call[s].email
        BY <1>2, NewRowType DEF InsertRow, NewRow
      <3>4. Store(s, r, row) /\ UNCHANGED committed
        BY <1>2, <2>2 DEF InsertRow
      <3>5. \A q \in RowIds \ {r} :
               /\ dirty[q] # NoRow => dirty[q].email # row.email
               /\ committed[q] # NoRow /\ committed[q].email = row.email => owner[q] = s
        BY <1>2, <2>2, <3>3, StoredEmailIsFree DEF InsertRow, StoresEmail
      <3> HIDE DEF r, row
      <3> QED BY <3>1, <3>2, <3>3, <3>4, <3>5, StoreEmails
    <2> QED BY <2>1, <2>2
  <1>3. ASSUME NEW s \in Sessions, Update(s)
        PROVE  EmailsOK'
    <2>1. CASE UNCHANGED <<dirty, owner>>
      BY <1>1, <1>3, <2>1 DEF Update
    <2>2. CASE call[s].id \in VisibleRows(s) /\ ~Violates(s)
      <3> DEFINE r == call[s].id
                 v == Visible(s, r)
      <3>1. PICK i \in FeesWritten(call[s]), u \in FeesWritten(call[s]) :
               Store(s, r, SetRow(v, call[s], i, u)) /\ UNCHANGED committed
        BY <1>3, <2>2 DEF Update
      <3> DEFINE row == SetRow(v, call[s], i, u)
      <3>2. i \in Fees /\ u \in Fees /\ call[s] \in Account
        BY DEF TypeInv, TypeOK, FeesWritten, Account
      <3>3. r \in RowIds /\ v \in Row /\ v # NoRow
        BY <2>2, VisibleType DEF VisibleRows, TypeInv
      <3>4. r = Target(s) /\ pc[s] = "updating" /\ Contended(s) = {}
        BY <1>3 DEF Update, Target
      <3>5. owner[r] \in {NoSession, s}
        BY <2>2, <3>3, <3>4, TargetIsFree
      <3>6. v = dirty[r]
        BY <3>3, <3>5, SessionsAssumption DEF Visible, LocksOK
      <3>7. row \in Row /\ row.email = OrDefault(call[s].email, v.email)
        <4>1. row \in Row BY <3>2, <3>3, SetRowType
        <4> HIDE DEF r, v
        <4> QED BY <3>2, <3>3, <4>1, SetRowEmail
      <3>8. Store(s, r, row)
        BY <3>1
      <3>9. CASE call[s].email = Unset
        <4>1. dirty[r] # NoRow /\ row.email = dirty[r].email
          BY <3>3, <3>6, <3>7, <3>9 DEF OrDefault
        <4> HIDE DEF r, row
        <4> QED BY <3>1, <3>3, <3>5, <3>7, <3>8, <4>1, StoreEmails
      <3>10. CASE call[s].email # Unset
        <4>1. row.email = call[s].email
          BY <3>7, <3>10 DEF OrDefault
        <4>2. StoresEmail(s)
          BY <2>2, <3>4, <3>10 DEF StoresEmail
        <4>3. \A q \in RowIds \ {r} :
                 /\ dirty[q] # NoRow => dirty[q].email # row.email
                 /\ committed[q] # NoRow /\ committed[q].email = row.email => owner[q] = s
          BY <2>2, <3>4, <4>1, <4>2, StoredEmailIsFree
        <4> HIDE DEF r, row
        <4> QED BY <3>1, <3>3, <3>5, <3>7, <3>8, <4>3, StoreEmails
      <3> QED BY <3>9, <3>10
    <2> QED BY <1>3, <2>1, <2>2 DEF Update
  <1>4. ASSUME NEW s \in Sessions, UpdateBalance(s)
        PROVE  EmailsOK'
    <2>1. CASE call[s].id \in VisibleRows(s)
      <3> DEFINE r == call[s].id
                 row == Credited(Visible(s, r), amount[s])
      <3>1. r \in RowIds /\ Visible(s, r) \in Row /\ Visible(s, r) # NoRow
        BY <2>1, VisibleType DEF VisibleRows, TypeInv
      <3>2. owner[r] \in {NoSession, s}
        BY <1>4, <2>1, <3>1, TargetIsFree DEF UpdateBalance, Target
      <3>3. Visible(s, r) = dirty[r]
        BY <3>1, <3>2, SessionsAssumption DEF Visible, LocksOK
      <3>4. amount[s] \in Int
        BY DEF TypeInv, TypeOK
      <3>5. row \in Row
        BY <3>1, <3>4, CreditedType
      <3>6. dirty[r] # NoRow /\ row.email = dirty[r].email
        <4> HIDE DEF r
        <4> QED BY <3>1, <3>3 DEF Credited, Row
      <3>7. Store(s, r, row) /\ UNCHANGED committed
        BY <1>4, <2>1 DEF UpdateBalance
      <3> HIDE DEF r, row
      <3> QED BY <3>1, <3>2, <3>5, <3>6, <3>7, StoreEmails
    <2>2. CASE call[s].id \notin VisibleRows(s)
      BY <1>1, <1>4, <2>2 DEF UpdateBalance
    <2> QED BY <2>1, <2>2
  <1>5. ASSUME NEW s \in Sessions, Commit(s) PROVE EmailsOK'
    BY <1>5, CommitEmails
  <1>6. ASSUME NEW s \in Sessions, Rollback(s) PROVE EmailsOK'
    BY <1>6, RollbackEmails
  <1>7. ASSUME NEW s \in Sessions,
               \/ \E account \in InsertAccounts : BeginInsert(s, account)
               \/ \E id \in LookedUp : Get(s, id)
               \/ \E account \in Updates(s) : BeginUpdate(s, account)
               \/ \E r \in RowIds, amt \in Amounts : BeginUpdateBalance(s, r, amt)
               \/ \E id \in AffiliateIds : PickFree(s, id) \/ PickTaken(s, id)
        PROVE  UNCHANGED <<committed, dirty, owner>>
    BY <1>7 DEF BeginInsert, Get, BeginUpdate, BeginUpdateBalance, PickFree, PickTaken,
                rowVars
  <1>8. CASE UNCHANGED vars
    BY <1>1, <1>8 DEF vars
  <1> QED
    BY <1>1, <1>2, <1>3, <1>4, <1>5, <1>6, <1>7, <1>8
       DEF Next, Step, Abort, Disconnect, DeadlockVictim

\* The whole invariant of the refinement is inductive.
LEMMA BookInvInductive ==
  /\ Init => BookInv
  /\ BookInv /\ [Next]_vars => BookInv'
  <1>1. Init => EmailsOK BY DEF Init, EmailsOK
  <1>2. Init => BookInv BY <1>1, InitType, InitLedger DEF BookInv
  <1>3. BookInv /\ [Next]_vars => BookInv'
    BY StepType, StepLedger, StepEmails DEF BookInv, LedgerInv
  <1> QED BY <1>2, <1>3

-----------------------------------------------------------------------------
(* Refinement *)

\* A row that exists is an entry of the book with its e-mail and balance.
LEMMA BookedRow ==
  ASSUME NEW row \in Row \cup {NoRow}
  PROVE  /\ row = NoRow => Booked(row) = NoRow
         /\ row # NoRow => /\ Booked(row) \in Book!Entry /\ Booked(row) # NoRow
                           /\ Booked(row).email = row.email
                           /\ Booked(row).balance = row.balance
  BY NoRowAssumption DEF Booked, Row, Book!Entry

\* The empty table is the empty book.
LEMMA InitBook == Init => Book!Init
  BY DEF Init, Book!Init, Book!NoCredits, Booked

\* A commit books all the amounts of its session at once.
LEMMA CommitPosts ==
  ASSUME BookInv, BookInv', NEW s \in Sessions, Commit(s)
  PROVE  Book!Post(s)
  <1> DEFINE b == [r \in RowIds |-> Booked(committed[r])]
  <1>1. ASSUME NEW r \in RowIds
        PROVE  committed[r] \in Row \cup {NoRow} /\ committed'[r] \in Row \cup {NoRow}
    BY <1>1 DEF BookInv, TypeInv, TypeOK
  <1>2. ASSUME NEW r \in RowIds
        PROVE  /\ committed'[r] = IF owner[r] = s THEN dirty[r] ELSE committed[r]
               /\ owner[r] = s => dirty[r] # NoRow
               /\ pending[s][r] # 0 => owner[r] = s
               /\ ledger'[r] = ledger[r] + pending[s][r]
               /\ ledger[r] \in Int /\ pending[s][r] \in Int
    BY <1>2, SessionsAssumption
       DEF Commit, Own, BookInv, LedgerInv, LocksOK, LedgerOK, TypeInv, TypeOK
  <1>3. b' \in [RowIds -> Book!Entry \cup {NoRow}]
    BY <1>1, BookedRow
  <1>4. \A r \in RowIds : /\ b[r] # NoRow <=> committed[r] # NoRow
                          /\ b'[r] # NoRow <=> committed'[r] # NoRow
    BY <1>1, BookedRow
  <1>5. Book!Present(b) \subseteq Book!Present(b')
    BY <1>2, <1>4 DEF Book!Present
  <1>6. ASSUME NEW r \in Book!Present(b')
        PROVE  b'[r].balance = Book!Balance(r) + pending[s][r]
    <2>1. r \in RowIds /\ committed'[r] # NoRow
      BY <1>4, <1>6 DEF Book!Present
    <2>2. b'[r].balance = ledger'[r]
      BY <1>1, <2>1, BookedRow DEF BookInv, LedgerInv, LedgerOK
    <2>3. Book!Balance(r) = ledger[r]
      BY <1>1, <1>4, <2>1, BookedRow DEF Book!Balance, BookInv, LedgerInv, LedgerOK
    <2> QED BY <1>2, <2>1, <2>2, <2>3
  <1>7. \A q, r \in Book!Present(b') : q # r => b'[q].email # b'[r].email
    BY <1>1, <1>4, BookedRow DEF Book!Present, BookInv, EmailsOK
  <1>8. \A r \in RowIds : pending[s][r] # 0 => r \in Book!Present(b')
    BY <1>2, <1>4 DEF Book!Present
  <1>9. pending' = [pending EXCEPT ![s] = Book!NoCredits]
    BY DEF Commit, Book!NoCredits
  <1> QED BY <1>3, <1>5, <1>6, <1>7, <1>8, <1>9 DEF Book!Post

\* A rollback forgets the amounts of its session.
LEMMA RollbackForgets ==
  ASSUME NEW s \in Sessions, Rollback(s)
  PROVE  Book!Forget(s)
  BY DEF Rollback, Book!Forget, Book!NoCredits

\* UpdateBalance collects an amount, when it finds the row.
LEMMA UpdateBalanceCollects ==
  ASSUME BookInv, NEW s \in Sessions, UpdateBalance(s), call[s].id \in VisibleRows(s)
  PROVE  Book!Collect(s, call[s].id)
  <1> DEFINE r == call[s].id
  <1>1. r \in RowIds
    BY DEF VisibleRows
  <1>2. pending \in [Sessions -> [RowIds -> Int]] /\ amount[s] \in Int
    BY DEF BookInv, TypeInv, TypeOK
  <1>3. pending' = [pending EXCEPT ![s][r] = @ + amount[s]] /\ UNCHANGED committed
    BY DEF UpdateBalance
  <1> HIDE DEF r
  <1> DEFINE sum == pending[s][r] + amount[s]
  <1>4. sum \in Int /\ pending' = [pending EXCEPT ![s][r] = sum]
    BY <1>1, <1>2, <1>3
  <1> HIDE DEF sum
  <1>5. pending'[s][r] = sum
    BY <1>1, <1>2, <1>4
  <1>6. pending'[s][r] \in Int /\ pending' = [pending EXCEPT ![s][r] = pending'[s][r]]
    BY <1>4, <1>5, Zenon
  <1> QED BY <1>3, <1>6 DEF Book!Collect, r

\* Every step of a session is a step of the book or leaves it alone; one step per
\* action.
LEMMA StepBook ==
  BookInv /\ BookInv' /\ [Next]_vars =>
      [Book!Next]_<<[r \in RowIds |-> Booked(committed[r])], pending>>
  <1> DEFINE b == [r \in RowIds |-> Booked(committed[r])]
  <1> SUFFICES ASSUME BookInv, BookInv', [Next]_vars
               PROVE  Book!Next \/ UNCHANGED <<b, pending>>
    OBVIOUS
  <1>1. ASSUME UNCHANGED <<committed, pending>>
        PROVE  UNCHANGED <<b, pending>>
    BY <1>1
  <1>2. ASSUME NEW s \in Sessions, UpdateBalance(s)
        PROVE  Book!Next \/ UNCHANGED <<b, pending>>
    <2>1. CASE call[s].id \in VisibleRows(s)
      BY <1>2, <2>1, UpdateBalanceCollects DEF Book!Next, VisibleRows
    <2>2. CASE call[s].id \notin VisibleRows(s)
      BY <1>1, <1>2, <2>2 DEF UpdateBalance
    <2> QED BY <2>1, <2>2
  <1>3. ASSUME NEW s \in Sessions, Commit(s)
        PROVE  Book!Next
    BY <1>3, CommitPosts DEF Book!Next
  <1>4. ASSUME NEW s \in Sessions, Rollback(s)
        PROVE  Book!Next
    BY <1>4, RollbackForgets DEF Book!Next
  <1>5. ASSUME NEW s \in Sessions,
               \/ \E account \in InsertAccounts : BeginInsert(s, account)
               \/ \E id \in LookedUp : Get(s, id)
               \/ \E account \in Updates(s) : BeginUpdate(s, account)
               \/ \E r \in RowIds, amt \in Amounts : BeginUpdateBalance(s, r, amt)
               \/ \E id \in AffiliateIds : PickFree(s, id) \/ PickTaken(s, id)
               \/ InsertRow(s) \/ Update(s)
        PROVE  UNCHANGED <<committed, pending>>
    BY <1>5 DEF BeginInsert, Get, BeginUpdate, BeginUpdateBalance, PickFree, PickTaken,
                InsertRow, Update, rowVars, history
  <1>6. CASE UNCHANGED vars
    BY <1>1, <1>6 DEF vars
  <1> QED
    BY <1>1, <1>2, <1>3, <1>4, <1>5, <1>6
       DEF Next, Step, Abort, Disconnect, DeadlockVictim

(***************************************************************************)
(* AffiliateAccounts implements AccountBook: for any number of sessions    *)
(* and rows, a commit books all the amounts of its session on the balances *)
(* of that moment in one step and leaves no two accounts with one e-mail,  *)
(* and nothing else changes the book (AffiliateWork.cpp, Insert, Update,   *)
(* UpdateBalance).                                                         *)
(***************************************************************************)
THEOREM AccountsKeepBook == Spec => KeepsBook
  <1>1. BookInv /\ [Next]_vars =>
            BookInv' /\ [Book!Next]_<<[r \in RowIds |-> Booked(committed[r])], pending>>
    BY BookInvInductive, StepBook
  <1> QED BY <1>1, InitBook, BookInvInductive, PTL DEF Spec, KeepsBook, Book!Spec
=============================================================================
