--------------------- MODULE AffiliateAccountsProofs ---------------------
(***************************************************************************)
(* What AffiliateAccounts guarantees for every set of sessions, e-mails,   *)
(* affiliate ids and amounts, and for a table of any size.                 *)
(***************************************************************************)
EXTENDS AffiliateAccounts, TLAPS

\* The argument of a running call is as the code before it left it.
CallOK ==
    \A s \in Sessions :
        /\ pc[s] \in {"updating", "crediting"} => call[s].id \in RowIds
        /\ pc[s] = "inserting" =>
              Insertable(call[s]) /\ call[s].affiliateId \in AffiliateIds

\* Only an unfinished session's row has two versions, and it has a latest one.
LocksOK ==
    \A r \in RowIds :
        IF owner[r] = NoSession THEN dirty[r] = committed[r] ELSE dirty[r] # NoRow

\* Both versions of a row agree with the amounts credited to it.
LedgerOK ==
    \A r \in RowIds :
        /\ IF committed[r] = NoRow THEN ledger[r] = 0
                                   ELSE committed[r].balance = ledger[r]
        /\ \A s \in Sessions :
              IF owner[r] = s THEN dirty[r].balance = ledger[r] + pending[s][r]
                              ELSE pending[s][r] = 0

\* Version v of a row exists and has another affiliate id than the given one,
\* as far as Insert chose it.
Differs(v, id) == v # NoRow /\ (v.assigned = "insert" => v.affiliateId # id)

\* An affiliate id that Insert chose survives only unchanged.
VersionsOK ==
    \A r \in RowIds :
        committed[r] # NoRow /\ dirty[r].assigned = "insert" =>
            /\ committed[r].assigned = "insert"
            /\ committed[r].affiliateId = dirty[r].affiliateId

\* The check of a running Insert still holds of the rows it saw, and the check
\* of a stored row holds of the versions its writer sees.
RunningChecksOK ==
    \A s \in Sessions : pc[s] = "inserting" =>
        \A q \in seen[s] : Differs(Visible(s, q), call[s].affiliateId)

CommittedChecksOK ==
    \A r \in RowIds : committed[r] # NoRow =>
        \A q \in committed[r].seen :
            /\ committed[q] # NoRow
            /\ committed[r].assigned = "insert" =>
                  Differs(committed[q], committed[r].affiliateId)

DirtyChecksOK ==
    \A s \in Sessions, r \in RowIds : owner[r] = s =>
        \A q \in dirty[r].seen :
            /\ Visible(s, q) # NoRow
            /\ dirty[r].assigned = "insert" =>
                  Differs(Visible(s, q), dirty[r].affiliateId)

ChecksOK == VersionsOK /\ RunningChecksOK /\ CommittedChecksOK /\ DirtyChecksOK

TypeInv == TypeOK /\ CallOK

-----------------------------------------------------------------------------
(* Types *)

\* The account no field of which is set is an account.
LEMMA NoAccountType == NoAccount \in Account
  BY DEF NoAccount, Account

\* The row that Insert stores has the type of a row.
LEMMA NewRowType ==
  ASSUME TypeInv, NEW s \in Sessions, pc[s] = "inserting"
  PROVE  NewRow(s) \in Row
  BY RangesAssumption
     DEF TypeInv, TypeOK, CallOK, Insertable, Account, Row, NewRow, OrDefault

\* Update's SET list keeps the type of a row.
LEMMA SetRowType ==
  ASSUME NEW row \in Row, NEW account \in Account, NEW i \in Fees, NEW u \in Fees
  PROVE  SetRow(row, account, i, u) \in Row
  BY DEF Account, Row, SetRow, OrDefault

\* Update leaves the balance alone.
LEMMA SetRowBalance ==
  ASSUME NEW row \in Row, NEW account, NEW i, NEW u
  PROVE  SetRow(row, account, i, u).balance = row.balance
  BY DEF Row, SetRow

\* Update keeps the history of the row, and marks a change of its affiliate id.
LEMMA SetRowHistory ==
  ASSUME NEW row \in Row, NEW account \in Account, NEW i, NEW u
  PROVE  /\ SetRow(row, account, i, u).seen = row.seen
         /\ SetRow(row, account, i, u).assigned = "insert" =>
               /\ row.assigned = "insert"
               /\ row.affiliateId = SetRow(row, account, i, u).affiliateId
  BY DEF Row, SetRow, OrDefault

\* UpdateBalance's addition keeps the type of a row, too.
LEMMA CreditedType ==
  ASSUME NEW row \in Row, NEW amt \in Int
  PROVE  Credited(row, amt) \in Row /\ Credited(row, amt).balance = row.balance + amt
  BY DEF Credited, Row

\* An account stays one when one of its fields is set.
LEMMA SetFieldType ==
  ASSUME NEW account \in Account
  PROVE  /\ \A f \in Fees : [account EXCEPT !.fee = f] \in Account
         /\ \A id \in AffiliateIds :
               /\ [account EXCEPT !.affiliateId = id] \in Account
               /\ [account EXCEPT !.affiliateId = id].affiliateId = id
  BY DEF Account

\* A row read by a session has the type of a row or is absent.
LEMMA VisibleType ==
  ASSUME TypeOK, NEW s \in Sessions, NEW r \in RowIds
  PROVE  Visible(s, r) \in Row \cup {NoRow}
  BY DEF TypeOK, Visible

\* A call may start at l, or end there, with variables of the right types.
LEMMA StartType ==
  ASSUME TypeInv, NEW s \in Sessions, NEW l, NEW account \in Account, NEW amt \in Int,
         l \in {"picking", "updating", "crediting"},
         l \in {"updating", "crediting"} => account.id \in RowIds,
         Start(s, l, account, amt),
         UNCHANGED <<rowVars, read, history>>
  PROVE  TypeInv'
  <1>1. TypeOK'
    BY RangesAssumption DEF TypeInv, TypeOK, Start, rowVars, history, Account
  <1>2. CallOK'
    BY DEF TypeInv, TypeOK, CallOK, Start, Insertable
  <1> QED BY <1>1, <1>2 DEF TypeInv

\* A call that ends, at l, keeps the types of the session's own variables.
LEMMA EndType ==
  ASSUME TypeInv, NEW s \in Sessions, NEW l \in {"open", "failed"}, End(s, l)
  PROVE  /\ CallOK'
         /\ pc' \in [Sessions -> {"open", "picking", "inserting", "updating",
                                  "crediting", "failed"}]
         /\ call' \in [Sessions -> Account]
         /\ amount' \in [Sessions -> Int]
         /\ attempt' \in [Sessions -> 0..(Attempts - 1)]
         /\ seen' \in [Sessions -> SUBSET RowIds]
  BY NoAccountType, RangesAssumption
     DEF TypeInv, TypeOK, CallOK, End, Insertable

\* A rolled-back session leaves rows, locks and sums of the right types.
LEMMA RollbackType ==
  ASSUME TypeInv, NEW s \in Sessions, Rollback(s)
  PROVE  TypeInv'
  <1>1. End(s, "open") BY DEF Rollback
  <1>2. dirty' \in [RowIds -> Row \cup {NoRow}]
    BY DEF TypeInv, TypeOK, Rollback
  <1>3. owner' \in [RowIds -> Sessions \cup {NoSession}]
    BY DEF TypeInv, TypeOK, Rollback
  <1>4. pending' \in [Sessions -> [RowIds -> Int]]
    BY DEF TypeInv, TypeOK, Rollback
  <1> QED BY <1>1, <1>2, <1>3, <1>4, EndType DEF TypeInv, TypeOK, Rollback

\* An empty table with idle sessions satisfies the typing invariant.
LEMMA InitType == Init => TypeInv
  BY NoAccountType, RangesAssumption DEF Init, TypeInv, TypeOK, CallOK, RowIds

\* One step per action.
LEMMA StepType == TypeInv /\ [Next]_vars => TypeInv'
  <1> SUFFICES ASSUME TypeInv, [Next]_vars PROVE TypeInv'
    OBVIOUS
  <1> USE DEF TypeInv
  <1>1. ASSUME NEW s \in Sessions, NEW account \in InsertAccounts, BeginInsert(s, account)
        PROVE  TypeInv'
    BY <1>1, StartType, AccountsAssumption DEF BeginInsert
  <1>2. ASSUME NEW s \in Sessions, NEW id \in LookedUp, Get(s, id)
        PROVE  TypeInv'
    <2>1. read' \in [Sessions -> Account]
      <3>1. ASSUME NEW r \in RowIds, Matching(s, id) = {r}
            PROVE  AsAccount(r, Visible(s, r)) \in Account
        <4>1. Visible(s, r) \in Row
          BY <3>1, VisibleType DEF Matching, VisibleRows
        <4> QED BY <4>1 DEF AsAccount, Account, Row
      <3> QED BY <1>2, <3>1, NoAccountType DEF Get, TypeOK
    <2> QED BY <1>2, <2>1 DEF Get, TypeOK, CallOK, rowVars, history
  <1>3. ASSUME NEW s \in Sessions, NEW account \in Updates(s), BeginUpdate(s, account)
        PROVE  TypeInv'
    <2>1. account \in Account
      <3>1. read[s] \in Account BY DEF TypeOK
      <3> QED BY <3>1, SetFieldType, AccountsAssumption DEF Updates
    <2>2. account.id \in RowIds
      BY <1>3, <2>1 DEF BeginUpdate, Account
    <2> QED BY <1>3, <2>1, <2>2, StartType DEF BeginUpdate
  <1>4. ASSUME NEW s \in Sessions, NEW r \in RowIds, NEW amt \in Amounts,
               BeginUpdateBalance(s, r, amt)
        PROVE  TypeInv'
    <2> DEFINE account == [NoAccount EXCEPT !.id = r]
    <2>1. account \in Account /\ account.id = r
      BY NoAccountType DEF NoAccount, Account
    <2> QED BY <1>4, <2>1, StartType, RangesAssumption DEF BeginUpdateBalance
  <1>5. ASSUME NEW s \in Sessions, NEW id \in AffiliateIds, PickFree(s, id)
        PROVE  TypeInv'
    <2>1. CASE Insertable(call[s])
      <3>1. TypeOK'
        <4>1. [call[s] EXCEPT !.affiliateId = id] \in Account
          <5>1. call[s] \in Account BY DEF TypeOK
          <5> QED BY <5>1, SetFieldType
        <4> DEFINE picked == [call[s] EXCEPT !.affiliateId = id]
        <4>2. call' = [call EXCEPT ![s] = picked]
          BY <1>5, <2>1 DEF PickFree
        <4> HIDE DEF picked
        <4>3. call' \in [Sessions -> Account]
          BY <4>1, <4>2 DEF TypeOK, picked
        <4>4. /\ pc' = [pc EXCEPT ![s] = "inserting"]
              /\ seen' = [seen EXCEPT ![s] = VisibleRows(s)]
              /\ UNCHANGED <<rowVars, amount, attempt, read, history>>
          BY <1>5, <2>1 DEF PickFree
        <4> QED BY <4>3, <4>4 DEF TypeOK, VisibleRows, rowVars, history
      <3>2. CallOK'
        BY <1>5, <2>1 DEF PickFree, TypeOK, CallOK, Account, Insertable
      <3> QED BY <3>1, <3>2
    <2>2. CASE ~Insertable(call[s])
      BY <1>5, <2>2, EndType DEF PickFree, TypeOK, rowVars, history
    <2> QED BY <2>1, <2>2
  <1>6. ASSUME NEW s \in Sessions, NEW id \in AffiliateIds, PickTaken(s, id)
        PROVE  TypeInv'
    <2>1. CASE LastAttempt(attempt[s])
      BY <1>6, <2>1, EndType DEF PickTaken, TypeOK, rowVars, history
    <2>2. CASE ~LastAttempt(attempt[s])
      <3>1. attempt[s] + 1 \in 0..(Attempts - 1)
        <4>1. attempt[s] \in 0..(Attempts - 1) BY DEF TypeOK
        <4> QED BY <2>2, <4>1, RangesAssumption DEF LastAttempt
      <3>2. attempt' \in [Sessions -> 0..(Attempts - 1)]
        BY <1>6, <2>2, <3>1 DEF PickTaken, NextAttempt, TypeOK
      <3> QED BY <1>6, <2>2, <3>2 DEF PickTaken, TypeOK, CallOK, rowVars, history
    <2> QED BY <2>1, <2>2
  <1>7. ASSUME NEW s \in Sessions, InsertRow(s)
        PROVE  TypeInv'
    <2>1. nextId' \in 1..(MaxRow + 1)
      BY <1>7, RangesAssumption DEF InsertRow, DrawId, TypeOK, RowIds
    <2>2. CASE Violates(s)
      BY <1>7, <2>1, <2>2, EndType DEF InsertRow, TypeOK, history
    <2>3. CASE ~Violates(s)
      <3>1. Target(s) \in RowIds
        BY <1>7, <2>3 DEF InsertRow, Violates
      <3>2. NewRow(s) \in Row
        BY <1>7, NewRowType DEF InsertRow
      <3>3. dirty' \in [RowIds -> Row \cup {NoRow}]
            /\ owner' \in [RowIds -> Sessions \cup {NoSession}]
        BY <1>7, <2>3, <3>1, <3>2 DEF InsertRow, Store, TypeOK
      <3> QED BY <1>7, <2>1, <2>3, <3>3, EndType DEF InsertRow, TypeOK, history
    <2> QED BY <2>2, <2>3
  <1>8. ASSUME NEW s \in Sessions, Update(s)
        PROVE  TypeInv'
    <2>1. CASE UNCHANGED <<dirty, owner>>
      BY <1>8, <2>1, EndType DEF Update, TypeOK, history
    <2>2. CASE call[s].id \in VisibleRows(s) /\ ~Violates(s)
      <3>1. PICK i \in FeesWritten(call[s]), u \in FeesWritten(call[s]) :
               Store(s, call[s].id, SetRow(Visible(s, call[s].id), call[s], i, u))
        BY <1>8, <2>2 DEF Update
      <3>2. i \in Fees /\ u \in Fees /\ call[s] \in Account
        BY DEF TypeOK, FeesWritten, Account
      <3>3. call[s].id \in RowIds /\ Visible(s, call[s].id) \in Row
        BY <2>2, VisibleType DEF VisibleRows
      <3>4. SetRow(Visible(s, call[s].id), call[s], i, u) \in Row
        BY <3>2, <3>3, SetRowType
      <3>5. dirty' \in [RowIds -> Row \cup {NoRow}]
            /\ owner' \in [RowIds -> Sessions \cup {NoSession}]
        BY <3>1, <3>3, <3>4 DEF Store, TypeOK
      <3> QED BY <1>8, <2>2, <3>5, EndType DEF Update, TypeOK, history
    <2> QED BY <1>8, <2>1, <2>2 DEF Update
  <1>9. ASSUME NEW s \in Sessions, UpdateBalance(s)
        PROVE  TypeInv'
    <2>1. CASE call[s].id \in VisibleRows(s)
      <3>1. call[s].id \in RowIds /\ Visible(s, call[s].id) \in Row
        BY <2>1, VisibleType DEF VisibleRows
      <3>2. Credited(Visible(s, call[s].id), amount[s]) \in Row
        BY <3>1, CreditedType DEF TypeOK
      <3>3. dirty' \in [RowIds -> Row \cup {NoRow}]
            /\ owner' \in [RowIds -> Sessions \cup {NoSession}]
        BY <1>9, <2>1, <3>1, <3>2 DEF UpdateBalance, Store, TypeOK
      <3>4. pending' \in [Sessions -> [RowIds -> Int]]
        BY <1>9, <2>1, <3>1 DEF UpdateBalance, TypeOK
      <3> QED BY <1>9, <2>1, <3>3, <3>4, EndType DEF UpdateBalance, TypeOK
    <2>2. CASE call[s].id \notin VisibleRows(s)
      BY <1>9, <2>2, EndType DEF UpdateBalance, TypeOK
    <2> QED BY <2>1, <2>2
  <1>10. ASSUME NEW s \in Sessions, Commit(s)
         PROVE  TypeInv'
    <2>1. committed' \in [RowIds -> Row \cup {NoRow}]
          /\ owner' \in [RowIds -> Sessions \cup {NoSession}]
      BY <1>10 DEF Commit, TypeOK
    <2>2. ledger' \in [RowIds -> Int] /\ pending' \in [Sessions -> [RowIds -> Int]]
      BY <1>10 DEF Commit, TypeOK
    <2> QED BY <1>10, <2>1, <2>2 DEF Commit, TypeOK, CallOK
  <1>11. ASSUME NEW s \in Sessions, Rollback(s)
         PROVE  TypeInv'
    BY <1>11, RollbackType
  <1>12. CASE UNCHANGED vars
    BY <1>12 DEF vars, TypeOK, CallOK, Insertable
  <1> QED
    BY <1>1, <1>2, <1>3, <1>4, <1>5, <1>6, <1>7, <1>8, <1>9, <1>10, <1>11, <1>12
       DEF Next, Step, Abort, Disconnect, DeadlockVictim

(***************************************************************************)
(* Every column keeps its type and every call its argument, whatever the   *)
(* interleaving of the sessions' statements (AffiliateWork.cpp).           *)
(***************************************************************************)
THEOREM TypeCorrect == Spec => []TypeOK
  <1>1. TypeInv => TypeOK BY DEF TypeInv
  <1> QED BY <1>1, InitType, StepType, PTL DEF Spec

-----------------------------------------------------------------------------
(* Locks and balances *)

LedgerInv == LocksOK /\ LedgerOK

\* A statement that need not wait writes a row no other session holds.
LEMMA TargetIsFree ==
  ASSUME TypeInv, NEW s \in Sessions, NEW r \in RowIds, Contended(s) = {}, r = Target(s),
         \/ pc[s] = "inserting"
         \/ pc[s] \in {"updating", "crediting"} /\ r \in VisibleRows(s)
  PROVE  owner[r] \in {NoSession, s}
  BY DEF Contended, VisibleRows, Visible

\* An Insert that breaks no constraint stores a row that does not exist.
LEMMA InsertedIsNew ==
  ASSUME TypeInv, LocksOK, NEW s \in Sessions, NEW r \in RowIds,
         pc[s] = "inserting", Contended(s) = {}, ~Violates(s), r = Target(s)
  PROVE  owner[r] = NoSession /\ committed[r] = NoRow /\ dirty[r] = NoRow
  <1>1. Visible(s, r) = NoRow
    BY DEF Violates, VisibleRows
  <1>2. owner[r] \in {NoSession, s}
    BY TargetIsFree
  <1> QED BY <1>1, <1>2, SessionsAssumption DEF LocksOK, Visible

\* The balance a session sees in a row; a new row starts at 0.
BalanceSeen(s, r) == IF Visible(s, r) = NoRow THEN 0 ELSE Visible(s, r).balance

\* Writing a row that the session may write keeps the locks, and the balances
\* when the row's balance grows by what the session records as pending.
LEMMA StoreLedger ==
  ASSUME TypeInv, LedgerInv, NEW s \in Sessions, NEW r \in RowIds, NEW row \in Row,
         owner[r] \in {NoSession, s}, Store(s, r, row),
         \A t \in Sessions, q \in RowIds :
            ~(t = s /\ q = r) => pending'[t][q] = pending[t][q],
         pending'[s][r] \in Int,
         row.balance - BalanceSeen(s, r) = pending'[s][r] - pending[s][r],
         UNCHANGED <<committed, ledger>>
  PROVE  LedgerInv'
  <1>1. /\ dirty' = [dirty EXCEPT ![r] = row]
        /\ owner' = [owner EXCEPT ![r] = s]
    BY DEF Store
  <1>2. LocksOK'
    BY <1>1, NoRowAssumption, SessionsAssumption DEF LedgerInv, LocksOK, TypeInv, TypeOK
  <1>3. ASSUME NEW q \in RowIds, NEW t \in Sessions
        PROVE  IF owner'[q] = t THEN dirty'[q].balance = ledger[q] + pending'[t][q]
                                ELSE pending'[t][q] = 0
    <2>1. CASE q # r
      BY <1>1, <2>1 DEF LedgerInv, LedgerOK, TypeInv, TypeOK
    <2>2. CASE q = r /\ t # s
      <3>1. owner[r] # t /\ owner'[r] = s
        BY <1>1, <2>2, SessionsAssumption DEF TypeInv, TypeOK
      <3>2. pending'[t][r] = pending[t][r] /\ pending[t][r] = 0
        BY <2>2, <3>1 DEF LedgerInv, LedgerOK
      <3> QED BY <2>2, <3>1, <3>2
    <2>3. CASE q = r /\ t = s
      <3>1. dirty'[r] = row /\ owner'[r] = s
        BY <1>1 DEF TypeInv, TypeOK
      <3>2. pending[s][r] \in Int /\ ledger[r] \in Int /\ row.balance \in Int
        BY DEF TypeInv, TypeOK, Row
      <3>3. BalanceSeen(s, r) = ledger[r] + pending[s][r]
        <4>1. CASE owner[r] = s
          <5>1. Visible(s, r) = dirty[r] /\ dirty[r] # NoRow
            BY <4>1, SessionsAssumption DEF Visible, LedgerInv, LocksOK
          <5> QED BY <4>1, <5>1 DEF BalanceSeen, LedgerInv, LedgerOK
        <4>2. CASE owner[r] = NoSession
          <5>1. Visible(s, r) = committed[r] /\ pending[s][r] = 0
            BY <4>2, SessionsAssumption DEF Visible, LedgerInv, LedgerOK
          <5>2. IF committed[r] = NoRow THEN ledger[r] = 0
                                        ELSE committed[r].balance = ledger[r]
            BY DEF LedgerInv, LedgerOK
          <5> QED BY <3>2, <5>1, <5>2 DEF BalanceSeen
        <4> QED BY <4>1, <4>2
      <3>4. pending'[s][r] \in Int
            /\ row.balance - BalanceSeen(s, r) = pending'[s][r] - pending[s][r]
        OBVIOUS
      <3>5. row.balance = ledger[r] + pending'[s][r]
        BY <3>2, <3>3, <3>4
      <3> QED BY <2>3, <3>1, <3>5
    <2> QED BY <2>1, <2>2, <2>3
  <1> QED BY <1>2, <1>3 DEF LedgerInv, LedgerOK

\* A commit moves the session's pending amounts into the ledger together with
\* the balances that hold them.
LEMMA CommitLedger ==
  ASSUME TypeInv, LedgerInv, NEW s \in Sessions, Commit(s)
  PROVE  LedgerInv'
  <1> USE DEF LedgerInv
  <1>1. LocksOK'
    BY SessionsAssumption DEF Commit, Own, LocksOK, TypeInv, TypeOK
  <1>2. ASSUME NEW r \in RowIds
        PROVE  /\ IF committed'[r] = NoRow THEN ledger'[r] = 0
                                           ELSE committed'[r].balance = ledger'[r]
               /\ \A t \in Sessions :
                     IF owner'[r] = t THEN dirty'[r].balance = ledger'[r] + pending'[t][r]
                                      ELSE pending'[t][r] = 0
    <2>1. ledger'[r] = ledger[r] + pending[s][r] /\ ledger[r] \in Int
      BY DEF Commit, TypeInv, TypeOK
    <2>2. \A t \in Sessions : pending'[t][r] = IF t = s THEN 0 ELSE pending[t][r]
      BY DEF Commit, TypeInv, TypeOK
    <2>3. CASE owner[r] = s
      <3>1. committed'[r] = dirty[r] /\ owner'[r] = NoSession /\ dirty[r] # NoRow
        BY <2>3, SessionsAssumption DEF Commit, Own, LocksOK
      <3> QED BY <2>1, <2>2, <2>3, <3>1, SessionsAssumption DEF LedgerOK
    <2>4. CASE owner[r] # s
      <3>1. committed'[r] = committed[r] /\ owner'[r] = owner[r] /\ dirty'[r] = dirty[r]
        BY <2>4 DEF Commit, Own, TypeInv, TypeOK
      <3>2. pending[s][r] = 0 /\ ledger'[r] = ledger[r]
        BY <2>1, <2>4 DEF LedgerOK
      <3> QED BY <2>2, <2>4, <3>1, <3>2 DEF LedgerOK
    <2> QED BY <2>3, <2>4
  <1> QED BY <1>1, <1>2 DEF LedgerOK

\* A rollback drops the pending amounts together with the balances.
LEMMA RollbackLedger ==
  ASSUME TypeInv, LedgerInv, NEW s \in Sessions, Rollback(s)
  PROVE  LedgerInv'
  <1> USE DEF LedgerInv
  <1>1. LocksOK'
    BY SessionsAssumption DEF Rollback, Own, LocksOK, TypeInv, TypeOK
  <1>2. LedgerOK'
    BY SessionsAssumption DEF Rollback, Own, LedgerOK, TypeInv, TypeOK
  <1> QED BY <1>1, <1>2

\* In an empty table all sums are zero.
LEMMA InitLedger == Init => LedgerInv
  BY SessionsAssumption DEF Init, LedgerInv, LocksOK, LedgerOK

\* Every step keeps balances and sums in agreement; one step per action.
LEMMA StepLedger == TypeInv /\ LedgerInv /\ [Next]_vars => LedgerInv'
  <1> SUFFICES ASSUME TypeInv, LedgerInv, [Next]_vars PROVE LedgerInv'
    OBVIOUS
  <1>1. ASSUME UNCHANGED <<committed, dirty, owner, ledger, pending>>
        PROVE  LedgerInv'
    BY <1>1 DEF LedgerInv, LocksOK, LedgerOK
  <1>2. ASSUME NEW s \in Sessions, InsertRow(s)
        PROVE  LedgerInv'
    <2>1. CASE Violates(s)
      BY <1>1, <1>2, <2>1 DEF InsertRow, history
    <2>2. CASE ~Violates(s)
      <3> DEFINE r == Target(s)
      <3>1. r \in RowIds
        BY <1>2, <2>2 DEF InsertRow, Violates
      <3>2. owner[r] = NoSession /\ committed[r] = NoRow
        BY <1>2, <2>2, <3>1, InsertedIsNew DEF InsertRow, LedgerInv
      <3>3. Visible(s, r) = NoRow
        BY <3>2, SessionsAssumption DEF Visible
      <3>4. NewRow(s) \in Row /\ NewRow(s).balance = 0
        BY <1>2, NewRowType DEF InsertRow, NewRow
      <3>5. Store(s, r, NewRow(s)) /\ UNCHANGED <<committed, ledger, pending>>
        BY <1>2, <2>2 DEF InsertRow, history
      <3>6. pending[s][r] \in Int /\ BalanceSeen(s, r) = 0
        BY <3>1, <3>3 DEF TypeInv, TypeOK, BalanceSeen
      <3> HIDE DEF r
      <3>7. NewRow(s).balance - BalanceSeen(s, r) = pending'[s][r] - pending[s][r]
        BY <3>4, <3>5, <3>6
      <3> QED BY <3>1, <3>2, <3>4, <3>5, <3>6, <3>7, StoreLedger
    <2> QED BY <2>1, <2>2
  <1>3. ASSUME NEW s \in Sessions, Update(s)
        PROVE  LedgerInv'
    <2>1. CASE UNCHANGED <<dirty, owner>>
      BY <1>1, <1>3, <2>1 DEF Update, history
    <2>2. CASE call[s].id \in VisibleRows(s) /\ ~Violates(s)
      <3> DEFINE r == call[s].id
      <3>1. PICK i \in FeesWritten(call[s]), u \in FeesWritten(call[s]) :
               Store(s, r, SetRow(Visible(s, r), call[s], i, u))
        BY <1>3, <2>2 DEF Update
      <3>2. i \in Fees /\ u \in Fees /\ call[s] \in Account
        BY DEF TypeInv, TypeOK, FeesWritten, Account
      <3>3. r \in RowIds /\ Visible(s, r) \in Row /\ Visible(s, r) # NoRow
        BY <2>2, VisibleType DEF VisibleRows, TypeInv
      <3>4. owner[r] \in {NoSession, s}
        BY <1>3, <2>2, <3>3, TargetIsFree DEF Update, Target
      <3> DEFINE row == SetRow(Visible(s, r), call[s], i, u)
      <3>5. row \in Row /\ row.balance = Visible(s, r).balance
        <4>1. row \in Row
          BY <3>2, <3>3, SetRowType
        <4> HIDE DEF r
        <4> QED BY <3>2, <3>3, <4>1, SetRowBalance
      <3>6. pending[s][r] \in Int /\ UNCHANGED <<committed, ledger, pending>>
        BY <1>3, <3>3 DEF Update, history, TypeInv, TypeOK
      <3>7. Store(s, r, row)
        BY <3>1
      <3> HIDE DEF r, row
      <3>8. row.balance - BalanceSeen(s, r) = pending'[s][r] - pending[s][r]
        BY <3>3, <3>5, <3>6 DEF BalanceSeen, Row
      <3> QED BY <3>3, <3>4, <3>5, <3>6, <3>7, <3>8, StoreLedger
    <2> QED BY <1>3, <2>1, <2>2 DEF Update
  <1>4. ASSUME NEW s \in Sessions, UpdateBalance(s)
        PROVE  LedgerInv'
    <2>1. CASE call[s].id \in VisibleRows(s)
      <3> DEFINE r == call[s].id
                 row == Credited(Visible(s, r), amount[s])
      <3>1. r \in RowIds /\ Visible(s, r) \in Row /\ Visible(s, r) # NoRow
        BY <2>1, VisibleType DEF VisibleRows, TypeInv
      <3>2. owner[r] \in {NoSession, s}
        BY <1>4, <2>1, <3>1, TargetIsFree DEF UpdateBalance, Target
      <3>3. amount[s] \in Int
        BY DEF TypeInv, TypeOK
      <3>4. row \in Row /\ row.balance = Visible(s, r).balance + amount[s]
        BY <3>1, <3>3, CreditedType
      <3>5. /\ Store(s, r, row)
            /\ pending' = [pending EXCEPT ![s][r] = @ + amount[s]]
            /\ UNCHANGED <<committed, ledger>>
        BY <1>4, <2>1 DEF UpdateBalance
      <3> HIDE DEF r, row
      <3>6. \A t \in Sessions, q \in RowIds :
               pending'[t][q] = IF t = s /\ q = r THEN pending[t][q] + amount[s]
                                                 ELSE pending[t][q]
        BY <3>1, <3>5 DEF TypeInv, TypeOK
      <3>7. pending[s][r] \in Int /\ BalanceSeen(s, r) \in Int
            /\ BalanceSeen(s, r) = Visible(s, r).balance
        BY <3>1 DEF TypeInv, TypeOK, BalanceSeen, Row
      <3>8. /\ pending'[s][r] \in Int
            /\ row.balance - BalanceSeen(s, r) = pending'[s][r] - pending[s][r]
        BY <3>1, <3>3, <3>4, <3>6, <3>7
      <3> QED BY <3>1, <3>2, <3>4, <3>5, <3>6, <3>8, StoreLedger
    <2>2. CASE call[s].id \notin VisibleRows(s)
      BY <1>1, <1>4, <2>2 DEF UpdateBalance
    <2> QED BY <2>1, <2>2
  <1>5. ASSUME NEW s \in Sessions, Commit(s) PROVE LedgerInv'
    BY <1>5, CommitLedger
  <1>6. ASSUME NEW s \in Sessions, Rollback(s) PROVE LedgerInv'
    BY <1>6, RollbackLedger
  <1>7. ASSUME NEW s \in Sessions,
               \/ \E account \in InsertAccounts : BeginInsert(s, account)
               \/ \E id \in LookedUp : Get(s, id)
               \/ \E account \in Updates(s) : BeginUpdate(s, account)
               \/ \E r \in RowIds, amt \in Amounts : BeginUpdateBalance(s, r, amt)
               \/ \E id \in AffiliateIds : PickFree(s, id) \/ PickTaken(s, id)
        PROVE  UNCHANGED <<committed, dirty, owner, ledger, pending>>
    BY <1>7 DEF BeginInsert, Get, BeginUpdate, BeginUpdateBalance, PickFree, PickTaken,
                rowVars, history
  <1>8. CASE UNCHANGED vars
    BY <1>1, <1>8 DEF vars
  <1> QED
    BY <1>1, <1>2, <1>3, <1>4, <1>5, <1>6, <1>7, <1>8
       DEF Next, Step, Abort, Disconnect, DeadlockVictim

(***************************************************************************)
(* For any number of sessions, rows and calls: the committed balance is    *)
(* the sum of the committed UpdateBalance amounts, however Updates of      *)
(* stale accounts interleave (AffiliateWork.cpp, Update, UpdateBalance).   *)
(***************************************************************************)
THEOREM BalancesAreLedgers == Spec => []BalanceLedger
  <1>1. LedgerInv => BalanceLedger BY DEF LedgerInv, LedgerOK, BalanceLedger
  <1> QED BY <1>1, InitType, StepType, InitLedger, StepLedger, PTL DEF Spec

-----------------------------------------------------------------------------
(* The check before the INSERT *)

\* What the steps of one session leave of the other sessions' running checks.
OthersKeepCalls(s) ==
    \A t \in Sessions \ {s} :
        pc'[t] = pc[t] /\ call'[t] = call[t] /\ seen'[t] = seen[t]

\* Leaving the loop: the picked id is held by no row the session sees.
LEMMA PickChecks ==
  ASSUME TypeInv, ChecksOK, NEW s \in Sessions, NEW id \in AffiliateIds, PickFree(s, id)
  PROVE  ChecksOK'
  <1>1. UNCHANGED <<committed, dirty, owner>>
    BY DEF PickFree, rowVars
  <1>2. VersionsOK' /\ CommittedChecksOK' /\ DirtyChecksOK'
    BY <1>1 DEF ChecksOK, VersionsOK, CommittedChecksOK, DirtyChecksOK, Visible, Differs
  <1>3. CASE Insertable(call[s])
    <2> DEFINE picked == [call[s] EXCEPT !.affiliateId = id]
    <2>1. /\ pc' = [pc EXCEPT ![s] = "inserting"]
          /\ call' = [call EXCEPT ![s] = picked]
          /\ seen' = [seen EXCEPT ![s] = VisibleRows(s)]
      BY <1>3 DEF PickFree
    <2>2. picked.affiliateId = id
      <3>1. call[s] \in Account BY DEF TypeInv, TypeOK
      <3> QED BY <3>1, SetFieldType
    <2> HIDE DEF picked
    <2>3. /\ call'[s] = picked /\ seen'[s] = VisibleRows(s)
          /\ \A t \in Sessions \ {s} :
                pc'[t] = pc[t] /\ call'[t] = call[t] /\ seen'[t] = seen[t]
      BY <2>1 DEF TypeInv, TypeOK
    <2>4. \A q \in VisibleRows(s) : Visible(s, q) # NoRow /\ Visible(s, q).affiliateId # id
      <3>1. ~Exists(s, id) BY DEF PickFree
      <3> QED BY <3>1 DEF Exists, VisibleRows
    <2>5. \A t \in Sessions, q \in RowIds : Visible(t, q)' = Visible(t, q)
      BY <1>1 DEF Visible
    <2>6. seen \in [Sessions -> SUBSET RowIds] /\ VisibleRows(s) \subseteq RowIds
      BY DEF TypeInv, TypeOK, VisibleRows
    <2>7. RunningChecksOK'
      BY <2>2, <2>3, <2>4, <2>5, <2>6 DEF ChecksOK, RunningChecksOK, Differs
    <2> QED BY <1>2, <2>7 DEF ChecksOK
  <1>4. CASE ~Insertable(call[s])
    <2>1. End(s, "open") BY <1>4 DEF PickFree
    <2>2. pc'[s] = "open" /\ OthersKeepCalls(s)
      BY <2>1 DEF End, OthersKeepCalls, TypeInv, TypeOK
    <2>3. RunningChecksOK'
      BY <1>1, <2>2 DEF ChecksOK, RunningChecksOK, OthersKeepCalls, Visible, Differs
    <2> QED BY <1>2, <2>3 DEF ChecksOK
  <1> QED BY <1>3, <1>4

\* Writing a row: the new version changes an id only by marking it, and its own
\* check holds of what the session sees.
LEMMA StoreChecks ==
  ASSUME TypeInv, LocksOK, ChecksOK, NEW s \in Sessions, NEW r \in RowIds, NEW row \in Row,
         owner[r] \in {NoSession, s}, Store(s, r, row),
         pc'[s] = "open", OthersKeepCalls(s), UNCHANGED committed,
         row.assigned = "insert" /\ Visible(s, r) # NoRow =>
            /\ Visible(s, r).assigned = "insert"
            /\ Visible(s, r).affiliateId = row.affiliateId,
         \A q \in row.seen :
            /\ Visible(s, q) # NoRow
            /\ row.assigned = "insert" => Differs(Visible(s, q), row.affiliateId)
  PROVE  ChecksOK'
  <1>1. /\ dirty'[r] = row /\ owner'[r] = s
        /\ \A q \in RowIds \ {r} : dirty'[q] = dirty[q] /\ owner'[q] = owner[q]
    BY DEF Store, TypeInv, TypeOK
  <1>2. \A q \in RowIds : Visible(s, q)' = IF q = r THEN row ELSE Visible(s, q)
    BY <1>1 DEF Visible
  <1>3. \A t \in Sessions \ {s}, q \in RowIds : Visible(t, q)' = Visible(t, q)
    BY <1>1, SessionsAssumption DEF Visible
  <1>4. VersionsOK'
    <2>1. committed[r] # NoRow /\ row.assigned = "insert" =>
             committed[r].assigned = "insert" /\ committed[r].affiliateId = row.affiliateId
      BY SessionsAssumption DEF LocksOK, Visible, ChecksOK, VersionsOK
    <2> QED BY <1>1, <2>1 DEF ChecksOK, VersionsOK
  <1>5. RunningChecksOK'
    <2>1. seen \in [Sessions -> SUBSET RowIds] BY DEF TypeInv, TypeOK
    <2> QED BY <1>3, <2>1 DEF OthersKeepCalls, ChecksOK, RunningChecksOK, Differs
  <1>6. CommittedChecksOK'
    BY DEF ChecksOK, CommittedChecksOK, Differs
  <1>7. ASSUME NEW t \in Sessions, NEW p \in RowIds, owner'[p] = t, NEW q \in dirty'[p].seen
        PROVE  /\ Visible(t, q)' # NoRow
               /\ dirty'[p].assigned = "insert" =>
                     Differs(Visible(t, q)', dirty'[p].affiliateId)
    <2>1. row # NoRow BY NoRowAssumption
    <2>2. CASE p = r
      <3>1. t = s /\ q \in row.seen /\ q \in RowIds /\ dirty'[p] = row
        BY <1>1, <1>7, <2>2 DEF Row
      <3>2. q = r => row.assigned # "insert"
        BY <3>1 DEF Differs
      <3> QED BY <1>2, <2>1, <3>1, <3>2
    <2>3. CASE p # r
      <3>1. dirty'[p] = dirty[p] /\ owner[p] = t
        BY <1>1, <1>7, <2>3
      <3>2. dirty[p] \in Row
        BY <3>1, SessionsAssumption DEF LocksOK, TypeInv, TypeOK
      <3>3. q \in RowIds /\ q \in dirty[p].seen
        BY <1>7, <3>1, <3>2 DEF Row
      <3>4. /\ Visible(t, q) # NoRow
            /\ dirty[p].assigned = "insert" => Differs(Visible(t, q), dirty[p].affiliateId)
        BY <3>1, <3>3 DEF ChecksOK, DirtyChecksOK
      <3>5. CASE t # s \/ q # r
        BY <1>2, <1>3, <3>1, <3>3, <3>4, <3>5
      <3>6. CASE t = s /\ q = r
        BY <1>2, <2>1, <3>1, <3>3, <3>4, <3>6 DEF Differs
      <3> QED BY <3>5, <3>6
    <2> QED BY <2>2, <2>3
  <1>8. DirtyChecksOK'
    BY <1>7 DEF DirtyChecksOK, Differs
  <1> QED BY <1>4, <1>5, <1>6, <1>8 DEF ChecksOK

\* A commit publishes rows that Insert already checked against what is committed.
LEMMA CommitChecks ==
  ASSUME TypeInv, LocksOK, ChecksOK, NEW s \in Sessions, Commit(s)
  PROVE  ChecksOK'
  <1>1. UNCHANGED <<dirty, pc, call, seen>>
    BY DEF Commit
  <1>2. \A q \in RowIds :
           /\ committed'[q] = Visible(s, q)
           /\ owner'[q] = IF owner[q] = s THEN NoSession ELSE owner[q]
    BY DEF Commit, Own, Visible
  <1>3. \A t \in Sessions, q \in RowIds :
           Visible(t, q)' = IF owner[q] = s THEN dirty[q] ELSE Visible(t, q)
    BY <1>1, <1>2, SessionsAssumption DEF Visible
  <1>4. ASSUME NEW q \in RowIds, committed[q] # NoRow
        PROVE  /\ dirty[q] # NoRow
               /\ \A id \in AffiliateIds : Differs(committed[q], id) => Differs(dirty[q], id)
    BY <1>4 DEF LocksOK, ChecksOK, VersionsOK, Differs
  <1>5. VersionsOK'
    BY <1>1, <1>2 DEF Visible, ChecksOK, VersionsOK
  <1>6. ASSUME NEW t \in Sessions, NEW q \in RowIds, Visible(t, q) # NoRow
        PROVE  /\ Visible(t, q)' # NoRow
               /\ \A id \in AffiliateIds : Differs(Visible(t, q), id) => Differs(Visible(t, q)', id)
    <2>1. CASE owner[q] = s /\ t # s
      BY <1>3, <1>4, <1>6, <2>1 DEF Visible
    <2>2. CASE owner[q] # s \/ t = s
      BY <1>3, <1>6, <2>2 DEF Visible
    <2> QED BY <2>1, <2>2
  <1>7. RunningChecksOK'
    <2>1. ASSUME NEW t \in Sessions, pc[t] = "inserting", NEW q \in seen[t]
          PROVE  Differs(Visible(t, q)', call[t].affiliateId)
      <3>1. q \in RowIds /\ call[t].affiliateId \in AffiliateIds
        BY <2>1 DEF TypeInv, TypeOK, CallOK
      <3>2. Differs(Visible(t, q), call[t].affiliateId)
        BY <2>1 DEF ChecksOK, RunningChecksOK
      <3> QED BY <1>6, <3>1, <3>2 DEF Differs
    <2> QED BY <1>1, <2>1 DEF RunningChecksOK, Differs
  <1>8. CommittedChecksOK'
    <2>1. ASSUME NEW r \in RowIds, committed'[r] # NoRow, NEW q \in committed'[r].seen
          PROVE  /\ committed'[q] # NoRow
                 /\ committed'[r].assigned = "insert" =>
                       Differs(committed'[q], committed'[r].affiliateId)
      <3>1. committed'[r] = Visible(s, r) /\ Visible(s, r) \in Row
        BY <1>2, <2>1, VisibleType DEF TypeInv
      <3>2. q \in RowIds /\ committed'[q] = Visible(s, q)
        BY <1>2, <2>1, <3>1 DEF Row
      <3>3. CASE owner[r] = s
        <4>1. Visible(s, r) = dirty[r] BY <3>3 DEF Visible
        <4> QED BY <2>1, <3>1, <3>2, <3>3, <4>1 DEF ChecksOK, DirtyChecksOK
      <3>4. CASE owner[r] # s
        <4>1. Visible(s, r) = committed[r] BY <3>4 DEF Visible
        <4>2. /\ committed[q] # NoRow
              /\ committed[r].assigned = "insert" =>
                    Differs(committed[q], committed[r].affiliateId)
          BY <2>1, <3>1, <4>1 DEF ChecksOK, CommittedChecksOK
        <4>3. Visible(s, q) \in {committed[q], dirty[q]} BY DEF Visible
        <4>4. committed[r].affiliateId \in AffiliateIds BY <3>1, <4>1 DEF Row
        <4> QED BY <1>4, <3>1, <3>2, <4>1, <4>2, <4>3, <4>4
      <3> QED BY <3>3, <3>4
    <2> QED BY <2>1 DEF CommittedChecksOK, Differs
  <1>9. DirtyChecksOK'
    <2>1. ASSUME NEW t \in Sessions, NEW r \in RowIds, owner'[r] = t, NEW q \in dirty[r].seen
          PROVE  /\ Visible(t, q)' # NoRow
                 /\ dirty[r].assigned = "insert" =>
                       Differs(Visible(t, q)', dirty[r].affiliateId)
      <3>1. owner[r] = t
        BY <1>2, <2>1, SessionsAssumption
      <3>2. dirty[r] \in Row
        BY <3>1, SessionsAssumption DEF LocksOK, TypeInv, TypeOK
      <3>3. q \in RowIds /\ dirty[r].affiliateId \in AffiliateIds
        BY <2>1, <3>2 DEF Row
      <3>4. /\ Visible(t, q) # NoRow
            /\ dirty[r].assigned = "insert" => Differs(Visible(t, q), dirty[r].affiliateId)
        BY <2>1, <3>1 DEF ChecksOK, DirtyChecksOK
      <3> QED BY <1>6, <3>3, <3>4
    <2> QED BY <1>1, <2>1 DEF DirtyChecksOK, Differs
  <1> QED BY <1>5, <1>7, <1>8, <1>9 DEF ChecksOK

\* A rollback takes back rows; what earlier checks saw stays explained.
LEMMA RollbackChecks ==
  ASSUME TypeInv, LocksOK, ChecksOK, NEW s \in Sessions, Rollback(s)
  PROVE  ChecksOK'
  <1>1. /\ UNCHANGED committed
        /\ \A q \in RowIds :
              /\ dirty'[q] = IF owner[q] = s THEN committed[q] ELSE dirty[q]
              /\ owner'[q] = IF owner[q] = s THEN NoSession ELSE owner[q]
    BY DEF Rollback, Own
  <1>2. pc'[s] = "open" /\ OthersKeepCalls(s)
    BY DEF Rollback, End, OthersKeepCalls, TypeInv, TypeOK
  <1>3. \A t \in Sessions \ {s}, q \in RowIds : Visible(t, q)' = Visible(t, q)
    BY <1>1, SessionsAssumption DEF Visible
  <1>4. VersionsOK'
    BY <1>1 DEF ChecksOK, VersionsOK
  <1>5. RunningChecksOK'
    <2>1. seen \in [Sessions -> SUBSET RowIds] BY DEF TypeInv, TypeOK
    <2> QED BY <1>2, <1>3, <2>1 DEF OthersKeepCalls, ChecksOK, RunningChecksOK, Differs
  <1>6. CommittedChecksOK'
    BY <1>1 DEF ChecksOK, CommittedChecksOK, Differs
  <1>7. DirtyChecksOK'
    <2>1. ASSUME NEW t \in Sessions, NEW r \in RowIds, owner'[r] = t, NEW q \in dirty'[r].seen
          PROVE  /\ Visible(t, q)' # NoRow
                 /\ dirty'[r].assigned = "insert" =>
                       Differs(Visible(t, q)', dirty'[r].affiliateId)
      <3>1. t # s /\ owner[r] = t /\ dirty'[r] = dirty[r]
        BY <1>1, <2>1, SessionsAssumption
      <3>2. dirty[r] \in Row
        BY <3>1, SessionsAssumption DEF LocksOK, TypeInv, TypeOK
      <3>3. q \in RowIds
        BY <2>1, <3>1, <3>2 DEF Row
      <3> QED BY <1>3, <2>1, <3>1, <3>3 DEF ChecksOK, DirtyChecksOK
    <2> QED BY <2>1 DEF DirtyChecksOK, Differs
  <1> QED BY <1>4, <1>5, <1>6, <1>7 DEF ChecksOK

\* A statement that fails, or a call that starts, leaves the checks alone.
LEMMA LocalChecks ==
  ASSUME TypeInv, ChecksOK, NEW s \in Sessions,
         UNCHANGED <<committed, dirty, owner>>, pc'[s] # "inserting", OthersKeepCalls(s)
  PROVE  ChecksOK'
  <1>1. VersionsOK' /\ CommittedChecksOK' /\ DirtyChecksOK'
    BY DEF ChecksOK, VersionsOK, CommittedChecksOK, DirtyChecksOK, Visible, Differs
  <1>2. RunningChecksOK'
    BY DEF ChecksOK, RunningChecksOK, OthersKeepCalls, Visible, Differs
  <1> QED BY <1>1, <1>2 DEF ChecksOK

\* A call that ends changes the local variables of its own session only.
LEMMA EndKeepsOthers ==
  ASSUME TypeInv, NEW s \in Sessions, NEW l \in {"open", "failed"}, End(s, l)
  PROVE  pc'[s] = l /\ OthersKeepCalls(s)
  BY DEF End, OthersKeepCalls, TypeInv, TypeOK

\* A call that starts changes the local variables of its own session only.
LEMMA StartKeepsOthers ==
  ASSUME TypeInv, NEW s \in Sessions, NEW l \in {"picking", "updating", "crediting"},
         NEW account, NEW amt, Start(s, l, account, amt)
  PROVE  pc'[s] = l /\ OthersKeepCalls(s)
  BY DEF Start, OthersKeepCalls, TypeInv, TypeOK

\* The INSERT stores the id that the loop picked.
LEMMA InsertChecks ==
  ASSUME TypeInv, LocksOK, ChecksOK, NEW s \in Sessions, InsertRow(s)
  PROVE  ChecksOK'
  <1>1. CASE Violates(s)
    BY <1>1, EndKeepsOthers, LocalChecks DEF InsertRow
  <1>2. CASE ~Violates(s)
    <2> DEFINE r == Target(s)
               row == NewRow(s)
    <2>1. r \in RowIds
      BY <1>2 DEF InsertRow, Violates
    <2>2. owner[r] = NoSession /\ committed[r] = NoRow
      BY <1>2, <2>1, InsertedIsNew DEF InsertRow
    <2>3. Visible(s, r) = NoRow
      BY <2>2, SessionsAssumption DEF Visible
    <2>4. row \in Row
      BY NewRowType DEF InsertRow
    <2>5. /\ Store(s, r, row) /\ UNCHANGED committed
          /\ pc'[s] = "open" /\ OthersKeepCalls(s)
      BY <1>2, EndKeepsOthers DEF InsertRow
    <2>6. \A q \in row.seen : Differs(Visible(s, q), row.affiliateId)
      BY DEF InsertRow, NewRow, ChecksOK, RunningChecksOK
    <2> HIDE DEF r, row
    <2>7. \A q \in row.seen :
             /\ Visible(s, q) # NoRow
             /\ row.assigned = "insert" => Differs(Visible(s, q), row.affiliateId)
      BY <2>6 DEF Differs
    <2> QED BY <2>1, <2>2, <2>3, <2>4, <2>5, <2>7, StoreChecks
  <1> QED BY <1>1, <1>2

\* An UPDATE of a visible row v: the new version keeps v's history and, unless
\* it is marked, v's affiliate id.
LEMMA RewriteChecks ==
  ASSUME TypeInv, LocksOK, ChecksOK, NEW s \in Sessions, NEW r \in VisibleRows(s),
         NEW row \in Row, Contended(s) = {}, r = Target(s),
         pc[s] \in {"updating", "crediting"},
         Store(s, r, row), UNCHANGED committed, pc'[s] = "open", OthersKeepCalls(s),
         row.seen = Visible(s, r).seen,
         row.assigned = "insert" =>
            /\ Visible(s, r).assigned = "insert"
            /\ Visible(s, r).affiliateId = row.affiliateId
  PROVE  ChecksOK'
  <1>1. r \in RowIds /\ Visible(s, r) # NoRow
    BY DEF VisibleRows
  <1>2. Visible(s, r) \in Row
    BY <1>1, VisibleType DEF TypeInv
  <1>3. owner[r] \in {NoSession, s}
    BY <1>1, TargetIsFree
  <1>4. \A q \in Visible(s, r).seen :
           /\ Visible(s, q) # NoRow
           /\ Visible(s, r).assigned = "insert" =>
                 Differs(Visible(s, q), Visible(s, r).affiliateId)
    <2>1. CASE owner[r] = s
      BY <1>1, <2>1 DEF Visible, ChecksOK, DirtyChecksOK
    <2>2. CASE owner[r] # s
      <3>1. Visible(s, r) = committed[r]
        BY <2>2 DEF Visible
      <3>2. ASSUME NEW q \in committed[r].seen
            PROVE  /\ Visible(s, q) # NoRow
                   /\ committed[r].assigned = "insert" =>
                         Differs(Visible(s, q), committed[r].affiliateId)
        <4>1. q \in RowIds
          BY <1>2, <3>1, <3>2 DEF Row
        <4>2. /\ committed[q] # NoRow
              /\ committed[r].assigned = "insert" =>
                    Differs(committed[q], committed[r].affiliateId)
          BY <1>1, <3>1, <3>2 DEF ChecksOK, CommittedChecksOK
        <4>3. CASE owner[q] # s
          BY <4>2, <4>3 DEF Visible
        <4>4. CASE owner[q] = s
          <5>1. Visible(s, q) = dirty[q] /\ dirty[q] # NoRow
            BY <4>1, <4>4, SessionsAssumption DEF Visible, LocksOK
          <5>2. dirty[q].assigned = "insert" =>
                   /\ committed[q].assigned = "insert"
                   /\ committed[q].affiliateId = dirty[q].affiliateId
            BY <4>1, <4>2 DEF ChecksOK, VersionsOK
          <5> QED BY <4>2, <5>1, <5>2 DEF Differs
        <4> QED BY <4>3, <4>4
      <3> QED BY <3>1, <3>2
    <2> QED BY <2>1, <2>2
  <1>5. \A q \in row.seen :
           /\ Visible(s, q) # NoRow
           /\ row.assigned = "insert" => Differs(Visible(s, q), row.affiliateId)
    BY <1>4
  <1> QED BY <1>1, <1>3, <1>5, StoreChecks

\* An empty table satisfies the invariant on locks and the one on checks.
LEMMA InitChecks == Init => LocksOK /\ ChecksOK
  BY SessionsAssumption
     DEF Init, LocksOK, ChecksOK, VersionsOK, RunningChecksOK, CommittedChecksOK, DirtyChecksOK

\* Every step keeps the record of what the checks saw; one step per action.
LEMMA StepChecks == TypeInv /\ LocksOK /\ ChecksOK /\ [Next]_vars => ChecksOK'
  <1> SUFFICES ASSUME TypeInv, LocksOK, ChecksOK, [Next]_vars PROVE ChecksOK'
    OBVIOUS
  <1>1. ASSUME NEW s \in Sessions, NEW account, BeginInsert(s, account)
        PROVE  ChecksOK'
    BY <1>1, StartKeepsOthers, LocalChecks DEF BeginInsert, rowVars
  <1>2. ASSUME NEW s \in Sessions, NEW id, Get(s, id)
        PROVE  ChecksOK'
    <2>1. pc'[s] = "open" /\ OthersKeepCalls(s)
      BY <1>2 DEF Get, OthersKeepCalls
    <2> QED BY <1>2, <2>1, LocalChecks DEF Get, rowVars
  <1>3. ASSUME NEW s \in Sessions, NEW account, BeginUpdate(s, account)
        PROVE  ChecksOK'
    BY <1>3, StartKeepsOthers, LocalChecks DEF BeginUpdate, rowVars
  <1>4. ASSUME NEW s \in Sessions, NEW r, NEW amt, BeginUpdateBalance(s, r, amt)
        PROVE  ChecksOK'
    BY <1>4, StartKeepsOthers, LocalChecks DEF BeginUpdateBalance, rowVars
  <1>5. ASSUME NEW s \in Sessions, NEW id \in AffiliateIds, PickFree(s, id)
        PROVE  ChecksOK'
    BY <1>5, PickChecks
  <1>6. ASSUME NEW s \in Sessions, NEW id \in AffiliateIds, PickTaken(s, id)
        PROVE  ChecksOK'
    <2>1. UNCHANGED <<committed, dirty, owner>>
      BY <1>6 DEF PickTaken, rowVars
    <2>2. CASE LastAttempt(attempt[s])
      BY <1>6, <2>1, <2>2, EndKeepsOthers, LocalChecks DEF PickTaken
    <2>3. CASE ~LastAttempt(attempt[s])
      BY <1>6, <2>1, <2>3, LocalChecks DEF PickTaken, OthersKeepCalls
    <2> QED BY <2>2, <2>3
  <1>7. ASSUME NEW s \in Sessions, InsertRow(s)
        PROVE  ChecksOK'
    BY <1>7, InsertChecks
  <1>8. ASSUME NEW s \in Sessions, Update(s)
        PROVE  ChecksOK'
    <2>1. CASE UNCHANGED <<dirty, owner>>
      BY <1>8, <2>1, EndKeepsOthers, LocalChecks DEF Update
    <2>2. CASE call[s].id \in VisibleRows(s) /\ ~Violates(s)
      <3> DEFINE r == call[s].id
                 v == Visible(s, r)
      <3>1. PICK i \in FeesWritten(call[s]), u \in FeesWritten(call[s]) :
               Store(s, r, SetRow(v, call[s], i, u)) /\ End(s, "open")
        BY <1>8, <2>2 DEF Update
      <3> DEFINE row == SetRow(v, call[s], i, u)
      <3>2. i \in Fees /\ u \in Fees /\ call[s] \in Account
        BY DEF TypeInv, TypeOK, FeesWritten, Account
      <3>3. v \in Row
        BY <2>2, VisibleType DEF VisibleRows, TypeInv
      <3>4. row \in Row /\ row.seen = v.seen
            /\ (row.assigned = "insert" =>
                   v.assigned = "insert" /\ v.affiliateId = row.affiliateId)
        <4>1. row \in Row BY <3>2, <3>3, SetRowType
        <4> HIDE DEF r, v
        <4> QED BY <3>2, <3>3, <4>1, SetRowHistory
      <3>5. pc'[s] = "open" /\ OthersKeepCalls(s)
        BY <3>1, EndKeepsOthers
      <3>6. Store(s, r, row) /\ UNCHANGED committed
        BY <1>8, <3>1 DEF Update
      <3>7. Contended(s) = {} /\ r = Target(s) /\ pc[s] = "updating" /\ r \in VisibleRows(s)
        BY <1>8, <2>2 DEF Update, Target
      <3> HIDE DEF r, row
      <3> QED BY <3>4, <3>5, <3>6, <3>7, RewriteChecks
    <2> QED BY <1>8, <2>1, <2>2 DEF Update
  <1>9. ASSUME NEW s \in Sessions, UpdateBalance(s)
        PROVE  ChecksOK'
    <2>1. CASE call[s].id \in VisibleRows(s)
      <3> DEFINE r == call[s].id
                 v == Visible(s, r)
                 row == Credited(v, amount[s])
      <3>1. v \in Row
        BY <2>1, VisibleType DEF VisibleRows, TypeInv
      <3>2. amount[s] \in Int
        BY DEF TypeInv, TypeOK
      <3>3. row \in Row
        BY <3>1, <3>2, CreditedType
      <3>4. row.seen = v.seen /\ row.assigned = v.assigned /\ row.affiliateId = v.affiliateId
        <4> HIDE DEF v
        <4> QED BY <3>1 DEF Credited, Row
      <3>5. pc'[s] = "open" /\ OthersKeepCalls(s)
        BY <1>9, <2>1, EndKeepsOthers DEF UpdateBalance
      <3>6. Store(s, r, row) /\ UNCHANGED committed
        BY <1>9, <2>1 DEF UpdateBalance
      <3>7. Contended(s) = {} /\ r = Target(s) /\ pc[s] = "crediting" /\ r \in VisibleRows(s)
        BY <1>9, <2>1 DEF UpdateBalance, Target
      <3> HIDE DEF r, row
      <3> QED BY <3>3, <3>4, <3>5, <3>6, <3>7, RewriteChecks
    <2>2. CASE call[s].id \notin VisibleRows(s)
      BY <1>9, <2>2, EndKeepsOthers, LocalChecks DEF UpdateBalance
    <2> QED BY <2>1, <2>2
  <1>10. ASSUME NEW s \in Sessions, Commit(s) PROVE ChecksOK'
    BY <1>10, CommitChecks
  <1>11. ASSUME NEW s \in Sessions, Rollback(s) PROVE ChecksOK'
    BY <1>11, RollbackChecks
  <1>12. CASE UNCHANGED vars
    BY <1>12 DEF vars, ChecksOK, VersionsOK, RunningChecksOK, CommittedChecksOK,
                 DirtyChecksOK, Visible, Differs
  <1> QED
    BY <1>1, <1>2, <1>3, <1>4, <1>5, <1>6, <1>7, <1>8, <1>9, <1>10, <1>11, <1>12
       DEF Next, Step, Abort, Disconnect, DeadlockVictim

(***************************************************************************)
(* For any number of sessions and any range of ids: two accounts that      *)
(* Insert gave the same affiliate id were inserted by overlapping          *)
(* transactions, neither of whose checks saw the other's row               *)
(* (AffiliateWork.cpp, Insert).                                            *)
(***************************************************************************)
THEOREM DuplicatesOverlap == Spec => []DuplicateOnlyFromOverlap
  <1>1. CommittedChecksOK => DuplicateOnlyFromOverlap
    BY DEF CommittedChecksOK, DuplicateOnlyFromOverlap, Differs
  <1>2. LedgerInv => LocksOK BY DEF LedgerInv
  <1>3. ChecksOK => CommittedChecksOK BY DEF ChecksOK
  <1>4. Init => ChecksOK BY InitChecks
  <1> QED BY <1>1, <1>2, <1>3, <1>4, InitType, StepType, InitLedger, StepLedger, StepChecks,
             PTL DEF Spec
=============================================================================
