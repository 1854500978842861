# Formal models of the affiliate, user-status and blacklist services

This directory holds TLA+ models of the data-access classes ("Works") of the
repository, TLC configurations that check them on small instances, and proofs
that TLAPS checks. Every definition is translated from the C++ code and the SQL
migrations; `PROJECT.json` maps each one to its lines.

The repository is a partial snapshot. It has the bodies of seven Works, two
headers with embedded SQL or types, the declarations of several services, four
directories of migrations and three unit tests. It has no `main`, no HTTP
handlers and no body for `db::Work`, `C6Work`, `ExchangeRatesWork` or
`SumAffiliateTransactions`. What is called and is not here is modelled from how it is used
and is marked external.

## 1. Inventory

| Component | State it keeps | Operations | Hard behaviour | What makes it correct |
|---|---|---|---|---|
| `AffiliateWork` (accounts of affiliates) | table `affiliate_info`, its sequence | `Insert`, `Get`, `Select`, `Count`, `Update`, `UpdateBalance`, CSV export | check-then-insert of a random id; stale accounts written back; credits of several transactions; lock waits | one account per affiliate id; no credit lost; each call ends |
| `AmountLimitRulesWork` (status of a user) | reads `document_info`, `credit_card_info`, `transaction_info`, `user_survey_info`, `user_c6_info`, `user_needs_review`, `user_account_info`, `country_poi_requirements` | `DetermineUserFlags`, `DetermineUserStatus`, `GetRequiredInfo`, `GetUserTransactionSumTotal` | flags inserted and erased in an order that matters; SQL `NULL`; two queries that must agree | only a cleared user is `ACTIVE`; nobody is stuck; the two queries differ only where SQL compares with `NULL` |
| `AffiliateTransactionListWork` (statistics pages) | reads `transaction_info`, `exchange_rate`, `affiliate_info`, `user_account_info` | `SelectChart`, `SelectGrid`, `SelectTotals`, `CountSignUps` | a page is two or three statements; rows in any order; joins that drop or multiply rows; gap filling | each amount on its day, in one column, once; a chart without holes |
| `BlacklistedIpInfoWork` | table `ip_blacklist` | `Insert`, `Update`, `Delete`, `Select`, `Count`, `IsIpBlacklisted`, `GetBlacklistNames` | prefix matching of addresses; entries for one user or for all; paging while rows change | a lifted address is free; a change leaves no row incomplete; a list hides nothing |
| `AffiliateTransactionWork` | reads a view of transactions and `affiliate_info` | `Count`, `Select` | the count and the page are two statements; who sees a transaction depends on accounts that change | a list misses no row that was there all along; nobody sees the transactions of strangers |
| `AttachmentsWork` | table of attachments | `Insert`, `Select` | deleted attachments are hidden by a filter | a deleted attachment is never shown |
| `BitcoinTransactionInfoWork` | table of bitcoin transactions | `Insert` of a list, `Select` | throws half-way through building one statement | all of a list or nothing |
| Migrations | the schema | chains of SQL files that change and move data | explicit ids next to sequences; moved columns | no row lost, keys stay free |
| Service headers (`insta::Affiliate`, `Admin*`, `AffiliateSecurity`, `AffiliateSignup`) | caches, declared | declarations only | cannot be seen | not modelled |
| Tests | none | expectations of `AmountLimitsRuleWorkTest` | | the rules of the models meet them |
| `svc.yml` | none | | | not modelled |

Interactions. Every Work runs inside a transaction that its caller owns: the
Work neither commits nor rolls back, and a caller may make several calls in one
transaction. Works meet only in the database. `AmountLimitRulesWork` calls
`C6Work` after its own query and looks at the transactions that the payment
services write; the statistics read the same transactions and the affiliate ids
that `AffiliateWork` hands out; a stale account that a caller read with `Get` comes back in
`Update`. Accordingly the actors in the models are the callers' transactions,
the clients and the staff who change records, and the services that finish payments.

## 2. Modules

| Module | Models | Used by |
|---|---|---|
| `AffiliateAccounts` | `AffiliateWork::Insert/Get/Update/UpdateBalance` under concurrent transactions | `MCAffiliateAccounts`, `AffiliateAccountsProofs` |
| `AccountBook` | what it promises of the table: the abstract specification | `AffiliateAccounts` (instance) |
| `AffiliateAccountsProofs` | theorems about it | `AccountBookProofs` |
| `AccountBookProofs` | that it implements the book | |
| `UserStatusRules` | the pure rules: one query row to flags to status, and what `GetRequiredInfo` decides | `UserStatus`, `UserStatusTests` |
| `UserStatus` | the records of one user, the query, `DetermineUserStatus` with its C6 call, `GetRequiredInfo` | `MCUserStatus` |
| `UserStatusTests` | the unit tests of the rules, as assumptions | `MCUserCards` |
| `UserStatusProofs` | theorems about the rules and the status | |
| `AffiliateReports` | the chart, the grid and the total of sign-ups, statement by statement | `MCAffiliateReports`, `AffiliateReportsProofs` |
| `AffiliateReportsProofs` | theorems about the grid and the total of sign-ups | `ChartProofs` |
| `ChartProofs` | theorems about the chart and the types | |
| `TransactionTables` | the tables that lists and sums read, and how they change | `AffiliateLists`, `TransactionSums` |
| `PagedList` | a reader that goes through any list page by page | `AffiliateLists` (instance) |
| `AffiliateLists` | which rows match: `AffiliateTransactionWork`, `AffiliateWork::Count` and `Select` | `TransactionReads` |
| `TransactionSums` | `GetUserTransactionSumTotal` | `TransactionReads` |
| `TransactionReads` | their composition | `MCTransactionReads`, `TransactionReadsProofs` |
| `TransactionReadsProofs` | theorems about it | |
| `IpBlacklist` | the blacklist with its filters and paging | `MCIpBlacklist`, `IpBlacklistProofs` |
| `IpBlacklistProofs` | theorems about it | |
| `SetLemmas` | facts about finite sets: the places of the rows of an ordered list; induction; the functions that folds are defined by | `IpBlacklistProofs`, `TransactionReadsProofs`, `AffiliateReportsProofs` |

Definitions whose comment begins with "Mutant of" are plausible mistakes in the
definition that follows them. Nothing refers to them; they are there so that one can replace
the definition and watch the property fail.

### AffiliateAccounts

| Model | Code |
|---|---|
| `committed`, `dirty`, `owner`, `nextId` | the table at READ COMMITTED: committed and latest version of a row, the transaction that holds its lock, the sequence |
| `pc[s]`, `call[s]`, `amount[s]`, `attempt[s]` | where a caller is in its call, and the call's locals |
| `BeginInsert`, `PickFree`, `PickTaken`, `InsertRow` | the loop of `Insert`: draw an id, one SELECT, and after the loop one INSERT |
| `Get` | `Get`, with its two exceptions; `read[s]` is the account the caller keeps |
| `BeginUpdate`, `Update`, `SetRow`, `FeesWritten` | `Update`: SET list from the optionals that are filled; `*account.fee_` in place of two other fees, any value when it is empty |
| `BeginUpdateBalance`, `UpdateBalance` | `balance = balance + x` in one statement |
| `Commit`, `Rollback`, `Abort`, `Disconnect`, `DeadlockVictim`, `Contended` | external: the database |
| `seen`, `ledger`, `pending`, `assigned`, `row.seen` | history for the properties; no guard reads it |

An SQL statement is one step, because the database makes it so. Between two
steps of a session any other session may act, commit, die or be rolled back. A
statement waits while a row it writes, or a row with the e-mail it stores,
belongs to another open transaction; after an SQL error only a rollback is left.
Columns that are copied and read by nothing here (names, wallet, status, dates) are left
out. Balances are integers in the smallest unit.

### UserStatusRules and UserStatus

`Flags` and `StatusOf` follow `DetermineUserFlags` and `DetermineUserStatus`
branch by branch; inserting and erasing of flags is function composition in the
order of the code. `Query` is the row of `DetermineFlagsQuery` computed from the
records, with `NOT IN` as SQL defines it (`NotIn`: never true when a member is
`NULL`, always true on no members). `Determine` and `AskC6` are the two steps of
`DetermineUserStatus`; the records may change in between. The query gives no row when the
country of the user has no row of requirements (`country = Null`, `HasRow`); `DetermineUserFlags`
then throws, and the status is `"ERROR"`.

`GetRequiredInfo` is an action, as it may store rates: for a transaction whose day has no rate at
all it asks the rates service, which stores all of them or throws; a day that has some rates is not
asked for, and the joins may find no row (`PreAuthInfo`). `rates` says of each day whether none, some or all
currencies have one. `RequiredInfo` is the set of answers that a call may give for its context, the type
of payment and the transaction (`LookedUp`: the one that is processed, or the latest one of the
method), with the decision itself in `Required`. A call reads and fetches in one step;
the properties speak of what it answers on the records of one moment.
`stale` records for `AnswerStands` that the records changed since the last query. The clients, staff, SumSub and the
payment services are external: they upload, approve, deny and expire documents,
upload and review cards, and move transactions into and out of
`PREAUTH_FINISHED`. Denied documents and cards leave the sets because no
query asks for them.

An approved interview on SumSub erases only `NEED_SELFIE_IMAGE`
(AmountLimitRulesWork.cpp:113). When a selfie already waits for review,
`PENDING_SELFIE_IMAGE` stays and the user waits for a review whose outcome is not
needed; no property is violated by that, as something does wait for staff.

`UserStatusTests` writes the unit tests down as functions from flags to the rows
that should give them, and the calls of `GetRequiredInfo` by their results. Its
two assumptions are evaluated by TLC in the run `status_cards`, so the rules
of the model meet what the tests of the code expect. The test "irrelevant columns"
is generalised to all 512 combinations of the nine columns.

### AffiliateReports

`SelectChart`/`FinishChart` are the two statements of the chart, `SelectGrid`/
`SelectSignUps`/`SelectNonAffiliates` the three of the grid. Each statement reads
one moment; payments, sign-ups and midnight may come between. Sums of prices are sets
of what is summed, so that "counted twice" can be told from "counted once".

A behaviour asks for one page, with one of `Filters`: the page, either end of the range or `Null`, an
affiliate, the names that the filter's pattern matches (the set `names`; a user without an account has the blank
one), and limit and offset. `GridPages` is what LIMIT and OFFSET leave of the rows: they are
ordered by a price, which the model does not have, so any rows may be on the page, as many as the limit and
the offset allow. The traffic that a page does not read (sign-ups for the chart, payments for the totals)
is left out of its behaviours.

A transaction has two days for each of its moments: the one in the time zone of the statistics, by which it is grouped
and selected, and the one by which rates are joined. The statements convert the time zone after
cutting the date off for the join (AffiliateTransactionListWork.cpp:50, 65, 177) and before for the groups
(:151, :168), so that the two may differ: `performedRate`, `executedRate` are any of `RateDays` of the
day. `Days` are the days on which something happens; ranges and the gaps of the chart are over
all integers.

The rows of a
GROUP BY come in any order, as the SQL has no ORDER BY. The gap-filling loops
(`Loop`, `FillRecords`, `Chart`) keep the date iterator of the code, with the
use of the wrong one in the last gap of the finished series. Reading past the end of the map
of sign-ups yields any value of `Garbage`. `SelectTotals` is the statement of
`CountSignUps`, with its outer join; the sums beside it are not in the repository.

### TransactionReads

| Model | Code |
|---|---|
| `trx`, `broughtBy`, `accounts`, `rates` | `transaction_info` (any of the six statuses that the statements name; the type of the first migration has three), `user_account_info.affiliate_id`, `affiliate_info`, `exchange_rate` |
| `Mine`, `Invited` | the WHERE clause of `AffiliateTransactionWork::GetSelectQuery` |
| `AccountMatches` | `AffiliateWork::BuildFilter`: ids, inviter, a part of an id (prefix), a range of fees |
| `PagedList!CountRows`, `SelectPage` | the two statements of `AffiliateTransactionWork::Select`; `AffiliateWork::Count` and `Select`, which its callers pair |
| `BeginSum`, `EnsureRateAvailability`, `SelectSum` | `GetUserTransactionSumTotal`: the missing dates, one call of the rates service for each, the sum |
| `MakeTrx`, `EndTrx`, `Bring`, `OpenAccount`, `UpdateAccount`, `StoreRate` | the other transactions that commit meanwhile |

`PagedList` knows nothing of what is listed. `AffiliateLists` instantiates it with the set of
ids that match the open query now, and `TransactionReads` interleaves
the reader's statements with the changes of the tables, each of which lets the
list or the sum note what it did to the rows it follows (`WatchList`, `WatchSum`). A behaviour has
one reader, chosen at first, because lists read no rates and sums no accounts. Both lists
use the same reader; a filter and a sum keep their arguments until they end. The rates of
a day are stored for all currencies by the rates service, and one by one by anybody else.

### IpBlacklist

One action per operation. `Matches` is `BuildFilterStr`: an id, a list of ids, the list's name, one address
matching by prefix, a list of addresses matching exactly, the admin, the flag and the user. `Open`, `NextPage`
and `Close` are a caller that reads pages until `Count` says there are no more.
The table's declaration is not in the repository; its key is modelled from the
exceptions that `Insert` translates, and its NOT NULL columns are an assumption (section 4). `KeyOfUser` chooses between the key (address, user)
and the key address; the run uses the first.

Left out are `added_at` with its range in the filter, and `user_id_activity` with its condition;
`NOW()` in an activation only sets `added_at`.

## 3. What is checked

Eight runs pass:

| Run | Question | Instance |
|---|---|---|
| `accounts_rows` | Do balances equal the committed credits? Do equal affiliate ids from `Insert` come from overlapping transactions only? Is the table a book of accounts? | 2 sessions, 2 rows, 2 e-mails, 2 affiliate ids, one attempt, credits of one unit to balances of at most 1, so that two credits may overlap; updates of accounts read earlier, of one column, without an id |
| `accounts_calls` | Does every call end? | as above with one affiliate id, two attempts, an account without its required fee, and an update that changes the e-mail, so that sessions wait in a circle |
| `status_documents` | Is `ACTIVE` given only, and always, to cleared users, and do the flags name a next step? | all combinations of documents of one user, four countries and one without requirements, surveys and the administrators' review |
| `status_cards` | What may `GetRequiredInfo` still ask of an `ACTIVE` user, and when does it fail? Do the rules meet the unit tests? | two transactions, two card numbers and `NULL`, two methods, a day with no, some or all rates; the approved personal document is of either kind |
| `status_cooperation` | Does a cooperating client with approving staff become `ACTIVE` from every state? Is an answer that took a C6 check the status of the records? | four countries and one without requirements, the uploads that the flags ask for, the archive and the review; no cards |
| `reports_pages` | Does each payment appear once, on its day, in its column, for each account? Is a payment that ends between the statements still shown? Is an affiliate missing on a page with room? Does the total of sign-ups agree with the grid? | days 1 and 3, a payment of day 3 converted by day 2 or by day 3, which has no rates; 2 transactions that carry 2 ids, 1 user, 3 accounts of which 2 share an id under different names, a third id without an account; eleven requests: charts over the days, beyond them, of one day and without a start; grids of one row, from the second row on, of one affiliate and name, without a start; totals of a range, of one affiliate and name, without an end |
| `transaction_reads` | Does a list miss a row? Who sees a transaction? What is missing in a sum? | 3 transactions of 1 user, 2 accounts with ids 1 and 11 (one a prefix of the other), the second opened later with an inviter or with a taken id; pages of one row; two lists of transactions and two of accounts; sums in euro and in another currency over 2 days and 3 currencies |
| `blacklist_list` | Is a lifted address free? Does a change leave a row without list, admin or flag? Does a list miss an entry? | 2 addresses, one a prefix of the other; 2 lists and 2 admins; 3 ids, pages of one row; changes by nothing, by address, by a list of addresses or of ids, by id |

Four runs end in a violation, and `PROJECT.json` lists each as a finding:

| Run | What TLC shows |
|---|---|
| `accounts_get` | two overlapping `Insert`s store one affiliate id, and every later `Get` of it throws; the id's comment says "unique" |
| `accounts_fees` | updating the fee of an account read before overwrites `inviter_fee` and `user_fee` with the affiliate's own fee |
| `reports_finished` | the finished series of the chart has days missing or twice unless the last row of both statements is on one day |
| `reports_signups` | an affiliate with transactions and no active sign-ups in the range is read past the end of the map |

Refinement. `AccountBook` says what a caller of `AffiliateWork` may rely on: amounts are
collected, then booked in one step on top of the balances of that moment, or
forgotten; accounts stay; e-mails are distinct. `KeepsBook` maps the
committed rows to the book and the credits that a session has not committed to the
collected amounts. Statements that only touch uncommitted rows, locks, locals or
the sequence are stutters, a commit is `Post`, every other end of a transaction is
`Forget`. That distinct e-mails survive is not obvious: it is the waiting for rows of other
transactions (`Contended`) together with the key (`Violates`), and a model without either
fails. Nothing is promised of affiliate ids, for which `accounts_get` has the reason.

What the properties of `transaction_reads` leave open is as telling as what they say:

* `ListMissesNothing` excuses a list when a matching row was lost, which moves the later
  rows up by one, and when a row was gained between the count and the selection of the last page. Rows
  that come in at other moments push rows to later pages, where they are shown
  a second time, but hide none.
* `SharedByInvitation` needs distinct affiliate ids: an account that got a taken id sees
  the transactions of the other one's guests.
* `SumCountsKnown` excuses a sum in a currency other than the euro, because the first statement looks
  for the rates of the transaction's currency and of the euro while the second joins the
  target currency (AmountLimitRulesWork.cpp:438 and :459): a day that was
  filled partly is not repaired, and its transactions are left out without an error.

Bounds and why they suffice.

* `MaxRow`, `MaxBalance`, `MaxTrxs`, `MaxId`, `Attempts`, `Days` and the requests of
  the reports (`Filters`) are the only bounds. `MaxBalance` and `MaxTrxs` stop callers from calling; the rest are
  sizes of types that the code has, too.
* Accounts: the properties relate two rows and two transactions, and an attempt
  either finds its id or does not. Two of each give every overlap of two
  Inserts, an Insert with an Update, and two credits. The theorems of section 5
  remove the bounds for the safety properties. Sessions are interchangeable, so
  they are symmetric in `accounts_rows`, and so are the e-mails; the liveness run has no symmetry.
* Status: the query asks whether a document of a kind and state exists, so a set
  of documents per kind is exact and not a bound. Two cards and two transactions
  suffice for a card that is known beside one that is not.
* Reports: ranges that begin before, between and after the two days give a first, middle and last gap, and
  one rate day has no rate; two rows are enough for two orders, and with a limit or an offset of
  one for a page with less than all rows. Transactions carry ids that accounts have (`TradedIds`); a user may
  have been brought by the third one, which no account has. The theorems of section 5 remove these bounds.
* Transactions: two accounts are an affiliate and the one he invited or shares his id with; a third
  transaction makes a page that is neither the first nor the last; the prefix filter compares pairs.
  Two days and three currencies give a day without rates, with some, and with all.
* Blacklist: the address filters compare pairs, three ids make three pages.

Deadlock is checked except in the reports, where a page that is shown stays.

Fairness. In `AffiliateAccounts!FairSpec` a statement that is
free to run again and again is served (strong fairness, the lock queue of the
database), a caller does not go on calling in one transaction for ever but
commits, a failed transaction is rolled back, and a circle of waiting sessions is broken, as PostgreSQL's deadlock
detector does. In `UserStatus!FairSpec` nothing is assumed of disturbances; the
property itself only speaks of behaviours in which, from some point on, the client follows the
flags and the staff approves, and weak fairness says that they do so at all.

## 4. Assumptions

* Transactions run at READ COMMITTED, the default of PostgreSQL; nothing in
  the repository sets another level, and no migration makes `affiliate_id`
  unique.
* A payment that is finished or failed stays so, and `executed_at` is set
  when it finishes.
* Undefined behaviour (dereferencing an empty optional, reading past a map's
  end) is a choice over the values of the type.
* `C6Work::GetOrCreateC6Status` returns a passed or a failed check and stores it.
* `ExchangeRates::EnsureRateAvailability` stores the rates of all currencies for a day, or throws.
* The builders of date ranges (`AddDateRangeConditionWithTimeZone`, `BuildDateRangeFilterForTimeZone`), whose
  bodies are not here, bound nothing at an end that the filter leaves open, and
  `PaginationToStr` yields LIMIT and OFFSET.
* No migration here declares `ip_blacklist`. Its address, list, flag and admin are taken to be NOT NULL, so that
  `Insert`, which leaves out the columns that are not given and translates only violations of unique and foreign
  keys, passes the error on and stores nothing. Without that assumption `Insert` would store
  incomplete entries; what `TypeOK` shows of the code itself is that `Update` does not make any.

## 5. What is proved

For every value of the constants that meets the named assumptions below, TLAPS
checks twenty-four theorems. Each has the shape initial state, one step per action,
conclusion; what several proofs use about an operator is a lemma. Every
inductive invariant was checked by TLC on the instance of the run before it was proved.

### Assumptions on the constants

TLC evaluates all of them on the runs.

| Module | Assumed | Why the code justifies it |
|---|---|---|
| `AffiliateAccounts` | `Unset`, `NoRow`, `NoSession` are not ordinary values; ranges have their types | an empty optional, a missing row and a free lock differ from every value |
| `TransactionTables` | `Null` is no affiliate id; finitely many transactions and accounts, ids are numbers | a table has finitely many rows with `SERIAL` ids |
| `AffiliateLists`, `IpBlacklist` | a page has at least one row | `PageSize` of the callers |
| `IpBlacklist` | `Null` is no Boolean; calls have the type of the arguments | an unset flag of `BlacklistedIpInfo` is neither value |
| `UserStatus` | records have the types of the columns; `WIRE` is not among the `Methods`, which are the other payment types | `data::PaymentType` |
| `AffiliateReports` | `Null` is no affiliate id, day or row; transactions carry affiliate ids; finitely many accounts and users; days are integers; a filter has the type of the arguments | as above |

Nothing is assumed of the order in which sessions run, of how long they take, or
of which accounts callers write back.

### AffiliateAccountsProofs

* `TypeCorrect`: `Spec => []TypeOK`. Inductive with `CallOK`: a call past its
  start has an id, and one that inserts has its required fields.
* `BalancesAreLedgers`: `Spec => []BalanceLedger`. Committed balances alone are
  not inductive, since a commit publishes what was written before. `LedgerOK`
  adds that the latest version of a row is its ledger plus what the owner has
  pending, and `LocksOK` that only a row with an owner has two versions.
* `DuplicatesOverlap`: `Spec => []DuplicateOnlyFromOverlap`. `ChecksOK` follows the
  result of `Insert`'s SELECT from the moment it is read (`RunningChecksOK`)
  through the uncommitted row (`DirtyChecksOK`) to the committed one
  (`CommittedChecksOK`); `VersionsOK` says that an id which `Insert` chose is
  not changed by an `Update` without being marked.

### AccountBookProofs

`AccountsKeepBook`: `Spec => KeepsBook`, the refinement. The initial rows are an empty book, and every step
is a step of `AccountBook` or leaves book and collected amounts alone. The commit is
what needs an invariant: that the rows it publishes have e-mails no other row has. `EmailsOK` says
it of the committed versions and of the latest versions, and of one against the
other: a latest version may have the e-mail of another committed row only when one
session has written both. It follows from what `Contended` makes a
statement wait for and what `Violates` refuses. That the amounts booked are those collected is `LedgerInv`.

### UserStatusProofs

* `TypeCorrect`.
* `ActiveAreCleared`, `ClearedAreActive`, `FlagsAlwaysGuide`: the status is a function of the
  records, so that these need no induction; they hold in every state, whatever
  the records are. The lemmas go through the branches of `DetermineUserFlags` and say for each flag when
  it is left at the end, which is where the order of insertions and erasures enters.
* `ActiveIsNotAsked` (`ActiveIsAskedByNullOnly`): an `ACTIVE` user is never asked for a document, and for a card only
  when the transaction or an approved card has no digits. There the two queries disagree, in favour of the status:
  `x NOT IN (...)` is not true when `x` or a member is `NULL`, so `NEED_CC` is not set
  (AmountLimitRulesWork.cpp:647), while the join on equal digits finds no approved card and
  `GetRequiredInfo` sets `needCC` (:278, :306). The property also says when a call fails: without a
  transaction, for a wire transfer, or for a day that does not have all rates. That the
  code does ask in those cases is not a finding: no statement of the repository is against it.
* `AnswersStand`: `AnswerInv` adds that while the C6 service is asked, and
  the records did not change, the status of the records is still `ASK_C6`; the answer then follows from what the
  check stores.

### TransactionReadsProofs

* `TypeCorrect`. The page number is bounded by the number of rows because no page follows the last.
* `SharedAmongInvited`: from the definition of `Mine` and the types, for any tables with distinct ids.
* `SumsAreComplete`: `SumInv` says of every transaction that was found at first and is still wanted
  that its day still waits for rates or has those of its currency and of the
  euro. Rates are never taken back, so each step only moves days from the first case to the second.
* `ListsAreComplete`: `ListInv` says that an unseen row has all the rows of the pages shown before it, and
  that the count is not below the number of rows unless one was gained since. The step of `SelectPage`
  is arithmetic of places (`SetLemmas`).

### IpBlacklistProofs

* `TypeCorrect`, with the page number bounded as above.
* `FreedAddresses`: inductive as it stands, since the next call replaces the outcome; the filter
  of the statement and the check match alike for any prefix relation.
* `PagesComplete`: `PagesOK` says that a row which matched all along and has fewer rows before it than
  the pages hold has been shown. It is kept by insertions anywhere, for they only increase the rows before.

### AffiliateReportsProofs

`TablesAlways` is the part of the type invariant that these theorems need: among others, the sign-ups of
an affiliate are at least one and at most users times accounts.

* `GridCountsPerAccount`: `GridInv` says of the rows that wait for the last statement (`RowsCount`) that no affiliate
  has two of them, that they sum each transaction as it stood at the first statement, once for each account
  of their id and name, and nothing else, and that an affiliate with transactions is left out only when the page
  is full or rows were skipped. `RowsOfGrid` shows that grouping by id and name neither
  loses nor doubles a pair of the join, `RowsOfPage` what remains of it on a page of any limit and offset.

* `TotalNeverLess`: the total of sign-ups against the sum of the column. The total counts pairs of a user and
  an account. `ColumnOfPairs` finds for each row of the map as many pairs of its id, and all of them when the
  account is alone; `SumOfPairs` adds the rows up, by induction over the ids added; `CountOfPairs` shows
  that the pairs of all ids are those of the total, but for users whose affiliate has no account.
  The first attempt failed on such a user: no foreign key in the migrations ties
  `user_account_info.affiliate_id` to an account, and `CountSignUps` has an outer join. The property now names
  that exception, and the instance of `reports_pages` has an id without an account, so that it occurs.

### ChartProofs

`TypeCorrect`: every variable of the reports keeps its type (`TablesOK` and `PageOK`). The rows are a sequence of days for the
chart and a set of affiliates for the grid, and the answer is of the page that was asked for. It is here because the type
of a series needs what a loop returns.

What a loop over rows computes is a fold, and needs induction. The induction theorems of the library have an
operator for the predicate, which the provers cannot instantiate. `SetLemmas` proves
induction with a set in its place (`SubsetInduction`, `CountingUp`) from the fact that some subset of a
finite set is minimal among those that are not good, and that the function a fold chooses exists (`FoldExists`). With it
`LoopByRows` turns `Loop` into one state per number of rows taken. Two invariants of the loop follow:

* `LoopShows`, for rows in any order: what the rows seen so far have is in the series once, on its
  day, and nothing else is.
* `LoopCovers`, for rows in the order of their days: the series has one record per day from the
  start of the range to the day before the iterator.

`ChartRowsShow` and `FinishedRowsShow` say what the statements return. `ChartInv` is the inductive invariant of the page: while the
second statement is to be executed the rows show the transactions as they stood at the first,
every transaction since then is the same affiliate's, of the same days, and finished if it was, and a finished one
has a day on which it was executed. It gives

* `ChartShowsOnce` (`AmountsOnTheirDay`), `ChartMissesNothing` (`NothingMissed`) and `ChartCoversRange`
  (`PendingCoversRange`), for any days, transactions and filters. A range that ends before it
  starts has no days and an empty series, which `CoversRange` says with the number of days in the range.
* `FinishedCoversIffSameEnd`: how far the finding of `reports_finished` goes. The finished series, even
  with all rows in order, covers the range exactly when the last rows of both statements are of one day, or
  neither has rows.

### Model-checked only

* Liveness (`CallsEnd`, `CooperationEndsActive`): out of the prover's reach.
* The properties of the runs that end in a violation.

## 6. Plan

Done, in order of importance: the accounts, which several transactions write at
once, with the book they implement; the user status, which decides whether money
moves; the statistics; the blacklist; the lists and sums over transactions, with the rates. Every
safety property that a passing run checks is proved for every value of the constants.

Next: the safety facts that the liveness of `CallsEnd` rests on (who waits for whom, and that a circle
has a victim), and what paging by offset promises of two lists at once.

## 7. Not modelled

* Services whose bodies are not in the repository (`insta::Affiliate` with its
  statistics cache, `Admin*`, `AffiliateSecurity`, `AffiliateSignup`, `BlockIoApi`, `AwsS3Service`).
* `AttachmentsWork` and `BitcoinTransactionInfoWork`: each operation is one statement
  and decides nothing on what is stored. Nothing in the repository marks an attachment as deleted,
  so that deleted ones stay hidden would hold by construction.
* The migrations as programs: they run once, in sequence, and the tool that runs them is not
  here. The tables they end with are in the models. What the scripts themselves get wrong
  (a down migration that names another table, explicit ids in tables with a sequence, a trigger that
  overwrites a newer value) is listed under the hazards in `PROJECT.json`.
* `SelectTotals` beyond `CountSignUps`: it formats the result of `SumAffiliateTransactions`, which
  is not here.
* CSV export, quoting, logging, dates as text; filters on columns that no property
  tells apart.
* Lists of names (`GetBlacklistNames`) and reads without a decision.
