--------------------------- MODULE IpBlacklist ---------------------------
(***************************************************************************)
(* The IP blacklist: BlacklistedIpInfoWork over the table ip_blacklist.    *)
(* Every operation is one SQL statement; administrators and the check of a *)
(* visitor's address interleave.  The table itself is not declared by any  *)
(* migration of the repository: its keys are modelled from how Insert      *)
(* reports them, and its address, list, flag and admin are assumed to be   *)
(* NOT NULL.  Left out: added_at with its range in the filter, and         *)
(* user_id_activity with its condition.                                    *)
(***************************************************************************)
EXTENDS Integers, FiniteSets, FiniteSetsExt

CONSTANTS
    Ips,
    Extends,      \* pairs <<p, q>>: the text of p is a proper prefix of q's
    Users,        \* existing users
    Lists,        \* names of blacklists
    Admins,
    Null,         \* SQL NULL, std::nullopt
    Infos,        \* what Insert is called with
    Changes,      \* what Update is called with
    Filters,      \* filters of Update and Delete
    Browsed,      \* filters of Select
    KeyOfUser,    \* the unique key is (ip, user) if TRUE, ip alone if FALSE
    MaxId,        \* last value of the sequence of ids
    PageSize      \* rows on a page of Select

Ids == 1..MaxId

\* data::BlacklistedIpInfo and its filter; every field is optional.
Info ==
    [id : Ids \cup {Null}, ip : Ips \cup {Null}, list : Lists \cup {Null},
     user : Nat \cup {Null}, active : BOOLEAN \cup {Null},
     admin : Admins \cup {Null}]
Filter ==
    [id : Ids \cup {Null}, ids : SUBSET Ids, ip : Ips \cup {Null}, ips : SUBSET Ips,
     list : Lists \cup {Null}, admin : Admins \cup {Null}, user : Users \cup {Null},
     active : BOOLEAN \cup {Null}, everyone : BOOLEAN \cup {Null}]
NoFilter ==
    [id |-> Null, ids |-> {}, ip |-> Null, ips |-> {}, list |-> Null, admin |-> Null,
     user |-> Null, active |-> Null, everyone |-> Null]

Row == [ip : Ips, list : Lists, admin : Admins, user : Users \cup {Null}, active : BOOLEAN]

ASSUME RangesAssumption ==
    /\ Extends \subseteq Ips \X Ips /\ KeyOfUser \in BOOLEAN
    /\ MaxId \in Nat /\ PageSize \in Nat \ {0}
ASSUME NullAssumption == Null \notin BOOLEAN
ASSUME CallsAssumption == Infos \cup Changes \subseteq Info /\ Filters \cup Browsed \subseteq Filter

VARIABLES
    rows,      \* ip_blacklist
    nextId,    \* its sequence
    outcome,   \* the last call of an administrator and how it ended
    browsed,   \* the filter of the list being paged through, or Null
    pageNo,    \* the next page
    shown,     \* ids on the pages shown
    kept,      \* history: ids that matched since the first page
    shrunk     \* history: a matching row was lost since the first page

vars == <<rows, nextId, outcome, browsed, pageNo, shown, kept, shrunk>>
browsing == <<browsed, pageNo, shown>>

Stored == {i \in Ids : rows[i] # Null}

\* BuildFilterStr: the conditions are joined with AND; "everyone" adds one only
\* when it is true; one address matches every address that starts with it.
Matches(f, i, row) ==
    /\ f.id \in {Null, i}
    /\ f.ids # {} => i \in f.ids
    /\ f.list \in {Null, row.list}
    /\ f.ip # Null => row.ip = f.ip \/ <<f.ip, row.ip>> \in Extends
    /\ f.ips # {} => row.ip \in f.ips
    /\ f.admin \in {Null, row.admin}
    /\ f.active \in {Null, row.active}
    /\ f.everyone = TRUE => row.user = Null
    /\ f.user \in {Null, row.user}

IsEmpty(f) == [f EXCEPT !.everyone = IF @ = TRUE THEN @ ELSE Null] = NoFilter

Matching(f) == {i \in Stored : Matches(f, i, rows[i])}

\* Mutant of IsIpBlacklisted: the active flag is not looked at.
IsIpListed(ip, user) ==
    \E i \in Matching([NoFilter EXCEPT !.ip = ip]) : rows[i].user \in {user, Null}

\* IsIpBlacklisted(ip, user); user is Null for a visitor who is not logged in.
IsIpBlacklisted(ip, user) ==
    \E i \in Matching([NoFilter EXCEPT !.ip = ip, !.active = TRUE]) : rows[i].user \in {user, Null}

-----------------------------------------------------------------------------
\* History of the paging: which rows went on matching the list's filter.
Watch ==
    LET f == browsed
        still == {i \in Matching(f) : rows'[i] # Null /\ Matches(f, i, rows'[i])}
    IN  IF browsed = Null THEN UNCHANGED <<kept, shrunk>>
        ELSE kept' = kept \cap still /\ shrunk' = (shrunk \/ still # Matching(f))

InsertId(info) == IF info.id # Null THEN info.id ELSE nextId

\* PRIMARY KEY(id), and the key on addresses: two NULLs differ.
BreaksKey(info) ==
    \/ InsertId(info) \in Stored
    \/ \E i \in Stored : /\ rows[i].ip = info.ip
                         /\ KeyOfUser => info.user # Null /\ rows[i].user = info.user

\* What an Insert was for; on what the other calls worked.
Outcome(call, result, ip, user, filter) ==
    [call |-> call, result |-> result, ip |-> ip, user |-> user, filter |-> filter]

\* The statement fails on a missing column, a key, or a user who does not exist;
\* the sequence moves on even then.
Insert(info) ==
    /\ InsertId(info) \in Ids
    /\ nextId' = IF info.id = Null THEN nextId + 1 ELSE nextId
    /\ LET result ==
               IF Null \in {info.ip, info.list, info.admin, info.active} THEN "NotNullViolation"
               ELSE IF BreaksKey(info) THEN "IpAlreadyBlacklisted"
               ELSE IF info.user \notin Users \cup {Null} THEN "BadRequest"
               ELSE "ok"
       IN  /\ outcome' = Outcome("Insert", result, info.ip, info.user, NoFilter)
           /\ rows' = IF result # "ok" THEN rows
                      ELSE [rows EXCEPT ![InsertId(info)] =
                              [ip |-> info.ip, list |-> info.list, admin |-> info.admin,
                               user |-> info.user, active |-> info.active]]
    /\ Watch /\ UNCHANGED browsing

Delete(f) ==
    /\ outcome' = Outcome("Delete", IF IsEmpty(f) THEN "BadRequest" ELSE "ok",
                          Null, Null, f)
    /\ rows' = [i \in Ids |-> IF ~IsEmpty(f) /\ i \in Matching(f) THEN Null ELSE rows[i]]
    /\ Watch /\ UNCHANGED nextId /\ UNCHANGED browsing

\* Mutant of Settable: the list's name is not required.
SettableWithoutList(info) == info.active # Null /\ (info.active => info.admin # Null)

\* What Update requires of its info.
Settable(info) ==
    /\ info.active # Null
    /\ info.active => info.admin # Null /\ info.list # Null

\* Activating moves the row to the list and the admin; deactivating leaves all
\* else alone.
Set(row, info) ==
    IF info.active THEN [row EXCEPT !.active = TRUE, !.admin = info.admin, !.list = info.list]
    ELSE [row EXCEPT !.active = FALSE]

Update(info, f) ==
    /\ outcome' = Outcome(IF info.active = FALSE THEN "Deactivate" ELSE "Activate",
                          IF Settable(info) THEN "ok" ELSE "BadRequest", Null, Null, f)
    /\ rows' = [i \in Ids |-> IF Settable(info) /\ i \in Matching(f) THEN Set(rows[i], info)
                              ELSE rows[i]]
    /\ Watch /\ UNCHANGED nextId /\ UNCHANGED browsing

-----------------------------------------------------------------------------
(* A caller pages through the list, one Select per page.                   *)

\* Mutant of Select: the offset is one too far.
SelectFurther(f, number) ==
    {i \in Matching(f) :
        LET newer == Cardinality({j \in Matching(f) : j > i})
        IN  number * PageSize < newer /\ newer <= (number + 1) * PageSize}

\* Select: the newest ids first, PageSize of them after the offset.
Select(f, number) ==
    {i \in Matching(f) :
        LET newer == Cardinality({j \in Matching(f) : j > i})
        IN  number * PageSize <= newer /\ newer < (number + 1) * PageSize}

Open(f) ==
    /\ browsed = Null
    /\ browsed' = f
    /\ pageNo' = 1
    /\ shown' = Select(f, 0)
    /\ kept' = Matching(f)
    /\ shrunk' = FALSE
    /\ UNCHANGED <<rows, nextId, outcome>>

\* Count says how many pages there are.
Count(f) == Cardinality(Matching(f))
Finished == browsed # Null /\ pageNo * PageSize >= Count(browsed)

NextPage ==
    /\ browsed # Null /\ ~Finished
    /\ pageNo' = pageNo + 1
    /\ shown' = shown \cup Select(browsed, pageNo)
    /\ UNCHANGED <<rows, nextId, outcome, browsed, kept, shrunk>>

Close ==
    /\ Finished
    /\ browsed' = Null /\ pageNo' = 0 /\ shown' = {} /\ kept' = {} /\ shrunk' = FALSE
    /\ UNCHANGED <<rows, nextId, outcome>>

Init ==
    /\ rows = [i \in Ids |-> Null]
    /\ nextId = 1
    /\ outcome = Null
    /\ browsed = Null /\ pageNo = 0 /\ shown = {} /\ kept = {} /\ shrunk = FALSE

Next ==
    \/ \E info \in Infos : Insert(info)
    \/ \E f \in Filters : Delete(f)
    \/ \E f \in Browsed : Open(f)
    \/ \E info \in Changes, f \in Filters : Update(info, f)
    \/ NextPage \/ Close

Spec == Init /\ [][Next]_vars

-----------------------------------------------------------------------------
(* Properties. *)

\* Every variable has its type; in particular Update, whose checks stand for the
\* columns it sets, leaves no row without a list, an admin and a flag.
TypeOK ==
    /\ rows \in [Ids -> Row \cup {Null}]
    /\ nextId \in 1..(MaxId + 1)
    /\ outcome # Null => outcome.result \in {"ok", "BadRequest", "IpAlreadyBlacklisted", "NotNullViolation"}
    /\ browsed \in Browsed \cup {Null}
    /\ pageNo \in 0..(MaxId + 1)
    /\ shown \subseteq Ids /\ kept \subseteq Ids /\ shrunk \in BOOLEAN

\* Deactivating or deleting by an address alone frees the address for everyone:
\* the check and the filter match addresses alike, by prefix.
FreedByIp ==
    outcome # Null /\ outcome.call \in {"Deactivate", "Delete"} /\ outcome.result = "ok" =>
        \A ip \in Ips :
            outcome.filter = [NoFilter EXCEPT !.ip = ip] =>
                \A user \in Users \cup {Null} : ~IsIpBlacklisted(ip, user)

\* Insertions while a list is read hide nothing: as long as no matching row is
\* lost, the pages of Select show every row that matched from the first page on,
\* for a new row, whatever its id, only moves others to later pages.
PagesMissNothing == Finished /\ ~shrunk => kept \subseteq shown
=============================================================================
