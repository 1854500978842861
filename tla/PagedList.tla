---------------------------- MODULE PagedList ----------------------------
(***************************************************************************)
(* A list that a caller reads page by page, newest ids first.  Each page   *)
(* takes two statements, one that counts the matching rows and one that    *)
(* selects the page; the caller goes on while the count promises more.     *)
(* "matching" is the set of ids that match the list's filter now: whoever  *)
(* instantiates the module gives it in terms of the tables.                *)
(***************************************************************************)
EXTENDS Integers, FiniteSets

CONSTANT PageSize

VARIABLES
    matching,
    step,      \* "closed", "count" and "select" before a statement, "shown"
    pageNo,    \* the page to be shown next
    count,     \* pagination.count_
    unseen,    \* history: ids that matched ever since the list was opened and
               \* that no page showed; empty once a matching row was lost
    grown      \* history: a row was gained between the last page's statements

Closed == step = "closed" /\ pageNo = 0 /\ count = 0 /\ unseen = {} /\ grown = FALSE

Open ==
    /\ step = "closed" /\ step' = "count"
    /\ unseen' = matching'
    /\ UNCHANGED <<pageNo, count, grown>>

Finished == step = "shown" /\ pageNo * PageSize >= count

\* Mutant of CountRows: the rows are counted for the first page only.
CountRowsOnce ==
    /\ step = "count" \/ (step = "shown" /\ ~Finished)
    /\ count' = IF pageNo = 0 THEN Cardinality(matching) ELSE count
    /\ step' = "select" /\ grown' = FALSE
    /\ UNCHANGED <<pageNo, unseen>>

\* SELECT COUNT(*): nothing is selected when there is nothing to show.
CountRows ==
    /\ step = "count" \/ (step = "shown" /\ ~Finished)
    /\ count' = Cardinality(matching)
    /\ step' = IF matching = {} THEN "shown" ELSE "select"
    /\ grown' = FALSE
    /\ UNCHANGED <<pageNo, unseen>>

\* ORDER BY id DESC, and the rows of page n.
Page(n) ==
    {i \in matching :
        LET newer == Cardinality({j \in matching : j > i})
        IN  n * PageSize <= newer /\ newer < (n + 1) * PageSize}

SelectPage ==
    /\ step = "select" /\ step' = "shown"
    /\ unseen' = unseen \ Page(pageNo)
    /\ pageNo' = pageNo + 1
    /\ UNCHANGED <<count, grown>>

Close ==
    /\ Finished
    /\ step' = "closed" /\ pageNo' = 0 /\ count' = 0 /\ unseen' = {} /\ grown' = FALSE

\* The tables change under the list.
Watch ==
    /\ UNCHANGED <<step, pageNo, count>>
    /\ unseen' = IF matching \subseteq matching' THEN unseen ELSE {}
    /\ grown' = (grown \/ (step = "select" /\ ~(matching' \subseteq matching)))

TypeOK ==
    /\ step \in {"closed", "count", "select", "shown"}
    /\ pageNo \in Nat /\ count \in Nat /\ grown \in BOOLEAN

\* Every row that matched all along is on some page, unless a matching row was
\* lost, or one was gained between the two statements of the last page.
MissesNothing == Finished /\ ~grown => unseen = {}
=============================================================================
