---------------------------- MODULE UserStatus ----------------------------
(***************************************************************************)
(* One user's records, and AmountLimitRulesWork reading them: the flags,   *)
(* the status and what GetRequiredInfo asks for.  Clients, staff, SumSub   *)
(* and the C6 service change the records between two statements of a call. *)
(***************************************************************************)
EXTENDS UserStatusRules, Sequences, Integers

CONSTANTS
    Uploads,        \* kinds of documents that get uploaded: [type, sumsub]
    FirstDocs,      \* sets of documents a user may start with
    Countries,      \* rows of country_poi_requirements: [selfie, video], or Null
    Digits,         \* last digits of cards
    Null,           \* SQL NULL, a card without digits, a country without a row
    Methods,        \* of transactions: "CREDIT_CARD", "ZELLE"
    Days,           \* of transactions
    Surveys,        \* values of the survey's status, "none" for no row
    MaxTrxs,        \* bound on PREAUTH_FINISHED transactions
    Troubles        \* "archive", "admin review": what else may happen to a user

DocTypes == {"PERSONAL", "PERSONAL_ADDITIONAL", "SELFIE_IMAGE", "VIDEO_INTERVIEW"}

\* sumsub: not system generated (an interview), in user_sumsub_flow (a document).
Documents ==
    [type : DocTypes, sumsub : BOOLEAN, status : {"PENDING", "APPROVED", "EXPIRED"}]

Cards == [digits : Digits \cup {Null}, status : {"PENDING", "APPROVED"}]

Trxs == [card : Digits \cup {Null}, method : Methods, day : Days]

\* The currencies that have an exchange rate on a day.
Coverage == {"none", "some", "all"}

\* Uploads, requirements and statuses are those of the columns' types.
ASSUME RecordsAssumption ==
    /\ \A u \in Uploads : u \in [type : DocTypes, sumsub : BOOLEAN]
    /\ \A D \in FirstDocs : D \subseteq Documents
    /\ \A c \in Countries : c = Null \/ c \in [selfie : BOOLEAN, video : BOOLEAN]
    /\ Surveys \subseteq SurveyStatuses
    /\ MaxTrxs \in Nat

\* No wire transfer is pre-authorised: GetLatestPreAuthTransactionInfo rejects
\* the type, and only the payment systems of cards and Zelle are looked up.
ASSUME MethodsAssumption == "WIRE" \notin Methods

VARIABLES
    docs,        \* document_info, without the rows that no query asks for
    country,     \* requirements of the nationality, or else of the address
    cards,       \* credit_card_info, likewise
    trxs,        \* transactions in status PREAUTH_FINISHED, oldest first
    survey,      \* user_survey_info
    c6,          \* user_c6_info: "none", "failed", "expired" or "onboard"
    review,      \* user_needs_review holds an open row
    archived,    \* user_account_info.status = 'ARCHIVED'
    rates,       \* exchange_rate: which currencies each day has
    pc,          \* DetermineUserStatus: "idle", or "c6" between its statements
    answer,      \* what the last DetermineUserStatus returned, "ERROR" if it threw
    stale        \* history: the records changed since its query

records == <<docs, country, cards, trxs, survey, c6, review, archived>>
vars ==
    <<docs, country, cards, trxs, survey, c6, review, archived, rates, pc, answer, stale>>

TypeOK ==
    /\ docs \subseteq Documents
    /\ country \in Countries
    /\ cards \subseteq Cards
    /\ trxs \in Seq(Trxs) /\ Len(trxs) <= MaxTrxs
    /\ survey \in SurveyStatuses
    /\ c6 \in {"none", "failed", "expired", "onboard"}
    /\ review \in BOOLEAN /\ archived \in BOOLEAN
    /\ rates \in [Days -> Coverage]
    /\ pc \in {"idle", "c6"}
    /\ answer \in {"none", "ARCHIVED", "PENDING", "ACTIVE", "MISSING_DOCS", "ERROR"}
    /\ stale \in BOOLEAN

-----------------------------------------------------------------------------
(* DetermineFlagsQuery *)

Has(type, status) == \E d \in docs : d.type = type /\ d.status = status

HasSumSub(type, status) ==
    \E d \in docs : d.type = type /\ d.status = status /\ d.sumsub

ApprovedDigits == {c.digits : c \in {x \in cards : x.status = "APPROVED"}}

\* Mutant of NotIn: an empty sub-select is taken for NULL.
NotInNonEmpty(x, S) == S # {} /\ x # Null /\ Null \notin S /\ x \notin S

\* SQL's x NOT IN (S) is true: x equals no member, and no comparison is NULL.
NotIn(x, S) == S = {} \/ (x # Null /\ Null \notin S /\ x \notin S)

\* Mutant of NeedsCc: only the latest transaction counts.
NeedsCcForLatest == trxs # <<>> /\ NotIn(trxs[Len(trxs)].card, ApprovedDigits)

NeedsCc == \E i \in DOMAIN trxs : NotIn(trxs[i].card, ApprovedDigits)

Query ==
    [survey |-> survey, archived |-> archived,
     selfieRequired |-> country.selfie, videoRequired |-> country.video,
     pendingPoi |-> Has("PERSONAL", "PENDING"),
     pendingSelfie |-> Has("SELFIE_IMAGE", "PENDING"),
     pendingVideo |-> Has("VIDEO_INTERVIEW", "PENDING"),
     approvedPoi |-> Has("PERSONAL", "APPROVED"),
     approvedSelfie |-> Has("SELFIE_IMAGE", "APPROVED"),
     approvedVideo |-> Has("VIDEO_INTERVIEW", "APPROVED"),
     approvedSumSubVideo |-> HasSumSub("VIDEO_INTERVIEW", "APPROVED"),
     approvedSumSubPoi |-> HasSumSub("PERSONAL", "APPROVED"),
     expiredSumSubVideo |-> HasSumSub("VIDEO_INTERVIEW", "EXPIRED"),
     pendingCc |-> \E c \in cards : c.status = "PENDING",
     needsCc |-> NeedsCc,
     c6Valid |-> c6 = "onboard",
     needsAdminReview |-> review]

\* The inner joins of the query give a row for the country, or the call throws.
HasRow == country # Null

\* The flags and the status at this moment.
FlagsNow == IF HasRow THEN Flags(Query) ELSE {}
StatusNow == IF HasRow THEN StatusOf(FlagsNow) ELSE "ERROR"

-----------------------------------------------------------------------------
(* GetRequiredInfo *)

HasPOIApproved == Has("PERSONAL", "APPROVED") \/ Has("PERSONAL_ADDITIONAL", "APPROVED")

\* An approved card is joined on equal digits, which NULL never is.
CardApproved(i) == trxs[i].card # Null /\ trxs[i].card \in ApprovedDigits

\* GetPreAuthTransactionInfo: what it leaves of the day's rates, and the card it
\* finds.  EnsureRateAvailability, external, is called for a day without any
\* rate only, and stores all or throws; without a rate of the two currencies
\* that are joined there is no row.
PreAuthInfo(i) ==
    LET card == IF CardApproved(i) THEN "approved" ELSE "unapproved"
    IN  CASE rates[trxs[i].day] = "none" -> {<<"none", "failed">>, <<"all", card>>}
          [] rates[trxs[i].day] = "some" -> {<<"some", "none">>, <<"some", card>>}
          [] rates[trxs[i].day] = "all" -> {<<"all", card>>}

\* The transaction that is looked up, if any: the one that is processed, or the
\* latest one by the method.
LookedUp(context, type, i) ==
    {j \in DOMAIN trxs :
        \/ /\ context = "PROCESS_TRANSACTION" /\ type # "WIRE"
           /\ j = i
        \/ /\ context = "NO_CONTEXT" /\ trxs[j].method = type
           /\ \A k \in DOMAIN trxs : trxs[k].method = type => k <= j}

Contexts == {"NO_CONTEXT", "ACCEPT_TRANSACTION", "PROCESS_TRANSACTION"}

\* What a call may return at this moment.
RequiredInfo(context, type, i) ==
    LET found == {r[2] : r \in UNION {PreAuthInfo(j) : j \in LookedUp(context, type, i)}}
    IN  {Required(context, type, HasPOIApproved, card) :
            card \in IF found = {} THEN {"none"} ELSE found}

\* All that it may change are the rates.
GetRequiredInfo(context, type, i) ==
    /\ \E j \in LookedUp(context, type, i) : \E r \in PreAuthInfo(j) :
          rates' = [rates EXCEPT ![trxs[j].day] = r[1]]
    /\ UNCHANGED <<records, pc, answer, stale>>

-----------------------------------------------------------------------------
(* The records change: clients upload, staff and services review. *)

Init ==
    /\ docs \in FirstDocs /\ country \in Countries
    /\ cards = {} /\ trxs = <<>> /\ survey \in Surveys /\ c6 = "none"
    /\ review = FALSE /\ archived = FALSE
    /\ rates \in [Days -> Coverage]
    /\ pc = "idle" /\ answer = "none" /\ stale = TRUE

\* The records change under the last answer, or under the running call.
Outdates == stale' = (stale \/ records' # records)

NewDoc(u) == [type |-> u.type, sumsub |-> u.sumsub, status |-> "PENDING"]

Upload(u) ==
    /\ docs' = docs \cup {NewDoc(u)}
    /\ UNCHANGED <<country, cards, trxs, survey, c6, review, archived, rates, pc, answer>>
    /\ Outdates

SetDoc(d, news) ==
    /\ docs' = (docs \ {d}) \cup news
    /\ UNCHANGED <<country, cards, trxs, survey, c6, review, archived, rates, pc, answer>>
    /\ Outdates

\* No query asks for denied documents, nor for expired ones except interviews
\* on SumSub: they leave the set.
Approve(d) == d.status = "PENDING" /\ SetDoc(d, {[d EXCEPT !.status = "APPROVED"]})
Deny(d) == d.status = "PENDING" /\ SetDoc(d, {})
Expire(d) ==
    /\ d.status = "APPROVED"
    /\ SetDoc(d, When(d.type = "VIDEO_INTERVIEW" /\ d.sumsub, [d EXCEPT !.status = "EXPIRED"]))

ChangeNationality(c) ==
    /\ country' = c
    /\ UNCHANGED <<docs, cards, trxs, survey, c6, review, archived, rates, pc, answer>>
    /\ Outdates

UploadCard(digits) ==
    /\ cards' = cards \cup {[digits |-> digits, status |-> "PENDING"]}
    /\ UNCHANGED <<docs, country, trxs, survey, c6, review, archived, rates, pc, answer>>
    /\ Outdates

\* A denied card leaves the set, too.
ReviewCard(c, approve) ==
    /\ c.status = "PENDING"
    /\ cards' = (cards \ {c}) \cup When(approve, [c EXCEPT !.status = "APPROVED"])
    /\ UNCHANGED <<docs, country, trxs, survey, c6, review, archived, rates, pc, answer>>
    /\ Outdates

PreAuthFinished(t) ==
    /\ Len(trxs) < MaxTrxs
    /\ trxs' = Append(trxs, t)
    /\ UNCHANGED <<docs, country, cards, survey, c6, review, archived, rates, pc, answer>>
    /\ Outdates

LeavePreAuth(i) ==
    /\ trxs' = [j \in 1..(Len(trxs) - 1) |-> IF j < i THEN trxs[j] ELSE trxs[j + 1]]
    /\ UNCHANGED <<docs, country, cards, survey, c6, review, archived, rates, pc, answer>>
    /\ Outdates

SetSurvey(status) ==
    /\ survey # "none" /\ status # "none" /\ survey' = status
    /\ UNCHANGED <<docs, country, cards, trxs, c6, review, archived, rates, pc, answer>>
    /\ Outdates

C6Expires ==
    /\ c6 = "onboard" /\ c6' = "expired"
    /\ UNCHANGED <<docs, country, cards, trxs, survey, review, archived, rates, pc, answer>>
    /\ Outdates

SetReview(open) ==
    /\ review' = open
    /\ UNCHANGED <<docs, country, cards, trxs, survey, c6, archived, rates, pc, answer>>
    /\ Outdates

Archive ==
    /\ archived' = TRUE
    /\ UNCHANGED <<docs, country, cards, trxs, survey, c6, review, rates, pc, answer>>
    /\ Outdates

-----------------------------------------------------------------------------
(* DetermineUserStatus: the query, then C6Work if nothing else is missing.  *)

\* Mutant of Determine: the C6 check is forgotten.
DetermineWithoutC6 ==
    /\ pc = "idle" /\ pc' = "idle" /\ answer' = StatusNow /\ stale' = FALSE
    /\ UNCHANGED <<records, rates>>

Determine ==
    /\ pc = "idle"
    /\ IF StatusNow = "ASK_C6"
       THEN pc' = "c6" /\ answer' = answer
       ELSE pc' = "idle" /\ answer' = StatusNow
    /\ stale' = FALSE
    /\ UNCHANGED <<records, rates>>

\* Mutant of AskC6: the old row of user_c6_info is believed.
AskC6Before(result) ==
    /\ pc = "c6"
    /\ c6' = result
    /\ pc' = "idle"
    /\ answer' = IF c6 = "onboard" THEN "ACTIVE" ELSE "PENDING"
    /\ UNCHANGED <<docs, country, cards, trxs, survey, review, archived, rates, stale>>

\* GetOrCreateC6Status, external: the check of this user passes or fails.
AskC6(result) ==
    /\ pc = "c6"
    /\ c6' = result
    /\ pc' = "idle"
    /\ answer' = IF result = "onboard" THEN "ACTIVE" ELSE "PENDING"
    /\ UNCHANGED <<docs, country, cards, trxs, survey, review, archived, rates, stale>>

-----------------------------------------------------------------------------
(* A client who does what the flags ask, and a staff that approves. *)

\* The upload that answers a flag; documents go through SumSub.
Asked(flag) ==
    CASE flag = "NEED_POI" -> [type |-> "PERSONAL", sumsub |-> TRUE]
      [] flag = "NEED_SELFIE_IMAGE" -> [type |-> "SELFIE_IMAGE", sumsub |-> TRUE]
      [] flag = "NEED_VIDEO_INTERVIEW" -> [type |-> "VIDEO_INTERVIEW", sumsub |-> TRUE]

FollowFlags ==
    \/ \E f \in FlagsNow \cap {"NEED_POI", "NEED_SELFIE_IMAGE", "NEED_VIDEO_INTERVIEW"} :
          Upload(Asked(f))
    \/ /\ "NEED_CC" \in FlagsNow
       /\ \E i \in DOMAIN trxs :
             NotIn(trxs[i].card, ApprovedDigits) /\ UploadCard(trxs[i].card)
    \/ "NEED_SURVEY" \in FlagsNow /\ SetSurvey("PENDING")

StaffApproves ==
    \/ \E d \in docs : Approve(d)
    \/ \E c \in cards : ReviewCard(c, TRUE)
    \/ survey = "PENDING" /\ SetSurvey("APPROVED")
    \/ review /\ SetReview(FALSE)

Cooperate == FollowFlags \/ StaffApproves \/ Determine \/ AskC6("onboard")

Disturb ==
    \/ \E u \in Uploads : Upload(u)
    \/ \E d \in docs : Deny(d) \/ Expire(d)
    \/ \E c \in Countries : ChangeNationality(c)
    \/ \E digits \in Digits \cup {Null} : Digits # {} /\ UploadCard(digits)
    \/ \E c \in cards : ReviewCard(c, FALSE)
    \/ \E t \in Trxs : PreAuthFinished(t)
    \/ \E i \in DOMAIN trxs : LeavePreAuth(i)
    \/ \E status \in Surveys : SetSurvey(status)
    \/ C6Expires
    \/ AskC6("failed")
    \/ "admin review" \in Troubles /\ SetReview(TRUE)
    \/ "archive" \in Troubles /\ Archive

\* A caller asks what is needed to start, accept or process a transaction.
Ask ==
    \E context \in Contexts, type \in Methods, i \in DOMAIN trxs :
        GetRequiredInfo(context, type, i)

Next == Cooperate \/ Disturb \/ Ask

Spec == Init /\ [][Next]_vars

FairSpec ==
    Spec /\ WF_vars(FollowFlags) /\ WF_vars(StaffApproves)
         /\ WF_vars(Determine) /\ WF_vars(AskC6("onboard"))

-----------------------------------------------------------------------------
(***************************************************************************)
(* What a user must have got approved, written down without flags: the     *)
(* personal document, and by the country's demands a selfie or what makes  *)
(* up for it.                                                              *)
(***************************************************************************)
SelfieSettled == Has("SELFIE_IMAGE", "APPROVED") \/ HasSumSub("VIDEO_INTERVIEW", "APPROVED")

VideoSettled ==
    \/ Has("VIDEO_INTERVIEW", "APPROVED")
    \/ HasSumSub("VIDEO_INTERVIEW", "EXPIRED") /\ Has("SELFIE_IMAGE", "APPROVED")

CardsKnown == \A c \in cards : c.digits # Null

Cleared ==
    /\ ~archived /\ ~review /\ HasRow
    /\ Has("PERSONAL", "APPROVED")
    /\ country.selfie => SelfieSettled
    /\ country.video => VideoSettled
    /\ CardsKnown => \A i \in DOMAIN trxs : trxs[i].card # Null => CardApproved(i)
    /\ survey \notin {"MISSING", "DENIED", "PENDING"}

(***************************************************************************)
(* Only a user who is cleared of everything else is ACTIVE or sent to the  *)
(* C6 check, whatever documents were approved, denied or expired before    *)
(* and whichever country now counts (DetermineUserFlags,                   *)
(* DetermineUserStatus).                                                   *)
(***************************************************************************)
ActiveIsCleared ==
    StatusNow \in {"ACTIVE", "ASK_C6"} => Cleared /\ (StatusNow = "ACTIVE" => c6 = "onboard")

(***************************************************************************)
(* The flags always say what happens next: MISSING_DOCS comes with a flag  *)
(* the client can act on, PENDING with something that staff has to decide  *)
(* (DetermineUserFlags, DetermineUserStatus).                              *)
(***************************************************************************)
FlagsGuide ==
    /\ StatusNow = "MISSING_DOCS" =>
          FlagsNow \cap {"NEED_POI", "NEED_SELFIE_IMAGE", "NEED_VIDEO_INTERVIEW",
                         "NEED_CC", "NEED_SURVEY"} # {}
    /\ StatusNow = "PENDING" =>
          \/ review \/ survey = "PENDING"
          \/ \E d \in docs : d.status = "PENDING"
          \/ \E c \in cards : c.status = "PENDING"

(***************************************************************************)
(* A user who is ACTIVE is never asked for a document, and for a card only *)
(* where SQL compares with NULL: the transaction has no card digits, or    *)
(* an approved card has none (x NOT IN (...) is then not true, so that     *)
(* the query behind the status asks for nothing, while no card is joined   *)
(* in GetRequiredInfo).  A call fails only without a transaction, for a    *)
(* wire transfer or for want of rates.                                     *)
(***************************************************************************)
ActiveIsAskedByNullOnly ==
    StatusNow = "ACTIVE" =>
        \A context \in Contexts, type \in Methods \cup {"WIRE"}, i \in DOMAIN trxs \cup {0} :
        \A info \in RequiredInfo(context, type, i) :
            IF info = Error
            THEN \/ context = "PROCESS_TRANSACTION" /\ (type = "WIRE" \/ i = 0)
                 \/ \E j \in LookedUp(context, type, i) : rates[trxs[j].day] # "all"
            ELSE /\ ~info.poi
                 /\ info.cc => \E j \in LookedUp(context, type, i) :
                                  trxs[j].card = Null \/ Null \in ApprovedDigits

(***************************************************************************)
(* Nobody is held back for nothing: a user who is cleared, with nothing    *)
(* waiting for review, is ACTIVE or sent to the C6 check (DetermineUser-   *)
(* Flags, DetermineUserStatus).                                            *)
(***************************************************************************)
ClearedIsActive ==
    /\ Cleared
    /\ \A d \in docs : d.status # "PENDING"
    /\ \A i \in DOMAIN trxs : CardApproved(i)
    => StatusNow \in {"ACTIVE", "ASK_C6"}

(***************************************************************************)
(* The status that DetermineUserStatus returns, after two statements and a *)
(* call of the C6 service, is the status of the records as they are now,   *)
(* unless they changed since the first statement; a user who fails the C6  *)
(* check may be checked again.                                             *)
(***************************************************************************)
AnswerStands ==
    pc = "idle" /\ ~stale =>
        answer = StatusNow \/ (answer = "PENDING" /\ StatusNow = "ASK_C6" /\ c6 = "failed")

(***************************************************************************)
(* When the client follows the flags and nothing is denied or changed any  *)
(* more, the user becomes ACTIVE and stays so: no combination of documents *)
(* is a dead end (DetermineUserFlags, DetermineUserStatus).  That is about *)
(* users who are not archived and whose country has requirements.          *)
(***************************************************************************)
CooperationEndsActive ==
    <>[][Cooperate]_vars /\ <>[](HasRow /\ ~archived) => <>[](answer = "ACTIVE")
=============================================================================
