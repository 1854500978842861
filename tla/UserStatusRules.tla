------------------------ MODULE UserStatusRules ------------------------
(***************************************************************************)
(* The rules that turn one row of DetermineFlagsQuery into the flags and   *)
(* the status of a user (AmountLimitRulesWork).  Pure operators; the order *)
(* in which the code inserts and erases flags is the order of composition. *)
(***************************************************************************)
EXTENDS FiniteSets

\* The survey's status, "none" when the user has no survey.
SurveyStatuses == {"none", "MISSING", "PENDING", "APPROVED", "DENIED", "EXPIRED"}

\* The row that the query returns, one field per column.
QueryRow ==
    [survey : SurveyStatuses,
     archived : BOOLEAN, selfieRequired : BOOLEAN, videoRequired : BOOLEAN,
     pendingPoi : BOOLEAN, pendingSelfie : BOOLEAN, pendingVideo : BOOLEAN,
     approvedPoi : BOOLEAN, approvedSelfie : BOOLEAN, approvedVideo : BOOLEAN,
     approvedSumSubVideo : BOOLEAN, approvedSumSubPoi : BOOLEAN,
     expiredSumSubVideo : BOOLEAN, pendingCc : BOOLEAN, needsCc : BOOLEAN,
     c6Valid : BOOLEAN, needsAdminReview : BOOLEAN]

UserStatusFlag ==
    {"NEED_POI", "PENDING_POI", "NEED_SELFIE_IMAGE", "PENDING_SELFIE_IMAGE",
     "NEED_VIDEO_INTERVIEW", "PENDING_VIDEO_INTERVIEW", "NEED_CC", "PENDING_CC",
     "NEED_SURVEY", "PENDING_SURVEY", "NEED_C6_CHECK", "NEED_ADMIN_REVIEW",
     "USER_SUSPENDED"}

\* The set with flag f when the condition holds.
When(condition, f) == {x \in {f} : condition}

DocFlag(q) == IF q.pendingPoi THEN "PENDING_POI" ELSE "NEED_POI"

\* Mutant of SelfieFlag: the wrong column decides.
SelfieFlagOfVideo(q) ==
    IF q.pendingVideo THEN "PENDING_SELFIE_IMAGE" ELSE "PENDING_VIDEO_INTERVIEW"

SelfieFlag(q) ==
    IF q.pendingSelfie THEN "PENDING_SELFIE_IMAGE" ELSE "NEED_SELFIE_IMAGE"

InterviewFlag(q) ==
    IF q.pendingVideo THEN "PENDING_VIDEO_INTERVIEW" ELSE "NEED_VIDEO_INTERVIEW"

\* What the country asks for and the user has not got approved.
RequiredFlags(q) ==
    When(~q.approvedPoi, DocFlag(q))
    \cup When(q.selfieRequired /\ ~q.approvedSelfie,
              IF q.pendingVideo THEN "PENDING_VIDEO_INTERVIEW" ELSE SelfieFlag(q))
    \cup When(q.videoRequired /\ ~q.approvedVideo, InterviewFlag(q))

\* Mutant of WaiveSelfie: any approved interview makes up for a selfie.
WaiveSelfieForAny(q, F) == F \ When(q.approvedVideo, "NEED_SELFIE_IMAGE")

\* An approved interview on SumSub makes up for a selfie.
WaiveSelfie(q, F) == F \ When(q.approvedSumSubVideo, "NEED_SELFIE_IMAGE")

\* Mutant of WaiveVideo: the selfie is asked for again and again.
WaiveVideoAgain(q, F) ==
    IF q.expiredSumSubVideo /\ "NEED_VIDEO_INTERVIEW" \in F
    THEN (F \ {"NEED_VIDEO_INTERVIEW"}) \cup {SelfieFlag(q)}
    ELSE F

\* After an expired interview on SumSub a selfie is sufficient.
WaiveVideo(q, F) ==
    IF q.expiredSumSubVideo /\ "NEED_VIDEO_INTERVIEW" \in F
    THEN (F \ {"NEED_VIDEO_INTERVIEW"}) \cup When(~q.approvedSelfie, SelfieFlag(q))
    ELSE F

\* Mutant of DocumentFirst: the document is asked for without a selfie, too.
DocumentAlways(q, F) ==
    IF ~q.approvedSumSubPoi THEN (F \ {"NEED_SELFIE_IMAGE"}) \cup {DocFlag(q)} ELSE F

\* The document has to be on SumSub before the selfie.
DocumentFirst(q, F) ==
    IF ~q.approvedSumSubPoi /\ "NEED_SELFIE_IMAGE" \in F
    THEN (F \ {"NEED_SELFIE_IMAGE"}) \cup {DocFlag(q)}
    ELSE F

IdentityFlags(q) == DocumentFirst(q, WaiveVideo(q, WaiveSelfie(q, RequiredFlags(q))))

CardFlags(q) == When(q.needsCc, IF q.pendingCc THEN "PENDING_CC" ELSE "NEED_CC")

SurveyFlags(q) ==
    When(q.survey \in {"MISSING", "DENIED"}, "NEED_SURVEY")
    \cup When(q.survey = "PENDING", "PENDING_SURVEY")

\* DetermineUserFlags
Flags(q) ==
    IF q.archived THEN {"USER_SUSPENDED"}
    ELSE IdentityFlags(q) \cup CardFlags(q) \cup SurveyFlags(q)
         \cup When(~q.c6Valid, "NEED_C6_CHECK")
         \cup When(q.needsAdminReview, "NEED_ADMIN_REVIEW")

-----------------------------------------------------------------------------
\* Flags that keep a user from being ACTIVE.
Blocking == UserStatusFlag \ {"NEED_ADMIN_REVIEW", "USER_SUSPENDED"}

\* A document that is needed and none of its kind waits for review.
MissingDocs(F) ==
    \/ "NEED_POI" \in F /\ "PENDING_POI" \notin F
    \/ "NEED_SELFIE_IMAGE" \in F /\ "PENDING_SELFIE_IMAGE" \notin F
    \/ "NEED_VIDEO_INTERVIEW" \in F /\ "PENDING_VIDEO_INTERVIEW" \notin F
    \/ "NEED_CC" \in F /\ "PENDING_CC" \notin F

InReview(F) ==
    F \cap {"PENDING_POI", "PENDING_SELFIE_IMAGE", "PENDING_VIDEO_INTERVIEW",
            "PENDING_CC", "PENDING_SURVEY"} # {}

\* DetermineUserStatus up to the call of C6Work, which "ASK_C6" stands for.
StatusOf(F) ==
    CASE "USER_SUSPENDED" \in F -> "ARCHIVED"
      [] "USER_SUSPENDED" \notin F /\ "NEED_ADMIN_REVIEW" \in F -> "PENDING"
      [] F \cap Blocking = {} /\ F \cap {"USER_SUSPENDED", "NEED_ADMIN_REVIEW"} = {} -> "ACTIVE"
      [] OTHER -> IF MissingDocs(F) THEN "MISSING_DOCS"
                  ELSE IF InReview(F) THEN "PENDING"
                  ELSE IF F = {"NEED_C6_CHECK"} THEN "ASK_C6"
                  ELSE "MISSING_DOCS"

-----------------------------------------------------------------------------
\* AmountLimitRulesResult: is the personal document, is the card needed?
Info(poi, cc) == [poi |-> poi, cc |-> cc]

\* A call that throws.
Error == [error |-> TRUE]

\* GetRequiredInfo, given whether a personal document is approved and what the
\* lookup of a transaction finds: its card, "approved" or "unapproved"; "none"
\* without a row; "failed" when the lookup throws.
Required(context, type, poiApproved, card) ==
    CASE context = "NO_CONTEXT" /\ card # "failed" ->
            Info(~poiApproved, type = "CREDIT_CARD" /\ card = "unapproved")
      [] context = "ACCEPT_TRANSACTION" ->
            Info(type # "CREDIT_CARD" /\ ~poiApproved, FALSE)
      [] context = "PROCESS_TRANSACTION" /\ type # "WIRE" /\ card \notin {"none", "failed"} ->
            Info(~poiApproved, type = "CREDIT_CARD" /\ card = "unapproved")
      [] OTHER -> Error
=============================================================================
