-------------------------- MODULE UserStatusTests --------------------------
(***************************************************************************)
(* The expectations of AmountLimitsRuleWorkTest, test by test: the rules   *)
(* of UserStatusRules must give what the unit tests of the code expect.    *)
(* TLC evaluates the assumptions in a run whose module extends this one.   *)
(***************************************************************************)
EXTENDS UserStatusRules, TLC

\* FlagsSetter::Reset: a row of the mocked query that asks for nothing.
Reset ==
    [survey |-> "APPROVED", archived |-> FALSE, selfieRequired |-> FALSE, videoRequired |-> FALSE,
     pendingPoi |-> FALSE, pendingSelfie |-> FALSE, pendingVideo |-> FALSE,
     approvedPoi |-> TRUE, approvedSelfie |-> FALSE, approvedVideo |-> FALSE,
     approvedSumSubVideo |-> FALSE, approvedSumSubPoi |-> FALSE, expiredSumSubVideo |-> FALSE,
     pendingCc |-> FALSE, needsCc |-> FALSE, c6Valid |-> TRUE, needsAdminReview |-> FALSE]

\* The setters: the row with some of its columns flipped.
Flip(columns) == [c \in DOMAIN Reset |-> IF c \in columns THEN ~Reset[c] ELSE Reset[c]]

WithSurvey(status) == [Reset EXCEPT !.survey = status]

\* Columns that "can have different values, but it should not affect the flags".
Irrelevant ==
    {"pendingPoi", "pendingSelfie", "pendingVideo", "approvedSelfie", "approvedVideo",
     "approvedSumSubVideo", "approvedSumSubPoi", "expiredSumSubVideo", "pendingCc"}

\* Each test as a function from the flags to the rows that should give them.
NoFlagsNeeded ==
    {} :> {[Flip(columns) EXCEPT !.survey = s] :
              columns \in SUBSET Irrelevant, s \in {"APPROVED", "EXPIRED"}}

Survey == {"NEED_SURVEY"} :> {WithSurvey("MISSING"), WithSurvey("DENIED")}
          @@ {"PENDING_SURVEY"} :> {WithSurvey("PENDING")}

UserArchived == {"USER_SUSPENDED"} :> {Flip({"archived"})}

NeedAdminReview == {"NEED_ADMIN_REVIEW"} :> {Flip({"needsAdminReview"})}

C6Check == {"NEED_C6_CHECK"} :> {Flip({"c6Valid"})}

CreditCard == {"NEED_CC"} :> {Flip({"needsCc"})}
              @@ {"PENDING_CC"} :> {Flip({"needsCc", "pendingCc"})}

Poi == {"NEED_POI"} :> {Flip({"approvedPoi"})}
       @@ {"PENDING_POI"} :> {Flip({"approvedPoi", "pendingPoi"})}

Selfie ==
    LET required(columns) == Flip({"selfieRequired"} \cup columns)
    IN  {"NEED_POI"} :> {required({})}
        @@ {"NEED_SELFIE_IMAGE"} :> {required({"approvedSumSubPoi"})}
        @@ {"PENDING_POI"} :> {required({"pendingPoi"})}
        @@ {"PENDING_VIDEO_INTERVIEW"} :> {required({"pendingVideo"})}
        @@ {"PENDING_SELFIE_IMAGE"} :> {required({"pendingSelfie"})}
        @@ {} :> {required({"approvedSelfie"}), required({"approvedSumSubVideo"})}

VideoInterview ==
    LET required(columns) == Flip({"videoRequired"} \cup columns)
        expired(columns) == required({"expiredSumSubVideo"} \cup columns)
    IN  {"NEED_VIDEO_INTERVIEW"} :> {required({})}
        @@ {"PENDING_VIDEO_INTERVIEW"} :> {required({"pendingVideo"})}
        @@ {} :> {expired({"approvedSelfie"})}
        @@ {"NEED_POI"} :> {expired({})}
        @@ {"NEED_SELFIE_IMAGE"} :> {expired({"approvedSumSubPoi"})}
        @@ {"PENDING_POI"} :> {expired({"pendingPoi"})}
        @@ {"PENDING_SELFIE_IMAGE"} :> {expired({"pendingSelfie"})}

\* The calls of GetRequiredInfo, <<context, type, card>>, by what they return;
\* the mocks have no approved document.
NoContext ==
    Info(TRUE, FALSE) :> {<<"NO_CONTEXT", "CREDIT_CARD", "approved">>}
    @@ Info(TRUE, TRUE) :> {<<"NO_CONTEXT", "CREDIT_CARD", "unapproved">>}

AcceptTrx ==
    Info(FALSE, FALSE) :> {<<"ACCEPT_TRANSACTION", "CREDIT_CARD", "approved">>}
    @@ Info(TRUE, FALSE) :> {<<"ACCEPT_TRANSACTION", "WIRE", "none">>}

ProcessTrx ==
    Info(TRUE, FALSE) :> {<<"PROCESS_TRANSACTION", "CREDIT_CARD", "approved">>}

ProcessTrxWire == {<<"PROCESS_TRANSACTION", "WIRE", "none">>}

ASSUME FlagsTests ==
    \A test \in {NoFlagsNeeded, Survey, UserArchived, NeedAdminReview, C6Check, CreditCard,
                 Poi, Selfie, VideoInterview} :
        \A flags \in DOMAIN test : \A q \in test[flags] : q \in QueryRow /\ Flags(q) = flags

ASSUME RequiredInfoTests ==
    /\ \A test \in {NoContext, AcceptTrx, ProcessTrx} :
          \A info \in DOMAIN test : \A c \in test[info] : Required(c[1], c[2], FALSE, c[3]) = info
    /\ \A c \in ProcessTrxWire : Required(c[1], c[2], FALSE, c[3]) = Error
=============================================================================
