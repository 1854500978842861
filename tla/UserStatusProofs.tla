------------------------- MODULE UserStatusProofs -------------------------
(***************************************************************************)
(* What UserStatus guarantees for any documents, cards, transactions and   *)
(* countries: types, which users are active, what the flags mean and that  *)
(* the answer of DetermineUserStatus stands.                               *)
(***************************************************************************)
EXTENDS UserStatus, TLAPS

-----------------------------------------------------------------------------
(* The rules *)

\* Every flag is one of those that the code knows.
LEMMA FlagsType ==
  ASSUME NEW q PROVE Flags(q) \subseteq UserStatusFlag
  <1>1. RequiredFlags(q) \subseteq UserStatusFlag
    BY DEF RequiredFlags, When, DocFlag, SelfieFlag, InterviewFlag, UserStatusFlag
  <1> DEFINE W == WaiveVideo(q, WaiveSelfie(q, RequiredFlags(q)))
  <1>2. W \subseteq UserStatusFlag
    BY <1>1 DEF WaiveSelfie, WaiveVideo, When, SelfieFlag, UserStatusFlag
  <1>3. IdentityFlags(q) \subseteq UserStatusFlag
    <2> HIDE DEF W
    <2>1. DocumentFirst(q, W) \subseteq UserStatusFlag
      BY <1>2 DEF DocumentFirst, DocFlag, UserStatusFlag
    <2> QED BY <2>1 DEF IdentityFlags, W
  <1> QED BY <1>3 DEF Flags, CardFlags, SurveyFlags, When, UserStatusFlag

\* Before the C6 check there are five results.
LEMMA StatusRange ==
  ASSUME NEW F
  PROVE  StatusOf(F) \in {"ARCHIVED", "PENDING", "ACTIVE", "MISSING_DOCS", "ASK_C6"}
  BY DEF StatusOf

\* A user is active without any flag, and is sent to the C6 check with nothing
\* but the flag that asks for it.
LEMMA UnblockedFlags ==
  ASSUME NEW F \in SUBSET UserStatusFlag
  PROVE  /\ StatusOf(F) = "ACTIVE" <=> F = {}
         /\ StatusOf(F) = "ASK_C6" <=> F = {"NEED_C6_CHECK"}
  <1>1. StatusOf(F) = "ACTIVE" => F = {}
    BY DEF StatusOf, Blocking, UserStatusFlag
  <1>2. F = {} => StatusOf(F) = "ACTIVE"
    BY DEF StatusOf, Blocking
  <1>3. StatusOf(F) = "ASK_C6" => F = {"NEED_C6_CHECK"}
    BY DEF StatusOf
  <1>4. F = {"NEED_C6_CHECK"} => StatusOf(F) = "ASK_C6"
    BY DEF StatusOf, Blocking, UserStatusFlag, MissingDocs, InReview
  <1> QED BY <1>1, <1>2, <1>3, <1>4

\* Nothing is asked about a user's identity when the personal document is
\* approved and what the country demands is approved or made up for.
IdentitySettled(q) ==
    /\ q.approvedPoi
    /\ q.selfieRequired => q.approvedSelfie \/ q.approvedSumSubVideo
    /\ q.videoRequired => q.approvedVideo \/ (q.expiredSumSubVideo /\ q.approvedSelfie)

\* No waiver and no order of documents loses a demand.
LEMMA NoIdentityFlags ==
  ASSUME NEW q, IdentityFlags(q) = {}
  PROVE  IdentitySettled(q)
  <1> DEFINE R == RequiredFlags(q)
             S == WaiveSelfie(q, R)
             V == WaiveVideo(q, S)
  <1>1. V = {}
    BY DEF IdentityFlags, DocumentFirst
  <1>2. S \subseteq {"NEED_VIDEO_INTERVIEW"} /\ (S # {} => q.expiredSumSubVideo /\ q.approvedSelfie)
    <2> HIDE DEF S
    <2> QED BY <1>1 DEF WaiveVideo, When
  <1>3. R \subseteq S \cup {"NEED_SELFIE_IMAGE"} /\ ("NEED_SELFIE_IMAGE" \in R => q.approvedSumSubVideo)
    <2> HIDE DEF R
    <2> QED BY <1>2 DEF WaiveSelfie, When
  <1>4. q.approvedPoi
    BY <1>2, <1>3 DEF RequiredFlags, When, DocFlag
  <1>5. q.selfieRequired => q.approvedSelfie \/ q.approvedSumSubVideo
    BY <1>2, <1>3 DEF RequiredFlags, When, SelfieFlag
  <1>6. q.videoRequired => q.approvedVideo \/ (q.expiredSumSubVideo /\ q.approvedSelfie)
    BY <1>2, <1>3 DEF RequiredFlags, When, InterviewFlag
  <1> QED BY <1>4, <1>5, <1>6 DEF IdentitySettled

\* And no demand outlives what makes up for it, unless a document of the kind
\* waits for review.
LEMMA NothingAsked ==
  ASSUME NEW q, IdentitySettled(q), ~q.pendingVideo, ~q.pendingSelfie
  PROVE  IdentityFlags(q) = {}
  <1>1. RequiredFlags(q) \subseteq {"NEED_SELFIE_IMAGE", "NEED_VIDEO_INTERVIEW"}
    BY DEF RequiredFlags, When, SelfieFlag, InterviewFlag, IdentitySettled
  <1>2. "NEED_SELFIE_IMAGE" \in RequiredFlags(q) => q.approvedSumSubVideo
    BY DEF RequiredFlags, When, DocFlag, InterviewFlag, IdentitySettled
  <1>3. "NEED_VIDEO_INTERVIEW" \in RequiredFlags(q) => q.expiredSumSubVideo /\ q.approvedSelfie
    BY DEF RequiredFlags, When, DocFlag, SelfieFlag, IdentitySettled
  <1>4. WaiveSelfie(q, RequiredFlags(q)) \subseteq {"NEED_VIDEO_INTERVIEW"}
    BY <1>1, <1>2 DEF WaiveSelfie, When
  <1>5. WaiveVideo(q, WaiveSelfie(q, RequiredFlags(q))) = {}
    BY <1>3, <1>4 DEF WaiveVideo, WaiveSelfie, When
  <1> QED BY <1>5 DEF IdentityFlags, DocumentFirst

-----------------------------------------------------------------------------
(* Types *)

\* Removing a transaction leaves a shorter list of transactions.
LEMMA RemoveType ==
  ASSUME NEW s \in Seq(Trxs), NEW i \in DOMAIN s
  PROVE  /\ [j \in 1..(Len(s) - 1) |-> IF j < i THEN s[j] ELSE s[j + 1]] \in Seq(Trxs)
         /\ Len([j \in 1..(Len(s) - 1) |-> IF j < i THEN s[j] ELSE s[j + 1]]) = Len(s) - 1
  <1> DEFINE n == Len(s) - 1
             r == [j \in 1..n |-> IF j < i THEN s[j] ELSE s[j + 1]]
  <1>1. n \in Nat /\ DOMAIN s = 1..(n + 1)
    OBVIOUS
  <1>2. \A j \in 1..n : r[j] \in Trxs
    BY <1>1
  <1>3. r \in [1..n -> Trxs]
    BY <1>2
  <1> HIDE DEF n, r
  <1>4. r \in Seq(Trxs) /\ Len(r) = n
    BY <1>1, <1>3
  <1> QED BY <1>4 DEF n, r

\* What a review makes of a document is a document.
LEMMA DocType ==
  ASSUME NEW d \in Documents, NEW status \in {"PENDING", "APPROVED", "EXPIRED"}
  PROVE  [d EXCEPT !.status = status] \in Documents
  BY DEF Documents

\* What a review makes of a card is a card.
LEMMA CardType ==
  ASSUME NEW c \in Cards
  PROVE  [c EXCEPT !.status = "APPROVED"] \in Cards
  BY DEF Cards

\* The records of a new user.
LEMMA InitType == Init => TypeOK
  <1> SUFFICES ASSUME Init PROVE TypeOK
    OBVIOUS
  <1>1. docs \subseteq Documents /\ survey \in SurveyStatuses
    BY RecordsAssumption DEF Init
  <1>2. trxs \in Seq(Trxs) /\ Len(trxs) <= MaxTrxs
    <2>1. trxs = <<>> /\ MaxTrxs \in Nat
      BY RecordsAssumption DEF Init
    <2> QED BY <2>1
  <1> QED BY <1>1, <1>2 DEF Init, TypeOK

\* When the records change under a call, only the history besides is touched.
LEMMA OutdatesType ==
  ASSUME TypeOK, Outdates
  PROVE  stale' \in BOOLEAN
  BY DEF TypeOK, Outdates

\* The upload that answers a flag is one of a known type.
LEMMA AskedType ==
  ASSUME NEW f \in {"NEED_POI", "NEED_SELFIE_IMAGE", "NEED_VIDEO_INTERVIEW"}
  PROVE  Asked(f) \in [type : DocTypes, sumsub : BOOLEAN]
  BY DEF Asked, DocTypes

\* The kinds of steps: which record each of them changes.
DocStep ==
    \/ \E u \in [type : DocTypes, sumsub : BOOLEAN] : Upload(u)
    \/ \E d \in docs : Approve(d) \/ Deny(d) \/ Expire(d)

CardStep ==
    \/ \E digits \in Digits \cup {Null} : UploadCard(digits)
    \/ \E c \in cards, approve \in BOOLEAN : ReviewCard(c, approve)

TrxStep ==
    \/ \E t \in Trxs : PreAuthFinished(t)
    \/ \E i \in DOMAIN trxs : LeavePreAuth(i)

UserStep ==
    \/ \E c \in Countries : ChangeNationality(c)
    \/ \E status \in SurveyStatuses : SetSurvey(status)
    \/ C6Expires
    \/ \E open \in BOOLEAN : SetReview(open)
    \/ Archive

C6Step == \E result \in {"onboard", "failed"} : AskC6(result)

InfoStep ==
    \E context \in Contexts, type \in Methods, i \in DOMAIN trxs :
        GetRequiredInfo(context, type, i)

\* Clients and staff take no other steps, be they cooperative or not.
LEMMA StepKinds ==
  ASSUME TypeOK, Next
  PROVE  DocStep \/ CardStep \/ TrxStep \/ UserStep \/ Determine \/ C6Step \/ InfoStep
  <1>1. CASE FollowFlags
    <2>1. ASSUME NEW f \in {"NEED_POI", "NEED_SELFIE_IMAGE", "NEED_VIDEO_INTERVIEW"},
                 Upload(Asked(f))
          PROVE  DocStep
      BY <2>1, AskedType DEF DocStep
    <2>2. ASSUME NEW i \in DOMAIN trxs, UploadCard(trxs[i].card)
          PROVE  CardStep
      <3>1. trxs[i] \in Trxs
        BY DEF TypeOK
      <3>2. trxs[i].card \in Digits \cup {Null}
        BY <3>1 DEF Trxs
      <3> QED BY <2>2, <3>2 DEF CardStep
    <2>3. ASSUME SetSurvey("PENDING")
          PROVE  UserStep
      BY <2>3 DEF UserStep, SurveyStatuses
    <2> QED BY <1>1, <2>1, <2>2, <2>3 DEF FollowFlags
  <1>2. CASE StaffApproves
    BY <1>2 DEF StaffApproves, DocStep, CardStep, UserStep, SurveyStatuses
  <1>3. CASE Determine \/ AskC6("onboard")
    BY <1>3 DEF C6Step
  <1>4. CASE Disturb
    BY <1>4, RecordsAssumption DEF Disturb, DocStep, CardStep, TrxStep, UserStep, C6Step
  <1>5. CASE Ask
    BY <1>5 DEF Ask, InfoStep
  <1> QED BY <1>1, <1>2, <1>3, <1>4, <1>5 DEF Next, Cooperate

\* Something is found in every case, and in none anything but this.
LEMMA WhatIsFound ==
  ASSUME TypeOK, NEW i \in DOMAIN trxs
  PROVE  /\ trxs[i].day \in Days
         /\ PreAuthInfo(i) # {}
         /\ \A r \in PreAuthInfo(i) :
               /\ r[1] \in Coverage
               /\ r[2] = "unapproved" => ~CardApproved(i)
               /\ r[2] \in {"none", "failed"} => rates[trxs[i].day] # "all"
  <1>1. trxs[i] \in Trxs
    BY DEF TypeOK
  <1>2. trxs[i].day \in Days
    BY <1>1 DEF Trxs
  <1> DEFINE covered == rates[trxs[i].day]
             card == IF CardApproved(i) THEN "approved" ELSE "unapproved"
  <1>3. covered \in {"none", "some", "all"}
    BY <1>2 DEF TypeOK, Coverage
  <1>4. PreAuthInfo(i) = IF covered = "none" THEN {<<"none", "failed">>, <<"all", card>>}
                         ELSE IF covered = "some" THEN {<<"some", "none">>, <<"some", card>>}
                         ELSE {<<"all", card>>}
    BY <1>3 DEF PreAuthInfo
  <1>5. card \notin {"none", "failed"} /\ (card = "unapproved" => ~CardApproved(i))
    OBVIOUS
  <1> HIDE DEF card, covered
  <1>6. PreAuthInfo(i) # {}
    BY <1>4
  <1>7. ASSUME NEW r \in PreAuthInfo(i)
        PROVE  /\ r[1] \in Coverage
               /\ r[2] = "unapproved" => ~CardApproved(i)
               /\ r[2] \in {"none", "failed"} => covered # "all"
    BY <1>3, <1>4, <1>5, <1>7 DEF Coverage
  <1> QED BY <1>2, <1>6, <1>7 DEF covered

\* A day gets the rates that the lookup leaves it.
LEMMA RatesType ==
  ASSUME TypeOK, NEW i \in DOMAIN trxs, NEW r \in PreAuthInfo(i),
         rates' = [rates EXCEPT ![trxs[i].day] = r[1]]
  PROVE  rates' \in [Days -> Coverage]
  <1>1. r[1] \in Coverage
    BY WhatIsFound
  <1> QED BY <1>1 DEF TypeOK

\* One step per kind.
LEMMA StepType == TypeOK /\ [Next]_vars => TypeOK'
  <1> SUFFICES ASSUME TypeOK, [Next]_vars PROVE TypeOK'
    OBVIOUS
  <1>1. CASE DocStep
    <2>1. ASSUME NEW u \in [type : DocTypes, sumsub : BOOLEAN], Upload(u)
          PROVE  TypeOK'
      <3>1. docs' \subseteq Documents
        BY <2>1 DEF Upload, NewDoc, Documents, TypeOK
      <3> QED BY <2>1, <3>1, OutdatesType DEF Upload, TypeOK
    <2>2. ASSUME NEW d \in docs, NEW news \in SUBSET Documents, SetDoc(d, news)
          PROVE  TypeOK'
      <3>1. docs' \subseteq Documents
        BY <2>2 DEF SetDoc, TypeOK
      <3> QED BY <2>2, <3>1, OutdatesType DEF SetDoc, TypeOK
    <2>3. ASSUME NEW d \in docs, Approve(d) \/ Deny(d) \/ Expire(d)
          PROVE  TypeOK'
      <3>1. /\ {[d EXCEPT !.status = "APPROVED"]} \subseteq Documents
            /\ When(d.type = "VIDEO_INTERVIEW" /\ d.sumsub, [d EXCEPT !.status = "EXPIRED"])
                  \subseteq Documents
        BY DocType DEF When, TypeOK
      <3>2. /\ Approve(d) => SetDoc(d, {[d EXCEPT !.status = "APPROVED"]})
            /\ Deny(d) => SetDoc(d, {})
            /\ Expire(d) => SetDoc(d, When(d.type = "VIDEO_INTERVIEW" /\ d.sumsub,
                                           [d EXCEPT !.status = "EXPIRED"]))
        BY DEF Approve, Deny, Expire
      <3> QED BY <2>2, <2>3, <3>1, <3>2
    <2> QED BY <1>1, <2>1, <2>3 DEF DocStep
  <1>2. CASE CardStep
    <2>1. ASSUME NEW digits \in Digits \cup {Null}, UploadCard(digits)
          PROVE  TypeOK'
      <3>1. cards' \subseteq Cards
        BY <2>1 DEF UploadCard, Cards, TypeOK
      <3> QED BY <2>1, <3>1, OutdatesType DEF UploadCard, TypeOK
    <2>2. ASSUME NEW c \in cards, NEW approve \in BOOLEAN, ReviewCard(c, approve)
          PROVE  TypeOK'
      <3>1. cards' \subseteq Cards
        BY <2>2, CardType DEF ReviewCard, When, TypeOK
      <3> QED BY <2>2, <3>1, OutdatesType DEF ReviewCard, TypeOK
    <2> QED BY <1>2, <2>1, <2>2 DEF CardStep
  <1>3. CASE TrxStep
    <2>1. ASSUME NEW t \in Trxs, PreAuthFinished(t)
          PROVE  TypeOK'
      <3>1. trxs' \in Seq(Trxs) /\ Len(trxs') <= MaxTrxs
        BY <2>1, RecordsAssumption DEF PreAuthFinished, TypeOK
      <3> QED BY <2>1, <3>1, OutdatesType DEF PreAuthFinished, TypeOK
    <2>2. ASSUME NEW i \in DOMAIN trxs, LeavePreAuth(i)
          PROVE  TypeOK'
      <3>1. trxs' \in Seq(Trxs) /\ Len(trxs') = Len(trxs) - 1
        BY <2>2, RemoveType DEF LeavePreAuth, TypeOK
      <3>2. Len(trxs') <= MaxTrxs
        BY <3>1, RecordsAssumption DEF TypeOK
      <3> QED BY <2>2, <3>1, <3>2, OutdatesType DEF LeavePreAuth, TypeOK
    <2> QED BY <1>3, <2>1, <2>2 DEF TrxStep
  <1>4. CASE UserStep
    BY <1>4, OutdatesType
       DEF UserStep, ChangeNationality, SetSurvey, C6Expires, SetReview, Archive, TypeOK
  <1>5. CASE Determine
    BY <1>5, StatusRange DEF Determine, StatusNow, records, TypeOK
  <1>6. CASE C6Step
    BY <1>6 DEF C6Step, AskC6, TypeOK
  <1>7. CASE InfoStep
    <2> SUFFICES ASSUME NEW context, NEW type, NEW i \in DOMAIN trxs,
                        GetRequiredInfo(context, type, i)
                 PROVE  TypeOK'
      BY <1>7 DEF InfoStep
    <2>1. rates' \in [Days -> Coverage]
      BY RatesType DEF GetRequiredInfo, LookedUp
    <2> QED BY <2>1 DEF GetRequiredInfo, records, TypeOK
  <1>8. CASE UNCHANGED vars
    BY <1>8 DEF vars, TypeOK
  <1> QED BY <1>1, <1>2, <1>3, <1>4, <1>5, <1>6, <1>7, <1>8, StepKinds

(***************************************************************************)
(* Every record keeps its type and every answer is a status, whatever is   *)
(* uploaded, reviewed or removed between two statements (Determine-        *)
(* UserStatus).                                                            *)
(***************************************************************************)
THEOREM TypeCorrect == Spec => []TypeOK
  BY InitType, StepType, PTL DEF Spec

-----------------------------------------------------------------------------
(* Who is active *)

\* The flags about a user's identity.
LEMMA IdentityType ==
  ASSUME NEW q
  PROVE  IdentityFlags(q) \subseteq
            {"NEED_POI", "PENDING_POI", "NEED_SELFIE_IMAGE", "PENDING_SELFIE_IMAGE",
             "NEED_VIDEO_INTERVIEW", "PENDING_VIDEO_INTERVIEW"}
  <1> DEFINE I == {"NEED_POI", "PENDING_POI", "NEED_SELFIE_IMAGE", "PENDING_SELFIE_IMAGE",
                   "NEED_VIDEO_INTERVIEW", "PENDING_VIDEO_INTERVIEW"}
             W == WaiveVideo(q, WaiveSelfie(q, RequiredFlags(q)))
  <1>1. RequiredFlags(q) \subseteq I
    BY DEF RequiredFlags, When, DocFlag, SelfieFlag, InterviewFlag
  <1>2. W \subseteq I
    BY <1>1 DEF WaiveSelfie, WaiveVideo, When, SelfieFlag
  <1> HIDE DEF W
  <1>3. DocumentFirst(q, W) \subseteq I
    BY <1>2 DEF DocumentFirst, DocFlag
  <1> QED BY <1>3 DEF IdentityFlags, W

\* Nothing is missing besides the C6 check.
Unhindered(q) ==
    /\ ~q.archived /\ ~q.needsAdminReview
    /\ IdentityFlags(q) = {}
    /\ ~q.needsCc
    /\ q.survey \notin {"MISSING", "DENIED", "PENDING"}

\* The flags of a user to whom that applies, and of nobody else.
LEMMA UnhinderedFlags ==
  ASSUME NEW q
  PROVE  /\ Flags(q) \subseteq {"NEED_C6_CHECK"} <=> Unhindered(q)
         /\ Unhindered(q) => Flags(q) = When(~q.c6Valid, "NEED_C6_CHECK")
  <1>1. Unhindered(q) => Flags(q) = When(~q.c6Valid, "NEED_C6_CHECK")
    BY DEF Unhindered, Flags, CardFlags, SurveyFlags, When
  <1>2. ASSUME Flags(q) \subseteq {"NEED_C6_CHECK"}
        PROVE  Unhindered(q)
    <2>1. ~q.archived
      BY <1>2 DEF Flags
    <2>2. IdentityFlags(q) = {} /\ CardFlags(q) = {} /\ SurveyFlags(q) = {}
      <3>1. /\ IdentityFlags(q) \subseteq {"NEED_C6_CHECK"}
            /\ CardFlags(q) \subseteq {"NEED_C6_CHECK"}
            /\ SurveyFlags(q) \subseteq {"NEED_C6_CHECK"}
        BY <1>2, <2>1 DEF Flags
      <3>2. IdentityFlags(q) = {}
        BY <3>1, IdentityType
      <3> QED BY <3>1, <3>2 DEF CardFlags, SurveyFlags, When
    <2>3. ~q.needsAdminReview
      BY <1>2, <2>1 DEF Flags, When
    <2> QED BY <2>1, <2>2, <2>3 DEF Unhindered, CardFlags, SurveyFlags, When
  <1>3. When(~q.c6Valid, "NEED_C6_CHECK") \subseteq {"NEED_C6_CHECK"}
    BY DEF When
  <1> QED BY <1>1, <1>2, <1>3

\* The status of a user, in terms of the row.
LEMMA UnhinderedStatus ==
  ASSUME HasRow
  PROVE  /\ StatusNow \in {"ACTIVE", "ASK_C6"} <=> Unhindered(Query)
         /\ StatusNow = "ACTIVE" <=> Unhindered(Query) /\ Query.c6Valid
  <1>1. FlagsNow \in SUBSET UserStatusFlag
    BY FlagsType DEF FlagsNow
  <1>2. StatusNow = "ACTIVE" <=> FlagsNow = {}
    BY <1>1, UnblockedFlags DEF StatusNow
  <1>3. StatusNow = "ASK_C6" <=> FlagsNow = {"NEED_C6_CHECK"}
    BY <1>1, UnblockedFlags DEF StatusNow
  <1>4. FlagsNow \subseteq {"NEED_C6_CHECK"} <=> Unhindered(Query)
    BY UnhinderedFlags DEF FlagsNow
  <1>5. Unhindered(Query) => (FlagsNow = {} <=> Query.c6Valid)
    BY UnhinderedFlags DEF FlagsNow, When
  <1> QED BY <1>2, <1>3, <1>4, <1>5

\* The columns of the row, one by one.
LEMMA Columns ==
  /\ Query.survey = survey
  /\ Query.archived <=> archived
  /\ Query.needsAdminReview <=> review
  /\ Query.selfieRequired <=> country.selfie
  /\ Query.videoRequired <=> country.video
  /\ Query.pendingPoi <=> Has("PERSONAL", "PENDING")
  /\ Query.pendingSelfie <=> Has("SELFIE_IMAGE", "PENDING")
  /\ Query.pendingVideo <=> Has("VIDEO_INTERVIEW", "PENDING")
  /\ Query.approvedPoi <=> Has("PERSONAL", "APPROVED")
  /\ Query.approvedSelfie <=> Has("SELFIE_IMAGE", "APPROVED")
  /\ Query.approvedVideo <=> Has("VIDEO_INTERVIEW", "APPROVED")
  /\ Query.approvedSumSubVideo <=> HasSumSub("VIDEO_INTERVIEW", "APPROVED")
  /\ Query.expiredSumSubVideo <=> HasSumSub("VIDEO_INTERVIEW", "EXPIRED")
  /\ Query.pendingCc <=> \E c \in cards : c.status = "PENDING"
  /\ Query.needsCc <=> NeedsCc
  /\ Query.c6Valid <=> c6 = "onboard"
  BY DEF Query

\* Cards are asked for exactly when the digits of a transaction's card are
\* known and approved for no card, all approved cards having digits.
LEMMA CardsSettled ==
  /\ ~NeedsCc /\ CardsKnown => \A i \in DOMAIN trxs : trxs[i].card # Null => CardApproved(i)
  /\ (\A i \in DOMAIN trxs : CardApproved(i)) => ~NeedsCc
  <1>1. CardsKnown => Null \notin ApprovedDigits
    BY DEF CardsKnown, ApprovedDigits
  <1> QED BY <1>1 DEF NeedsCc, NotIn, CardApproved

\* Whom the rules do not hinder has got everything approved.
LEMMA ActiveCleared == ActiveIsCleared
  <1> SUFFICES ASSUME HasRow, Unhindered(Query)
               PROVE  Cleared /\ (StatusNow = "ACTIVE" => c6 = "onboard")
    BY UnhinderedStatus DEF ActiveIsCleared, StatusNow
  <1>1. IdentitySettled(Query)
    BY NoIdentityFlags DEF Unhindered
  <1>2. /\ Has("PERSONAL", "APPROVED")
        /\ country.selfie => SelfieSettled
        /\ country.video => VideoSettled
    BY <1>1, Columns DEF IdentitySettled, SelfieSettled, VideoSettled
  <1>3. ~archived /\ ~review /\ ~NeedsCc /\ survey \notin {"MISSING", "DENIED", "PENDING"}
    BY Columns DEF Unhindered
  <1>4. StatusNow = "ACTIVE" => c6 = "onboard"
    BY UnhinderedStatus, Columns
  <1> QED BY <1>2, <1>3, <1>4, CardsSettled DEF Cleared

\* And the other way round.
LEMMA ClearedActive == ClearedIsActive
  <1> SUFFICES ASSUME Cleared, \A d \in docs : d.status # "PENDING",
                      \A i \in DOMAIN trxs : CardApproved(i)
               PROVE  Unhindered(Query)
    BY UnhinderedStatus DEF ClearedIsActive, Cleared
  <1>1. IdentitySettled(Query)
    BY Columns DEF Cleared, IdentitySettled, SelfieSettled, VideoSettled
  <1>2. ~Query.pendingVideo /\ ~Query.pendingSelfie
    BY Columns DEF Has
  <1>3. IdentityFlags(Query) = {}
    BY <1>1, <1>2, NothingAsked
  <1>4. /\ ~Query.archived /\ ~Query.needsAdminReview /\ ~Query.needsCc
        /\ Query.survey \notin {"MISSING", "DENIED", "PENDING"}
    BY Columns, CardsSettled DEF Cleared
  <1> QED BY <1>3, <1>4 DEF Unhindered

(***************************************************************************)
(* For every user, country and history of documents: only who is cleared   *)
(* of everything else is ACTIVE or sent to the C6 check; no waiver, no     *)
(* order of documents and no empty list of approved cards lets anyone slip *)
(* through (DetermineUserFlags, DetermineUserStatus).                      *)
(***************************************************************************)
THEOREM ActiveAreCleared == Spec => []ActiveIsCleared
  BY ActiveCleared, PTL

(***************************************************************************)
(* And nobody is held back for nothing: the flags know no demand that a    *)
(* cleared user without pending documents could fail (DetermineUserFlags,  *)
(* DetermineUserStatus).                                                   *)
(***************************************************************************)
THEOREM ClearedAreActive == Spec => []ClearedIsActive
  BY ClearedActive, PTL

-----------------------------------------------------------------------------
(* What the flags say *)

\* A flag in review comes from something that is pending.
LEMMA PendingFlags ==
  ASSUME NEW q
  PROVE  /\ "PENDING_POI" \in Flags(q) => q.pendingPoi
         /\ "PENDING_SELFIE_IMAGE" \in Flags(q) => q.pendingSelfie
         /\ "PENDING_VIDEO_INTERVIEW" \in Flags(q) => q.pendingVideo
         /\ "PENDING_CC" \in Flags(q) => q.pendingCc
         /\ "PENDING_SURVEY" \in Flags(q) => q.survey = "PENDING"
         /\ "NEED_ADMIN_REVIEW" \in Flags(q) => q.needsAdminReview
  <1> DEFINE V == WaiveVideo(q, WaiveSelfie(q, RequiredFlags(q)))
             Pending(F) == /\ "PENDING_POI" \in F => q.pendingPoi
                           /\ "PENDING_SELFIE_IMAGE" \in F => q.pendingSelfie
                           /\ "PENDING_VIDEO_INTERVIEW" \in F => q.pendingVideo
  <1>1. Pending(RequiredFlags(q))
    BY DEF RequiredFlags, When, DocFlag, SelfieFlag, InterviewFlag
  <1>2. Pending(V)
    BY <1>1 DEF WaiveSelfie, WaiveVideo, When, SelfieFlag
  <1>3. Pending(IdentityFlags(q))
    <2> HIDE DEF V
    <2>1. Pending(DocumentFirst(q, V))
      BY <1>2 DEF DocumentFirst, DocFlag
    <2> QED BY <2>1 DEF IdentityFlags, V
  <1>4. IdentityFlags(q) \cap {"PENDING_CC", "PENDING_SURVEY", "NEED_ADMIN_REVIEW"} = {}
    BY IdentityType
  <1>5. CardFlags(q) \subseteq {"NEED_CC", "PENDING_CC"} /\ ("PENDING_CC" \in CardFlags(q) => q.pendingCc)
    BY DEF CardFlags, When
  <1>6. /\ SurveyFlags(q) \subseteq {"NEED_SURVEY", "PENDING_SURVEY"}
        /\ "PENDING_SURVEY" \in SurveyFlags(q) => q.survey = "PENDING"
    BY DEF SurveyFlags, When
  <1> QED BY <1>3, <1>4, <1>5, <1>6 DEF Flags, When

\* Who has documents missing has a flag to act on.
LEMMA MissingHasNeed ==
  ASSUME NEW F \in SUBSET UserStatusFlag, StatusOf(F) = "MISSING_DOCS"
  PROVE  F \cap {"NEED_POI", "NEED_SELFIE_IMAGE", "NEED_VIDEO_INTERVIEW",
                 "NEED_CC", "NEED_SURVEY"} # {}
  <1>1. CASE MissingDocs(F)
    BY <1>1 DEF MissingDocs
  <1>2. CASE ~MissingDocs(F)
    <2>1. F \cap {"USER_SUSPENDED", "NEED_ADMIN_REVIEW"} = {}
      BY DEF StatusOf
    <2>2. F \cap Blocking # {} /\ ~InReview(F) /\ F # {"NEED_C6_CHECK"}
      BY <1>2, <2>1 DEF StatusOf
    <2> QED BY <2>1, <2>2 DEF Blocking, InReview, UserStatusFlag
  <1> QED BY <1>1, <1>2

\* Who is pending waits for a review of flags or of something else.
LEMMA PendingHasReview ==
  ASSUME NEW F, StatusOf(F) = "PENDING"
  PROVE  "NEED_ADMIN_REVIEW" \in F \/ InReview(F)
  BY DEF StatusOf

\* No status leaves everybody waiting for everybody.
LEMMA StatusGuides == FlagsGuide
  <1>1. ASSUME StatusNow = "MISSING_DOCS"
        PROVE  FlagsNow \cap {"NEED_POI", "NEED_SELFIE_IMAGE", "NEED_VIDEO_INTERVIEW",
                              "NEED_CC", "NEED_SURVEY"} # {}
    BY <1>1, FlagsType, MissingHasNeed DEF StatusNow, FlagsNow
  <1>2. ASSUME StatusNow = "PENDING"
        PROVE  \/ review \/ survey = "PENDING"
               \/ \E d \in docs : d.status = "PENDING"
               \/ \E c \in cards : c.status = "PENDING"
    <2>1. "NEED_ADMIN_REVIEW" \in Flags(Query) \/ InReview(Flags(Query))
      BY <1>2, PendingHasReview DEF StatusNow, FlagsNow
    <2>2. \/ Query.needsAdminReview \/ Query.survey = "PENDING" \/ Query.pendingCc
          \/ Query.pendingPoi \/ Query.pendingSelfie \/ Query.pendingVideo
      BY <2>1, PendingFlags DEF InReview
    <2> QED BY <2>2, Columns DEF Has
  <1> QED BY <1>1, <1>2 DEF FlagsGuide

(***************************************************************************)
(* For every user: MISSING_DOCS comes with a flag to act on, and PENDING   *)
(* with something that waits for a decision of staff, so that no status    *)
(* leaves each side waiting for the other (DetermineUserFlags,             *)
(* DetermineUserStatus).                                                   *)
(***************************************************************************)
THEOREM FlagsAlwaysGuide == Spec => []FlagsGuide
  BY StatusGuides, PTL

-----------------------------------------------------------------------------
(* What an active user is asked for *)

\* Whom a lookup gives an unapproved card, the status query asks for none, and
\* NULL is the only way to both.
LEMMA NullOnly ==
  ASSUME ~NeedsCc, NEW i \in DOMAIN trxs, ~CardApproved(i)
  PROVE  trxs[i].card = Null \/ Null \in ApprovedDigits
  BY DEF NeedsCc, NotIn, CardApproved

\* A user who is ACTIVE has the personal document approved, and no card that the
\* status query could compare is unapproved.
LEMMA ActiveAsked == TypeOK => ActiveIsAskedByNullOnly
  <1> SUFFICES ASSUME TypeOK, StatusNow = "ACTIVE",
                      NEW context \in Contexts, NEW type \in Methods \cup {"WIRE"},
                      NEW i \in DOMAIN trxs \cup {0},
                      NEW info \in RequiredInfo(context, type, i)
               PROVE  IF info = Error
                      THEN \/ context = "PROCESS_TRANSACTION" /\ (type = "WIRE" \/ i = 0)
                           \/ \E j \in LookedUp(context, type, i) : rates[trxs[j].day] # "all"
                      ELSE /\ ~info.poi
                           /\ info.cc => \E j \in LookedUp(context, type, i) :
                                            trxs[j].card = Null \/ Null \in ApprovedDigits
    BY DEF ActiveIsAskedByNullOnly
  <1> DEFINE found == {r[2] : r \in UNION {PreAuthInfo(j) : j \in LookedUp(context, type, i)}}
  <1>1. HasRow /\ ~NeedsCc
    <2>1. HasRow
      BY DEF StatusNow
    <2> QED BY <2>1, UnhinderedStatus, Columns DEF Unhindered
  <1>2. HasPOIApproved = TRUE
    BY ActiveCleared DEF ActiveIsCleared, Cleared, HasPOIApproved
  <1>3. PICK card : /\ info = Required(context, type, TRUE, card)
                    /\ card \in IF found = {} THEN {"none"} ELSE found
    BY <1>2 DEF RequiredInfo
  <1>4. LookedUp(context, type, i) \subseteq DOMAIN trxs
    BY DEF LookedUp
  <1>5. \A j \in LookedUp(context, type, i) : PreAuthInfo(j) # {}
    BY <1>4, WhatIsFound
  <1>6. CASE found = {}
    <2>1. LookedUp(context, type, i) = {}
      BY <1>5, <1>6
    <2>2. card = "none"
      BY <1>3, <1>6
    <2>3. context = "PROCESS_TRANSACTION" => type = "WIRE" \/ i = 0
      BY <2>1 DEF LookedUp
    <2> QED BY <1>3, <2>2, <2>3 DEF Required, Info, Error, Contexts
  <1>7. CASE found # {}
    <2>1. PICK j \in LookedUp(context, type, i) : \E r \in PreAuthInfo(j) : card = r[2]
      BY <1>3, <1>7
    <2>2. /\ card = "unapproved" => trxs[j].card = Null \/ Null \in ApprovedDigits
          /\ card \in {"none", "failed"} => rates[trxs[j].day] # "all"
      BY <1>1, <1>4, <2>1, WhatIsFound, NullOnly
    <2>3. CASE card \in {"none", "failed"}
      <3>1. info = Error \/ info = Info(FALSE, FALSE)
        BY <1>3, <2>3 DEF Required, Contexts
      <3> QED BY <2>1, <2>2, <2>3, <3>1 DEF Info
    <2>4. CASE card \notin {"none", "failed"}
      <3>1. \/ info = Info(FALSE, FALSE)
            \/ info = Info(FALSE, TRUE) /\ card = "unapproved"
            \/ info = Error /\ context = "PROCESS_TRANSACTION" /\ type = "WIRE"
        BY <1>3, <2>4 DEF Required, Contexts, Info
      <3> QED BY <2>1, <2>2, <3>1 DEF Info, Error
    <2> QED BY <2>3, <2>4
  <1> QED BY <1>6, <1>7

(***************************************************************************)
(* For every user, every transaction and whatever rates there are: who is  *)
(* ACTIVE is never asked for a document, is asked for a card only where    *)
(* the two queries part over a comparison with NULL, and is refused only   *)
(* for want of a transaction or of rates (GetRequiredInfo).                *)
(***************************************************************************)
THEOREM ActiveIsNotAsked == Spec => []ActiveIsAskedByNullOnly
  BY TypeCorrect, ActiveAsked, PTL

-----------------------------------------------------------------------------
(* The answer of DetermineUserStatus *)

\* While the C6 service is asked, nothing besides its check was missing, unless
\* the records changed since the query.
AnswerInv ==
    /\ AnswerStands
    /\ pc = "c6" /\ ~stale => StatusNow = "ASK_C6"

\* The status depends on the records alone.
LEMMA RecordsDecide == UNCHANGED records => UNCHANGED StatusNow
  <1> SUFFICES ASSUME UNCHANGED records PROVE Query' = Query
    BY DEF StatusNow, FlagsNow, HasRow, records
  <1>1. UNCHANGED <<docs, country, cards, trxs, survey, c6, review, archived>>
    BY DEF records
  <1>2. NeedsCc' = NeedsCc
    BY <1>1 DEF NeedsCc, NotIn, ApprovedDigits
  <1> QED BY <1>1, <1>2 DEF Query, Has, HasSumSub

\* A change of the records leaves no answer that is not marked as outdated.
LEMMA OutdatesAnswer ==
  ASSUME AnswerInv, Outdates, UNCHANGED <<pc, answer>>
  PROVE  AnswerInv'
  <1>1. ~stale' => ~stale /\ UNCHANGED records
    BY DEF Outdates
  <1>2. ~stale' => UNCHANGED StatusNow /\ UNCHANGED c6
    BY <1>1, RecordsDecide DEF records
  <1> QED BY <1>1, <1>2 DEF AnswerInv, AnswerStands

\* The flags about a user's identity depend on no other columns.
LEMMA SameIdentity ==
  ASSUME NEW q, NEW r,
         r.selfieRequired = q.selfieRequired, r.videoRequired = q.videoRequired,
         r.pendingPoi = q.pendingPoi, r.pendingSelfie = q.pendingSelfie,
         r.pendingVideo = q.pendingVideo, r.approvedPoi = q.approvedPoi,
         r.approvedSelfie = q.approvedSelfie, r.approvedVideo = q.approvedVideo,
         r.approvedSumSubVideo = q.approvedSumSubVideo,
         r.approvedSumSubPoi = q.approvedSumSubPoi,
         r.expiredSumSubVideo = q.expiredSumSubVideo
  PROVE  IdentityFlags(r) = IdentityFlags(q)
  <1>1. DocFlag(r) = DocFlag(q) /\ SelfieFlag(r) = SelfieFlag(q)
        /\ InterviewFlag(r) = InterviewFlag(q)
    BY DEF DocFlag, SelfieFlag, InterviewFlag
  <1>2. RequiredFlags(r) = RequiredFlags(q)
    BY <1>1 DEF RequiredFlags
  <1> DEFINE V(x) == WaiveVideo(x, WaiveSelfie(x, RequiredFlags(x)))
  <1>3. V(r) = V(q)
    BY <1>1, <1>2 DEF WaiveSelfie, WaiveVideo
  <1> HIDE DEF V
  <1>4. DocumentFirst(r, V(r)) = DocumentFirst(q, V(q))
    BY <1>1, <1>3 DEF DocumentFirst
  <1> QED BY <1>4 DEF IdentityFlags, V

\* What the C6 service answers decides the status, everything else being settled.
LEMMA C6Decides ==
  ASSUME NEW result \in {"onboard", "failed"}, AskC6(result), StatusNow = "ASK_C6"
  PROVE  StatusNow' = IF result = "onboard" THEN "ACTIVE" ELSE "ASK_C6"
  <1>1. UNCHANGED <<docs, country, cards, trxs, survey, review, archived>> /\ c6' = result
    BY DEF AskC6
  <1>2. /\ Query'.survey = Query.survey /\ Query'.archived = Query.archived
        /\ Query'.needsAdminReview = Query.needsAdminReview
        /\ Query'.needsCc = Query.needsCc
    <2>1. NeedsCc' = NeedsCc
      BY <1>1 DEF NeedsCc, NotIn, ApprovedDigits
    <2> QED BY <1>1, <2>1 DEF Query
  <1>3. IdentityFlags(Query') = IdentityFlags(Query)
    <2>1. /\ Query'.selfieRequired = Query.selfieRequired
          /\ Query'.videoRequired = Query.videoRequired
      BY <1>1 DEF Query
    <2>2. /\ Query'.pendingPoi = Query.pendingPoi
          /\ Query'.pendingSelfie = Query.pendingSelfie
          /\ Query'.pendingVideo = Query.pendingVideo
          /\ Query'.approvedPoi = Query.approvedPoi
          /\ Query'.approvedSelfie = Query.approvedSelfie
          /\ Query'.approvedVideo = Query.approvedVideo
      BY <1>1 DEF Query, Has
    <2>3. /\ Query'.approvedSumSubVideo = Query.approvedSumSubVideo
          /\ Query'.approvedSumSubPoi = Query.approvedSumSubPoi
          /\ Query'.expiredSumSubVideo = Query.expiredSumSubVideo
      BY <1>1 DEF Query, HasSumSub
    <2> QED BY <2>1, <2>2, <2>3, SameIdentity
  <1>4. Unhindered(Query) /\ (Query'.c6Valid <=> result = "onboard") /\ HasRow /\ HasRow'
    <2>1. HasRow
      BY DEF StatusNow
    <2> QED BY <1>1, <2>1, UnhinderedStatus DEF Query, HasRow
  <1>5. Flags(Query') = When(result # "onboard", "NEED_C6_CHECK")
    <2>1. Unhindered(Query')
      BY <1>2, <1>3, <1>4 DEF Unhindered
    <2> QED BY <1>4, <2>1, UnhinderedFlags DEF When
  <1>6. Flags(Query') = IF result = "onboard" THEN {} ELSE {"NEED_C6_CHECK"}
    BY <1>5 DEF When
  <1>7. StatusOf({}) = "ACTIVE" /\ StatusOf({"NEED_C6_CHECK"}) = "ASK_C6"
    BY UnblockedFlags DEF UserStatusFlag
  <1> QED BY <1>4, <1>6, <1>7 DEF StatusNow, FlagsNow

\* One step per kind.
LEMMA StepAnswer == TypeOK /\ AnswerInv /\ [Next]_vars => AnswerInv'
  <1> SUFFICES ASSUME TypeOK, AnswerInv, [Next]_vars PROVE AnswerInv'
    OBVIOUS
  <1>1. CASE DocStep
    BY <1>1, OutdatesAnswer DEF DocStep, Upload, Approve, Deny, Expire, SetDoc
  <1>2. CASE CardStep
    BY <1>2, OutdatesAnswer DEF CardStep, UploadCard, ReviewCard
  <1>3. CASE TrxStep
    BY <1>3, OutdatesAnswer DEF TrxStep, PreAuthFinished, LeavePreAuth
  <1>4. CASE UserStep
    BY <1>4, OutdatesAnswer
       DEF UserStep, ChangeNationality, SetSurvey, C6Expires, SetReview, Archive
  <1>5. CASE Determine
    <2>1. UNCHANGED StatusNow
      BY <1>5, RecordsDecide DEF Determine
    <2> QED BY <1>5, <2>1 DEF Determine, AnswerInv, AnswerStands
  <1>6. CASE C6Step
    <2> SUFFICES ASSUME NEW result \in {"onboard", "failed"}, AskC6(result), ~stale
                 PROVE  AnswerInv'
      BY <1>6 DEF C6Step, AskC6, AnswerInv, AnswerStands
    <2>1. StatusNow = "ASK_C6"
      BY DEF AskC6, AnswerInv
    <2>2. StatusNow' = IF result = "onboard" THEN "ACTIVE" ELSE "ASK_C6"
      BY <2>1, C6Decides
    <2> QED BY <2>2 DEF AskC6, AnswerInv, AnswerStands
  <1>7. CASE InfoStep \/ UNCHANGED vars
    <2>1. UNCHANGED <<records, pc, answer, stale>>
      BY <1>7 DEF InfoStep, GetRequiredInfo, vars, records
    <2>2. UNCHANGED StatusNow /\ UNCHANGED c6
      BY <2>1, RecordsDecide DEF records
    <2> QED BY <2>1, <2>2 DEF AnswerInv, AnswerStands
  <1> QED BY <1>1, <1>2, <1>3, <1>4, <1>5, <1>6, <1>7, StepKinds

(***************************************************************************)
(* For every user and however the two statements and the call of the C6    *)
(* service interleave with uploads and reviews: the status returned is the *)
(* status of the records as they are, unless they changed since the first  *)
(* statement (DetermineUserStatus).                                        *)
(***************************************************************************)
THEOREM AnswersStand == Spec => []AnswerStands
  <1>1. Init => AnswerInv
    BY DEF Init, AnswerInv, AnswerStands
  <1>2. AnswerInv => AnswerStands
    BY DEF AnswerInv
  <1> QED BY <1>1, <1>2, InitType, StepType, StepAnswer, PTL DEF Spec
=============================================================================
