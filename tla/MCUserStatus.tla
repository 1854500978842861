--------------------------- MODULE MCUserStatus ---------------------------
(* Instances of UserStatus for TLC. *)
EXTENDS UserStatus

Doc(type, sumsub) == [type |-> type, sumsub |-> sumsub]

AllUploads ==
    {Doc("PERSONAL", b) : b \in BOOLEAN} \cup {Doc("VIDEO_INTERVIEW", b) : b \in BOOLEAN}
    \cup {Doc("SELFIE_IMAGE", TRUE)}

EitherPoi ==
    {{[type |-> type, sumsub |-> FALSE, status |-> "APPROVED"]} :
        type \in {"PERSONAL", "PERSONAL_ADDITIONAL"}}
WithPoi == {{}, {[type |-> "PERSONAL", sumsub |-> FALSE, status |-> "APPROVED"]}}

AllCountries == [selfie : BOOLEAN, video : BOOLEAN] \cup {Null}
OneCountry == {[selfie |-> FALSE, video |-> FALSE]}

NoSurvey == {"none"}
ReviewedSurveys == {"DENIED", "PENDING", "APPROVED"}
=============================================================================
