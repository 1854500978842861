SPECIFICATION FairSpec
CONSTANTS
    Uploads = {}
    FirstDocs <- WithPoi
    Countries <- AllCountries
    Digits = {}
    Null = Null
    Methods = {}
    Days = {}
    Surveys <- NoSurvey
    MaxTrxs = 0
    Troubles = {"archive", "admin review"}
INVARIANTS AnswerStands
PROPERTIES CooperationEndsActive
