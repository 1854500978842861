SPECIFICATION Spec
CONSTANTS
    Uploads <- AllUploads
    FirstDocs <- WithPoi
    Countries <- AllCountries
    Digits = {}
    Null = Null
    Methods = {}
    Days = {}
    Surveys <- ReviewedSurveys
    MaxTrxs = 0
    Troubles = {"admin review"}
INVARIANTS TypeOK ActiveIsCleared ClearedIsActive FlagsGuide
