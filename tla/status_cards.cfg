SPECIFICATION Spec
CONSTANTS
    Uploads = {}
    FirstDocs <- EitherPoi
    Countries <- OneCountry
    Digits = {d1, d2}
    Null = Null
    Methods = {"CREDIT_CARD", "ZELLE"}
    Days = {day}
    Surveys <- NoSurvey
    MaxTrxs = 2
    Troubles = {}
INVARIANTS ActiveIsCleared ActiveIsAskedByNullOnly
