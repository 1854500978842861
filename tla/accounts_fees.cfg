SPECIFICATION Spec
CONSTANTS
    e1 = e1
    e2 = e2
    Sessions = {s1}
    NoSession = NoSession
    Emails = {e1}
    AffiliateIds = {1}
    Fees = {1, 2, 3}
    DefaultInviterFee = 1
    DefaultUserFee = 2
    Amounts = {}
    Attempts = 2
    MaxRow = 1
    MaxBalance = 0
    LookedUp = {1}
    Unset = Unset
    NoRow = NoRow
    InsertAccounts <- InsertOne
    UpdateAccounts <- UpdateNone
PROPERTIES UpdateStoresFees
