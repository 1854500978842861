SPECIFICATION Spec
CONSTANTS
    e1 = e1
    e2 = e2
    Sessions = {s1, s2}
    NoSession = NoSession
    Emails = {e1, e2}
    AffiliateIds = {1, 2}
    Fees = {1}
    DefaultInviterFee = 1
    DefaultUserFee = 1
    Amounts = {}
    Attempts = 2
    MaxRow = 2
    MaxBalance = 1
    LookedUp = {1}
    Unset = Unset
    NoRow = NoRow
    InsertAccounts <- InsertTwo
    UpdateAccounts <- UpdateNone
INVARIANTS GetFindsOneRow
