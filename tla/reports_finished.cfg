SPECIFICATION Spec
CONSTANTS
    Null = Null
    Days <- TwoDays
    RateDays <- NightBefore
    Rated <- EarlierDays
    Trxs = {t1, t2}
    Users = {u1}
    AffiliateIds = {1, 2}
    TradedIds = {1, 2}
    Accounts <- SharedId
    Filters <- WholeChart
    Garbage = {0, 9}
SYMMETRY Symmetric
CHECK_DEADLOCK FALSE
INVARIANTS FinishedCoversRange
