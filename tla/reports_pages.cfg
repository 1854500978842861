SPECIFICATION Spec
CONSTANTS
    Null = Null
    Days <- TwoDays
    RateDays <- NightBefore
    Rated <- EarlierDays
    Trxs = {t1, t2}
    Users = {u1}
    AffiliateIds = {1, 2, 3}
    TradedIds = {1, 2}
    Accounts <- SharedId
    Filters <- Requests
    Garbage = {0}
SYMMETRY Symmetric
CHECK_DEADLOCK FALSE
INVARIANTS TypeOK AmountsOnTheirDay NothingMissed PendingCoversRange CountedPerAccount TotalCoversGrid
