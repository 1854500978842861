SPECIFICATION Spec
CONSTANTS
    u1 = u1
    Nobody = Null
    Null = Null
    Users = {u1}
    AffiliateIds = {1, 11}
    Currencies = {"EUR", "USD", "GBP"}
    Days = {1, 2}
    Fees = {1, 2}
    TrxIds = {1, 2, 3}
    NewTrxs <- TwoTrxs
    Ends = {"FINISHED"}
    AccountIds = {1, 2}
    NewAccounts <- Latecomers
    FirstAccounts <- OneAccount
    FirstRates <- SomeRates
    PageSize = 1
    PrefixOf <- Prefixes
    Queries <- SomeQueries
    SumCalls <- SomeSums
INVARIANTS TypeOK ListMissesNothing SharedByInvitation SumCountsKnown
