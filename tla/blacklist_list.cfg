SPECIFICATION Spec
CONSTANTS
    Null = Null
    Ips = {"a", "ab"}
    Extends <- PrefixPairs
    Users = {1}
    Lists = {"l1", "l2"}
    Admins = {7, 8}
    Infos <- Entries
    Changes <- Toggles
    Filters <- ChangeFilters
    Browsed <- ListFilters
    KeyOfUser = TRUE
    MaxId = 3
    PageSize = 1
INVARIANTS TypeOK FreedByIp PagesMissNothing
