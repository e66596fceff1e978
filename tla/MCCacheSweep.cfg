\* The sweep, with the key prefix that is configured by default.
SPECIFICATION Spec
CONSTANTS
    Ids <- MCIds
    OrderTime <- MCOrderTime
    Contents = {"new", "cancelled"}
    FirstTables <- MCFirstTables
    Filters = {"new"}
    Selects <- MCSelects
    Queries <- MCQueries
    MaxLimit = 2
    Requests = {r1, r2}
    Sweeps = {s1}
    Patterns = {"pages"}
    Finds <- MCFinds
    KeyPrefix = "oms_cache"
    MaxWrites = 1
INVARIANT
    SweptEntriesAreGone
