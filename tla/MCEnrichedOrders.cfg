\* Two requests at a time on two pages of a filter, one change of the table, a sweep;
\* the key prefix is the one that the code cuts off.
SPECIFICATION FairSpec
CONSTANTS
    Ids <- MCIds
    OrderTime <- MCOrderTime
    Contents = {"new", "cancelled"}
    FirstTables <- MCFirstTables
    Filters = {"new"}
    Selects <- MCSelects
    Queries <- MCQueries
    MaxLimit = 2
    Requests = {r1, r2}
    Sweeps = {s1}
    Patterns = {"pages"}
    Finds <- MCFinds
    KeyPrefix = "oms_cache:"
    MaxWrites = 1
INVARIANTS
    TypeOK
    EntriesWereTrue
    NextPageIsThere
    PagesFit
    SweptEntriesAreGone
PROPERTY
    StalePagesGo
