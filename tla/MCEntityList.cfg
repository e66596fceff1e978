\* Two handlers, and a change of the filter or one by another user.
SPECIFICATION FairSpec
CONSTANTS
    Ids = {1, 2}
    Cities = {"Bonn", "Lund"}
    FirstTables <- MCFirstTables
    Handlers = {h1, h2}
    MaxMoves = 1
INVARIANTS
    TypeOK
    LoadingMeansFetching
    QuietListIsRight
PROPERTIES
    TrafficEnds
    TrafficRunsOut
\* The user's actions are bounded: the system stops after the last.
CHECK_DEADLOCK FALSE
