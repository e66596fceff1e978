\* Two warmups, the cron and one warmup of a single key, with failures.
SPECIFICATION Spec
CONSTANTS
    brands = brands  statuses = statuses  fitters = fitters
    Jobs <- MCJobs
    Background <- MCBackground
    BatchSize = 2
    Warmers = {w1, w2}
    Refreshers = {f1}
    Specifics = {s1}
INVARIANTS
    TypeOK
    WarmingIsExclusive
    BatchesInPriorityOrder
PROPERTIES
    WarmingEnds
    RefreshKeepsWarm
    WarmupsAdvance
