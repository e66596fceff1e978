\* The same calls, against the comment on what the background refresh checks.
SPECIFICATION Spec
CONSTANTS
    brands = brands  statuses = statuses  fitters = fitters
    Jobs <- MCJobs
    Background <- MCBackground
    BatchSize = 2
    Warmers = {w1, w2}
    Refreshers = {f1}
    Specifics = {s1}
PROPERTY
    RefreshRenewsClosing
