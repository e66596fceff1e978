\* Three requests of every kind, in every interleaving, with failures.
SPECIFICATION Spec
CONSTANTS
    Ids = {o1, o2, o3}
    Orders = {o1, o2}
    Deleted = {o2}
    Requests = {r1, r2, r3}
    Texts <- MCTexts
    Names <- MCNames
    StatusId <- MCStatusId
    Faulty = TRUE
SYMMETRY RequestSymmetry
INVARIANTS
    TypeOK
    LoneRequestsLeaveATrail
    StatusIsAccountedFor
    LoneContextIsWhatWasReplaced
\* Every request is served once: the system stops when all are.
CHECK_DEADLOCK FALSE
