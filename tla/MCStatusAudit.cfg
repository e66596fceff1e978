\* One PATCH with a status, while nothing fails.
SPECIFICATION Spec
CONSTANTS
    Ids = {o1, o2, o3}
    Orders = {o1, o2}
    Deleted = {o2}
    Requests = {r1, r2, r3}
    Texts <- MCTexts
    Names <- MCNames
    StatusId <- MCStatusId
    Faulty = FALSE
SYMMETRY RequestSymmetry
INVARIANT
    StatusChangesAreAudited
CHECK_DEADLOCK FALSE
