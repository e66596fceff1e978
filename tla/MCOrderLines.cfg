\* Three requests on the lines of two orders, in every interleaving.
SPECIFICATION Spec
CONSTANTS
    o1 = o1  o2 = o2
    l1 = l1  l2 = l2  l3 = l3
    Orders = {o1, o2}
    Lines = {l1, l2, l3}
    Requests = {r1, r2, r3}
    Lists <- MCLists
    CreateDtos <- MCCreateDtos
    UpdateDtos <- MCUpdateDtos
SYMMETRY RequestSymmetry
INVARIANTS
    TypeOK
    LoneRequestsKeepTheTotal
    LoneResequencePlaces
PROPERTIES
    OtherOrdersUntouched
    DeletedIsGone
    LoneChangesAreAtomic
\* Every request is served once: the system stops when all are.
CHECK_DEADLOCK FALSE
