\* Four requests on one order, in every interleaving of their statements.
SPECIFICATION Spec
CONSTANTS
    Orders = {o1}
    Requests = {r1, r2, r3, r4}
    CreateDtos <- MCCreateDtos
    UpdateDtos <- MCUpdateDtos
SYMMETRY RequestSymmetry
INVARIANTS
    TypeOK
    BalanceTracksDeposit
    NoPaymentCountedTwice
    LoneRequestsLoseNothing
PROPERTIES
    DeletedIsGone
    LoneRequestsAreAtomic
\* Every request is served once: the system stops when all are.
CHECK_DEADLOCK FALSE
