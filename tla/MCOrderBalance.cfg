\* The same requests, against the balance check of the migration guide.
SPECIFICATION Spec
CONSTANTS
    Orders = {o1}
    Requests = {r1, r2, r3, r4}
    CreateDtos <- MCCreateDtos
    UpdateDtos <- MCUpdateDtos
SYMMETRY RequestSymmetry
INVARIANT
    BalanceIsTotalLessDeposit
CHECK_DEADLOCK FALSE
