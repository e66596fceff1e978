\* The same requests, against what the refusal of a list says of the others.
SPECIFICATION Spec
CONSTANTS
    o1 = o1  o2 = o2
    l1 = l1  l2 = l2  l3 = l3
    Orders = {o1, o2}
    Lines = {l1, l2, l3}
    Requests = {r1, r2, r3}
    Lists <- MCLists
    CreateDtos <- MCCreateDtos
    UpdateDtos <- MCUpdateDtos
SYMMETRY RequestSymmetry
INVARIANT
    AcceptedListsMatch
CHECK_DEADLOCK FALSE
