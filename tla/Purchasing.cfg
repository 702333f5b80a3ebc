SPECIFICATION Spec
CONSTANTS
    Vendors = {v1}
    Orders = {o1}
    Lines = {l1, l2, l3}
    Workers = {w1, w2}
    MaxOrder = 3
    Gone = Gone
    None = None
    v1 = v1
    v2 = v2
    o1 = o1
    o2 = o2
    l1 = l1
    l2 = l2
    l3 = l3
    w1 = w1
    w2 = w2
    w3 = w3
SYMMETRY Symmetry
INVARIANTS
    NoDangling
    LooksHold
    StagesInOrder
CHECK_DEADLOCK FALSE
