SPECIFICATION Spec
CONSTANTS
    Ids = {a1, a2, a3, a4}
    Names = {n1, n2}
    Files <- MCFiles
    importBatchSize = 2
    Workers = {w1, w2}
    MaxRequests = 2
    MaxFaults = 1
    Gone = Gone
    None = None
    a1 = a1
    a2 = a2
    a3 = a3
    a4 = a4
    n1 = n1
    n2 = n2
    w1 = w1
    w2 = w2
SYMMETRY Symmetry
INVARIANTS
    ParentsAreShipTo
    LinksAreKept
    RequiredAtEntry
    RulesAgree
    ImportIsExact
CHECK_DEADLOCK FALSE
