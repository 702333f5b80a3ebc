SPECIFICATION BOQSpec
CONSTANTS
    Subs = {s1, s2}
    Leaves = {l1}
    Workers = {w1, w2}
    MaxValue = 2
    MaxRequests = 3
    MaxCrashes = 1
    Gone = Gone
    NoId = NoId
    s1 = s1
    s2 = s2
    l1 = l1
    l2 = l2
    w1 = w1
    w2 = w2
SYMMETRY Symmetry
INVARIANTS
    NoOrphanRows
    RolledUpUnlessCaused
CHECK_DEADLOCK FALSE
