SPECIFICATION Spec
CONSTANTS
    Requests = {r1, r2, r3}
    Groups = {g1, g2}
    Places = {a, b}
    Transit = Transit
    T = T
    NoGroup = NoGroup
    NoTransfer = NoTransfer
    MaxActive = 2
    MaxCrashes = 1
    MaxErrors = 1
SYMMETRY Symmetry
CHECK_DEADLOCK FALSE
INVARIANTS
    NoOrphans
    MarkedAfterShipped
    IssuedIsWhole
    CountNeverInvents
    DriftIsBounded
PROPERTIES
    RunsAsLifecycle
    IssuedGroupStays
