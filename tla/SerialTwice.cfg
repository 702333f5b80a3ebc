SPECIFICATION SerialSpec
CONSTANTS
    DCs = {d1, d2}
    Templates = {t1}
    Items = {i1}
    Serials = {x, y}
    Qtys <- MCQtys
    MaxSerials = 2
    NoDC = NoDC
    NoTemplate = NoTemplate
CHECK_DEADLOCK FALSE
INVARIANTS
    SerialsUsedOnce
