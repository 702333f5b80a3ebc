SPECIFICATION SerialSpec
CONSTANTS
    DCs = {d1, d2}
    Templates = {t1, t2}
    Items = {i1}
    Serials = {x, y}
    Qtys <- MCQtys
    MaxSerials = 3
    NoDC = NoDC
    NoTemplate = NoTemplate
SYMMETRY Symmetry
CHECK_DEADLOCK FALSE
INVARIANTS
    IssuedLinesDistinct
PROPERTIES
    RequiredIsCounted
