SPECIFICATION Spec
CONSTANTS
    Requests = {r1, r2}
    Projects = {p1}
    SeqTypes = {"po", "tdc", "stdc"}
    Dates <- MCDates
    Symbols <- MCSymbols
    Forms <- MCForms
    References <- MCReferences
SYMMETRY Symmetry
CHECK_DEADLOCK FALSE
INVARIANTS
    UniqueNumbers
    NoHoles
    UniqueTexts
PROPERTIES
    NeverRewinds
