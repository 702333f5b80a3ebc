SPECIFICATION Spec
CONSTANTS
    Groups = {g1, g2, g3}
    Transfers = {t1}
    Places = {a, b, c}
    Transit = Transit
    NoGroup = NoGroup
    NoTransfer = NoTransfer
SYMMETRY Symmetry
CHECK_DEADLOCK FALSE
INVARIANTS
    GroupIsUniform
    ShippedOnce
    StatusMatchesCounter
    RowsAgree
PROPERTIES
    IssuedIsFinal
    ImplementsContract
