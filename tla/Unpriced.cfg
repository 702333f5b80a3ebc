SPECIFICATION Spec
CONSTANTS
    Items = {i1, i2}
    Required = {i1}
    BoqRow <- MCBoqRow
    BillFroms = {home}
    ShipTos = {near, far}
    State <- MCState
    Serials = {x, y}
    Forms <- MCForms
    Typings <- MCTypings
    None = None
    i1 = i1
    i2 = i2
    home = home
    near = near
    far = far
    x = x
    y = y
INVARIANTS
    ShipmentsArePriced
CHECK_DEADLOCK FALSE
