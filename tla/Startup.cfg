SPECIFICATION FairSpec
CONSTANTS
    Projects = {p1, p2, p3, p4}
    BOQs = {b1}
    Addresses = {a1}
    AddressTypes = {"ship_to"}
    SettingTypes = {"ship_to"}
    ConfigTypes = {"ship_to"}
    Requests = {r1, r2}
    Main = main
    MaxLive = 1
    MaxFaults = 1
    NoProject = NoProject
    Gone = Gone
    None = None
    p1 = p1
    p2 = p2
    p3 = p3
    p4 = p4
    p5 = p5
    b1 = b1
    a1 = a1
    r1 = r1
    r2 = r2
    main = main
INVARIANTS
    OwnersLive
    DuplicatesNeedFaults
PROPERTIES
    ServingIsMigrated
    EventuallyAdopted
CHECK_DEADLOCK FALSE
