SPECIFICATION Spec
CONSTANTS
    A = A
    B = B
    Projects = {A, B}
    Home = A
    AddressTypes = {"ship_from", "ship_to"}
    Nothing = Nothing
INVARIANTS
    NoDeadLinks
    LandsWhereItFits
PROPERTIES
    OffersAreTaken
    ShellFollowsBody
