SPECIFICATION Spec
CONSTANTS
    a1 = a1  a2 = a2  p1 = p1  p2 = p2
    x = x  y = y
    None = None
    Runs = {1, 2, 3}
    Names = {1, 2}
    DisplayNames = {x}
    Advertisers = {a1, a2}
    Authorized = {}
    Products = {p1, p2}
    SourceTypes = {"CREATOR_AUTHORIZED"}
    Commands <- CommandsOfRuns
    Given <- AllOrNothing
    PageLimit = 1
SYMMETRY Interchangeable
INVARIANTS StoredIsUsable OwnAssetsOnly ListingIsOneVersion
PROPERTY NoLostUpdate
CHECK_DEADLOCK FALSE
