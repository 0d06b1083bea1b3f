\* Two licenses, jobs, plans, renewals and catalogs; two or three requests.
SPECIFICATION AdministrationSpec
CONSTANTS
    Movables = {l1, l2}
    Admins = {a1}
    MaxEdits = 3
    MaxCrashes = 1
    ScaledPlans = {1, 2}
    Threshold = 60
    Increment = 50
    MaxScaled = 5
    MaxPlanSize = 6
    MaxMoves = 4
    RPlans = {1, 2, 3, 4}
    NoPlan = NoPlan
    RIds = {1, 2}
    Workers = {w1, w2}
    Customer <- MCCustomer
    MaxDate = 2
    MaxROps = 3
    PPlans = {1, 2}
    OwnCatalogs = {k1, k2}
    OtherCatalogs = {x1}
    NoCatalog = NoCatalog
    Editors = {w1, w2}
    MaxPOps = 2
    Askers = {s1, s2}
    CacheTimeout = 2
    MaxClock = 2
    Listed = {l1, l2, l3}
    Initially = 2
    Addresses = {1, 2, 3}
    Owners = {o1, o2}
    NoOwner = NoOwner
    LargePlan = 1
    MaxListOps = 4
INVARIANTS MovesReported RenewalsSound CatalogOfCustomer SubsidySound WalkComplete AddressOfOwner
PROPERTIES TransfersFinal ScalingSound
CHECK_DEADLOCK FALSE
