SPECIFICATION Spec
CONSTANTS
    NULL = NULL
    i1 = i1
    h1 = h1
    controller = controller
    upgrader = upgrader
    Seats = {1, 2}
    THRESHOLD = 1
    Delays <- UnevenDelays
    FirstCouncil <- OriginalCouncil
    Candidates <- ShortCouncils
    Images = {i1}
    Authorities = {controller, upgrader}
    Controller = controller
    HardStates = {h1}
    FreezeReasons = {"F"}
    CancelReasons = {"R"}
    Observations <- Sights
    Requests <- ExtendedPair
    U64_MAX = 60
    MaxSlot = 10
    MaxProposals = 2
    MaxEpoch = 5
    Mixes <- SixMixes
INVARIANT RollbackWindowOpen
PROPERTY UpgradeWasDecided
CHECK_DEADLOCK FALSE
