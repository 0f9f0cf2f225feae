SPECIFICATION Spec
CONSTANTS
    ctl = ctl  tgt = tgt  none = none  pda = pda  b1 = b1
    k1 = k1  k2 = k2  k3 = k3  j1 = j1  j2 = j2  j3 = j3
    s1 = s1  s2 = s2  s3 = s3
    Seats <- Seats3
    THRESHOLD = 2
    WEEK_SLOTS = 2
    MIN_DELAY_SLOTS = 1
    EXECUTION_MARGIN_SLOTS = 1
    DEFAULT_EXPIRY_SLOTS = 4
    U64_MAX = 7
    MAX_CHUNKS = 1
    Keys <- Keys3
    DefaultKey = none
    Spread = tgt
    Controller = ctl
    Targets <- OneTarget
    Buffers <- NoTargets
    Contents <- OldAndX
    Agendas <- PolicyAgendas
    Councils <- Councils3
    AuthorityKey = pda
    ReleaseOf <- Releases
    Recipe <- Recipes
    PreviousRecipe <- OlderRecipes
    InitialImage <- OldImage
    InitialCapacity = 1
    MAX_CAPACITY = 1
    MaxSlot = 3
    MaxProposals = 2
SYMMETRY Symmetry3
CHECK_DEADLOCK FALSE
INVARIANTS TypeOK PolicyInForce
PROPERTIES ExecutionHasQuorum ImplementsCouncilDecisions
