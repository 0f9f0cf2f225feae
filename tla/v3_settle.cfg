SPECIFICATION FairSpec
CONSTANTS
    ctl = ctl  tgt = tgt  none = none  pda = pda  b1 = b1
    k1 = k1  k2 = k2  k3 = k3  j1 = j1  j2 = j2  j3 = j3
    s1 = s1  s2 = s2  s3 = s3
    Seats <- Seats1
    THRESHOLD = 1
    WEEK_SLOTS = 2
    MIN_DELAY_SLOTS = 1
    EXECUTION_MARGIN_SLOTS = 1
    DEFAULT_EXPIRY_SLOTS = 4
    U64_MAX = 6
    MAX_CHUNKS = 1
    Keys <- TwoKeys
    DefaultKey = none
    Spread = tgt
    Controller = ctl
    Targets <- NoTargets
    Buffers <- OneBuffer
    Contents <- OldAndX
    Agendas <- StrandingAgendas
    Councils <- Councils1
    AuthorityKey = pda
    ReleaseOf <- Releases
    Recipe <- Recipes
    PreviousRecipe <- OlderRecipes
    InitialImage <- OldImage
    InitialCapacity = 1
    MAX_CAPACITY = 2
    MaxSlot = 6
    MaxProposals = 2
PROPERTIES PendingSettles DeadBuffersReturn GrowthKeepsUpgrades
CHECK_DEADLOCK FALSE
