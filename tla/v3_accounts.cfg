SPECIFICATION Spec
CONSTANTS
    ctl = ctl  tgt = tgt  none = none  pda = pda  b1 = b1
    k1 = k1  k2 = k2  k3 = k3  j1 = j1  j2 = j2  j3 = j3
    s1 = s1  s2 = s2  s3 = s3
    Seats <- Seats1
    THRESHOLD = 1
    WEEK_SLOTS = 2
    MIN_DELAY_SLOTS = 1
    EXECUTION_MARGIN_SLOTS = 1
    DEFAULT_EXPIRY_SLOTS = 4
    U64_MAX = 8
    MAX_CHUNKS = 2
    Keys <- Keys1
    DefaultKey = none
    Spread = tgt
    Controller = ctl
    Targets <- OneTarget
    Buffers <- OneBuffer
    Contents <- OldXYXZ
    Agendas <- AccountAgendas
    Councils <- Councils1
    AuthorityKey = pda
    ReleaseOf <- Releases
    Recipe <- Recipes
    PreviousRecipe <- OlderRecipes
    InitialImage <- OldImage
    InitialCapacity = 2
    MAX_CAPACITY = 1
    MaxSlot = 3
    MaxProposals = 2
CHECK_DEADLOCK FALSE
INVARIANTS VerifiedMatchesBuffer ConsumedEpochIsPast RecordsStayWritable
PROPERTIES InstallsApprovedArtifact EpochPinsCode IdsNeverReused NoInterveningSelfUpgrade
