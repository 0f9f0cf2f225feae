SPECIFICATION CeremonySpec
CONSTANTS
    seatA = seatA
    seatB = seatB
    ctlOne = ctlOne
    ctlTwo = ctlTwo
    tgtOne = tgtOne
    tgtTwo = tgtTwo
    Threshold = 2
    MinimumReview = 1
    MinimumDelay = 1
    MinimumMargin = 1
    Authorities = {seatA, seatB}
    Guardian = "g"
    Versions = {1}
    FirstTerms <- MCFirstTerms
    CandidateTerms <- MCCandidateTerms
    NominalTiming <- MCNominal
    ProfileTimings <- NoTimings
    MajorDelay = 1
    MaxSlot = 5
    LastActivation = 0
    LastCreation = 3
    MaxProfiles = 1
    Quotas <- OneQuota
    MaxProposals = 2
    ControllerArtifacts = {ctlOne, ctlTwo}
    TargetArtifacts = {tgtOne, tgtTwo}
    Holders = {}
    Pda = "controller"
    NoKey = "none"
    MaxCapacity = 2
    MaxGeneration = 2
    MaxObservations <- Observing
    LastLoaderSlot = 3
SYMMETRY Alike
INVARIANTS ControllerFrozenFirst CustodyKnowsProgram ActivationOpensTrusted
\* The bounds end the run.
CHECK_DEADLOCK FALSE
