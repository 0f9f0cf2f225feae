SPECIFICATION GovFairSpec
CONSTANTS
    Threshold = 2
    MinimumReview = 1
    MinimumDelay = 1
    MinimumMargin = 1
    Authorities = {"a", "b", "d"}
    Guardian = "g"
    Versions = {1, 2, 3}
    FirstTerms <- MCFirstTerms
    CandidateTerms <- MCCandidateTerms
    NominalTiming <- MCNominal
    ProfileTimings <- MCTimings
    MajorDelay = 1
    MaxSlot = 5
    LastActivation = 2
    LastCreation = 2
    MaxProfiles = 3
    Quotas <- MCQuotas
    MaxProposals = 2
INVARIANTS RecordsValid ProfileChain CouncilSuccession QueuedRotationRuns
PROPERTIES OldCouncilPowerless EveryProposalEnds
\* Nothing happens after the last slot.
CHECK_DEADLOCK FALSE
