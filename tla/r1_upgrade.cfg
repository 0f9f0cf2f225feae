SPECIFICATION Spec
CONSTANTS
    Councils <- Replaced
    Threshold = 1
    Timing <- TightDelays
    Artifacts <- OldNewOther
    Buffers = {11, 12}
    Plans <- Nothing
    Damage <- BadOnly
    Views = {"root"}
    MaxPayload = 2
    MaxSlot = 8
    MaxEpoch = 4
    MaxProposals = 2
    MaxObservations <- Sparse
    MaxCandidates = 2
    MaxGeneration = 3
    Genesis <- Old
    Starts <- PreparedPairs
    Reasons = {"withdrawn"}
    FreezeSlots = {}
    CancelSlots = {5}
INVARIANTS TypeOK OneFlight EvidenceStaysAcceptable RollbackRestores SlotNamesProgram
PROPERTIES ReopenedByCouncil PayloadChangesDecided GatedSpec
CHECK_DEADLOCK FALSE
