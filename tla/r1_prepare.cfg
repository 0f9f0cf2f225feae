SPECIFICATION Spec
CONSTANTS
    Councils <- Reelected
    Threshold = 2
    Timing <- TightDelays
    Artifacts <- AnyTwo
    Buffers = {11, 12}
    Plans <- Pair
    Damage <- Nothing
    Views = {"root"}
    MaxPayload = 2
    MaxSlot = 8
    MaxEpoch = 4
    MaxProposals = 2
    MaxObservations <- Sparse
    MaxCandidates = 1
    MaxGeneration = 2
    Genesis <- Old
    Starts <- EmptyOrQuiet
    Reasons = {"withdrawn"}
    FreezeSlots = {1}
    CancelSlots = {5, 6, 7, 8}
INVARIANTS SealedBufferIntact
PROPERTIES EmergencyKeepsProgram
CHECK_DEADLOCK FALSE
