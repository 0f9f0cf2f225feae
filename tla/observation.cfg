SPECIFICATION FairSpec
CONSTANTS
    Cells = {Zero, Code, Other}
    Zero = Zero
    Code = Code
    Other = Other
    TreeDepth = 2
    MinRawLength = 1
    MaxRawLength = 6
    RawChunkSize = 2
    MetadataLength = 1
    ArtifactChunkSize = 1
    PolicyCapacity = 4
    Artifacts <- ThreeArtifacts
    Images <- LongImages
    Authorities = {"council", "none"}
    Purposes = {"PostUpgrade"}
    Gates <- UpgradeGates
    Minima = {3}
    MaxGeneration = 1
    MaxObservations = 1
    MaxCapacity = 4
    MaxSlot = 3
INVARIANT HeaderVouchesForPayload
PROPERTIES ObservationIsAtomic CorrectIsCertified
\* The bounds end the run.
CHECK_DEADLOCK FALSE
