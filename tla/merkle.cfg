SPECIFICATION Spec
CONSTANTS
    TreeDepth = 2
    CHUNK = 2
    Bytes = {0, 1}
    Artifacts <- ByteStrings
    Trees <- AllTrees
    Siblings <- Hashes
INVARIANTS CompleteIsCanonical HonestProofAccepted
CHECK_DEADLOCK FALSE
