SPECIFICATION BufferFairSpec
CONSTANTS
    Inputs <- FullOrCutInBlock
    MaxChunk = 5
    MaxLen = 4
    NO_FORWARD_PROGRESS_MAX = 3
INVARIANTS
    DoneMeansComplete
PROPERTIES
    ReadLoopEnds
CHECK_DEADLOCK FALSE
