SPECIFICATION FairSpec
CONSTANTS
    MaxBytes = 3
    MaxFrames = 2
    BlockSize = 2
    DstSize = 2
    MaxFailures = 2
INVARIANTS
    NoByteTwice
    FlushDelivers
    CloseCompletes
PROPERTIES
    CallReturns
CHECK_DEADLOCK FALSE
