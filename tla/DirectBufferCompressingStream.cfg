SPECIFICATION FairSpec
CONSTANTS
    MaxBytes = 5
    BlockSize = 2
    DstSize = 2
    MaxFailures = 3
INVARIANTS
    BytesConserved
    CloseCompletes
CHECK_DEADLOCK FALSE
