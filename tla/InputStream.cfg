SPECIFICATION FairSpec
CONSTANTS
    Inputs <- FullCutOrBad
    MaxChunk = 5
    MaxLen = 4
    NO_FORWARD_PROGRESS_MAX = 3
INVARIANTS
    NothingLost
    NoSpuriousError
    EndMeansComplete
PROPERTIES
    ReadTerminates
CHECK_DEADLOCK FALSE
