SPECIFICATION Spec
CONSTANTS
    HASH_READ_SIZE = 1
    NoInput = 1000
    ZSTD_CURRENT_MAX = 7
    Cycle = 2
    MaxDist = 2
    BlockMax = 2
    Margin = 1
    Input = {0, 1, 2, 3}
    Dict = 20
    DictSizes = {2, 5}
    ZSTD_CHUNKSIZE_MAX = 4
    MaxIndexed = 3
    Sizes = {1, 3}
    MaxBytes = 6
INVARIANTS
    WindowIsTheHistory
    TableEntriesAreRight
    SlotsKeepTheirCycle
    DecoderReaches
CHECK_DEADLOCK FALSE
