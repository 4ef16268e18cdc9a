SPECIFICATION Spec
INVARIANTS
    WindowIntact
    EveryBlockAccepted
    WritesInBounds
    HistoriesAgree
CHECK_DEADLOCK FALSE
CONSTANTS
    HUF_DECODER_FAST_TABLELOG = 6
    HufLog = 12
    LowProbSeqs = 100
    MIN_SEQUENCES_BLOCK_SPLITTING = 8
    RLE_MAX_LENGTH = 25
    ZSTD_TARGETCBLOCKSIZE_MIN = 40
    BlockSizeMax = 1024
    ZSTD_LITBUFFEREXTRASIZE = 64
    WindowSize = 1024
    Settings <- MCSettings
    Parse <- MCParse
    LiteralAt <- MCLiteralAt
    DictContent <- MCDictContent
    Samples <- MCSamples
    ForeignTables <- MCForeignTables
