SPECIFICATION Spec
CONSTANTS
    Word = 3
    HASH_READ_SIZE = 4
    HashSize = 5
    StepIncr = 2
    FastMls = 3
    Tags = 2
    DMls = 3
    DTags = 2
    LMls = 3
    ChainSize = 4
    BucketSize = 2
    Rows = 2
    RowEntries = 4
    RowTags = 2
    Salt = 1
    CacheSize = 2
    SkipThreshold = 4
    SkipStart = 2
    SkipEnd = 1
    BtSize = 4
    SearchStrength = 2
    LazySkippingStep = 2
    MaxLit = 1
    ZSTD_OPT_NUM = 10
    LongMatch = 4
    LongMatchSkip = 2
    Hash3Dist = 6
    LdmMin = 4
    RateLog = 1
    GearBits = 4
    Gear <- GearTable
    LDM_BATCH_SIZE = 3
    LdmBuckets = 2
    EntsPerBucket = 2
    Checksums = 4
    MaxChunk = 12
    LdmCurrentMax = 28
    UpdateFar = 4
    UpdateNear = 2
    Blocks = {60, 292, 293, 585, 693, 909, 1001, 1170, 1365, 1755, 1820, 2184, 2340, 2925, 3003, 3276, 3510, 3641}
    Inputs = {37, 73, 100, 146, 219, 255, 273, 300, 365, 438, 455}
INVARIANTS
    SequencesRebuildBlock
    AssertionsHold
    StatsAddUp
    CallsReturn
