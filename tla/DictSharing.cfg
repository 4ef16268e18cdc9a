SPECIFICATION MCSpec
CONSTANTS
    Dicts = {d1, d2}
    Ctxs = {ctx}
    InStreams = {in, multi}
    OutStreams = {out}
    BufStreams = {buf}
    DirectStreams = {direct}
    MultiStreams = {multi}
    MTConsumers = {ctx, out}
    NoDict = NoDict
    MaxLock = 2
    AllocMayFail = TRUE
    Live = {{ctx, in}, {ctx, direct}, {in, direct}, {multi, buf}, {out, buf}, {ctx, out}}
SYMMETRY DictSymmetry
INVARIANTS
    NativeDictsAlive
PROPERTIES
    StreamsPairLocks
CHECK_DEADLOCK FALSE
