SPECIFICATION PoolFairSpec
CONSTANTS
    Clients = {t1, t2}
    Streams = {s1, s2}
    Buffers = {b1, b2, b3, b4, small}
    Small = {small}
    None = None
    MaxSkips = 2
INVARIANTS
    OneOwner
CHECK_DEADLOCK FALSE
