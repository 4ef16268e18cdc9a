SPECIFICATION FairSpec
CONSTANTS
    Threads = {t1, t2, t3}
    MaxLock = 2
    NoThread = NoThread
INVARIANTS
    LifetimeInv
    NoUseAfterFree
    CloseReturnedMeansFreed
PROPERTIES
    CloseRefusedOnlyInUse
    RefinesSharedUse
    ClosedLeadsToFreed
