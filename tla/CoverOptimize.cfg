CONSTANTS
    MaxThreads = 3
    MaxJobs = 4
    MaxQueue = 2
    MaxResizes = 1
    MaxAdds = 3
    Ds = 2
    Ks = 2
SPECIFICATION Spec
INVARIANTS
    ContextOutlivesJobs
    BestIsBest
PROPERTIES
    ImplementsJobQueue
    CallsReturn
CHECK_DEADLOCK FALSE
