SPECIFICATION FairSpec
CONSTANTS
    N = 3
    Concurrency = 2
    MaxOps = 4
INVARIANT NoLostWakeup
PROPERTIES
    PromiseKept
    QueueEnds
CHECK_DEADLOCK FALSE
