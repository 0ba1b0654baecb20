SPECIFICATION FairSpec
CONSTANTS
    Addrs = {a, h}
    Http = {h}
    NoAddr = none
    Charnel = TRUE
    Chains = {c1, c2}
    NoChain = nochain
    MaxRecords = 5
    MaxEvents = 2
    MaxFaults = 1
INVARIANTS
    TypeOK
    ProbedAfterRecorded
    CompleteIsSaved
PROPERTIES
    TestingEnds
    CompleteIsDismissed
CHECK_DEADLOCK FALSE
