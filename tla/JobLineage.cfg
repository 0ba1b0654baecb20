SPECIFICATION Spec
CONSTANTS
    j1 = j1
    j2 = j2
    j3 = j3
    Jobs = {j1, j2, j3}
    NoJob = NoJob
    Sessions = {s1}
    NoSession = NoSession
    Replayable = {}
    Fetchers = {}
    MaxRetries = 2
    Runners = {r1}
    Slots = {p1, p2}
    MaxStops = 0
    MaxReplays = 0
    MaxDbErrors = 0
CHECK_DEADLOCK FALSE
PROPERTIES
    DescendantsAreRejected
