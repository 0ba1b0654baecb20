SPECIFICATION FairSpec
CONSTANTS
    j1 = j1
    j2 = j2
    j3 = j3
    Jobs = {j1, j2}
    NoJob = NoJob
    Sessions = {s1}
    NoSession = NoSession
    Replayable = {}
    Fetchers = {j1, j2}
    MaxRetries = 2
    Runners = {r1}
    Slots = {p1, p2}
    MaxStops = 0
    MaxReplays = 0
    MaxDbErrors = 1
CHECK_DEADLOCK FALSE
PROPERTY WorkEnds
