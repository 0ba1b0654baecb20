SPECIFICATION Spec
CONSTANTS
    j1 = j1
    j2 = j2
    j3 = j3
    Jobs = {j1, j2}
    NoJob = NoJob
    Sessions = {s1}
    NoSession = NoSession
    Replayable <- FirstIsReplayable
    Fetchers <- OthersFetch
    MaxRetries = 2
    Runners = {r1, r2}
    Slots = {p1, p2}
    MaxStops = 1
    MaxReplays = 1
    MaxDbErrors = 0
SYMMETRY Interchangeable
CHECK_DEADLOCK FALSE
INVARIANTS
    TypeOK
    CancelledSessionsStayQuiet
    EndedSessionsAreIdle
    OneWorkerPerJob
    RunningIsAttended
PROPERTIES
    LedgerKept
