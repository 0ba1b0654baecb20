SPECIFICATION FairSpec
CONSTANTS
    Jobs <- MixedJobs
    ClassOf <- MixedClass
    KeyOf <- MixedKey
    NoKey = "none"
    Fetchers <- MixedFetchers
    SessionOf <- MixedSession
    NoSession = "none"
    PoolSize = 3
    Left = {1, 2}
    MaxRetries = 1
    MaxErrors = 1
INVARIANTS
    TypeOK
    ReservationsAreHeld
PROPERTIES
    SlotsKept
    PendingJobsRun
CHECK_DEADLOCK FALSE
