SPECIFICATION FairSpec
CONSTANTS
    Peers = {p1}
    Streams = {s1, s2}
    NoStream = none
    Calls = {c1, c2}
    MaxAttempts = 2
    MaxNodes = 1
    MaxOps = 3
    PeerOf <- OnePeer
INVARIANTS
    TypeOK
    RepoTracksActive
    OpenStreamsAreRead
    BackoffStateAgrees
    StrandedOnlyByRejection
PROPERTIES
    HealthyStreamIsKept
    LinkKept
    DeadStreamsReaped
    BackoffSettles
CHECK_DEADLOCK FALSE
