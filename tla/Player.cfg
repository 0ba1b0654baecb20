SPECIFICATION FairSpec
CONSTANTS
    a = a
    b = b
    c = c
    Songs = {a, b}
    None = none
    Slots = {n1}
    StartQueue <- TwoSongs
    Albums <- OneAlbum
    ActivePlayer = TRUE
    MaxAttempts = 2
    MaxEvents = 2
INVARIANTS
    TypeOK
    ShownIsPlayed
    NeverGoesBack
PROPERTIES
    LoadsClearTheMark
    TraversalEnds
CHECK_DEADLOCK FALSE
