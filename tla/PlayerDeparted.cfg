SPECIFICATION Spec
CONSTANTS
    a = a
    b = b
    c = c
    Songs = {a, b}
    None = none
    Slots = {n1}
    StartQueue <- TwoSongs
    Albums <- OneAlbum
    ActivePlayer = FALSE
    MaxAttempts = 2
    MaxEvents = 2
PROPERTY DepartedNeverStarts
CHECK_DEADLOCK FALSE
