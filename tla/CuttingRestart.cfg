SPECIFICATION Spec
CONSTANTS
    Size = {1, 2, 3}
    MaxChunkBody = 2
    ChecksumSize = 8
    WrongSize = {0, 1, 2, 5}
    MaxSent = 2
    MaxSpoiled = 1
    MayRestart = TRUE
CHECK_DEADLOCK FALSE
INVARIANTS NothingSpoiled
