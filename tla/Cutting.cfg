SPECIFICATION FairSpec
CONSTANTS
    Size = {1, 2, 3, 4}
    MaxChunkBody = 2
    ChecksumSize = 8
    WrongSize = {0, 1, 2, 5}
    MaxSent = 2
    MaxSpoiled = 1
    MayRestart = TRUE
\* The stream ends with the last message, or the user leaves the failure alone.
CHECK_DEADLOCK FALSE
INVARIANTS TypeOK WholeMessages
PROPERTIES SpoilReported Delivers AllArrives
