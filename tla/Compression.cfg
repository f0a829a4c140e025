SPECIFICATION FairSpec
CONSTANTS
    Size = {1, 3}
    CodedRoom = 1
    PlainRoom = 2
    MaxGiven = 2
    MaxSpoiled = 1
    MaxErrors = 1
\* Users who have no more to send let the system stop.
CHECK_DEADLOCK FALSE
INVARIANTS TypeOK NothingHeldBack NothingLeftInside Faithful
PROPERTIES AllArrives
