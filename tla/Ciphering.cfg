SPECIFICATION FairSpec
CONSTANTS
    Size = {1, 3}
    MaxBody = 2
    KeySize = 1
    MacSize = 1
    WrongSize = {0, 9}
    MaxGiven = 2
    MaxUrgent = 1
    MaxSpoiled = 1
\* Users who have no more to send let the system stop.
CHECK_DEADLOCK FALSE
INVARIANTS TypeOK Ordered NoFalseAlarm
PROPERTIES Delivers AllArrives
