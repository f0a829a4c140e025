\* An interface and an awaited result; the edges stay started.
SPECIFICATION FairSpec
\* Users who want nothing more let the system stop.
CHECK_DEADLOCK FALSE
CONSTANTS
    Peer = {p1, p2}
    IfaceLink = {i1}
    ResultLink = {r1}
    Link = {i1, r1}
    NoLink = NoLink
    MaxInFlight = 1
    MayPause = FALSE
PROPERTIES
    Reclaimed
