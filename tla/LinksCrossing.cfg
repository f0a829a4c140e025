\* An interface and an awaited result, with pauses.
SPECIFICATION Spec
CONSTANTS
    Peer = {p1, p2}
    IfaceLink = {i1}
    ResultLink = {r1}
    Link = {i1, r1}
    NoLink = NoLink
    MaxInFlight = 2
    MayPause = TRUE
SYMMETRY PeerSymmetry
INVARIANTS
    TypeOK
    NoFail
    NoOrphan
    QuietMeansSettled
    TablesSound
    RightLink
    FreeMeansUnused
PROPERTIES
    LinkLives
