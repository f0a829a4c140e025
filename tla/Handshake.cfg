SPECIFICATION FairSpec
CONSTANTS
    Peer = {a, b}
    MaxAge = 4
    MaxPayload = 2
    MaxWaiting = 2
    Sessions = 2
    Midway = FALSE
\* Peers with nothing more to send let the system stop.
CHECK_DEADLOCK FALSE
INVARIANTS TypeOK InStep KeysUnconfirmed QuietAgreed PayloadAuthentic PayloadEnciphered AuthProved WaitersAnswered
PROPERTIES PayloadArrives
