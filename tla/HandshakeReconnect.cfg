SPECIFICATION Spec
CONSTANTS
    Peer = {a, b}
    MaxAge = 4
    MaxPayload = 2
    MaxWaiting = 1
    Sessions = 2
    Midway = TRUE
CHECK_DEADLOCK FALSE
INVARIANT PayloadEnciphered
