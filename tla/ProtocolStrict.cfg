SPECIFICATION Spec
CONSTANTS
    Iface = {a}
    NoIface = NoIface
    Setups <- StrictSetups
    RemoteOuts <- StrictPeers
    RemoteIns <- StrictPeers
    AutoModes = {"instantly"}
    DropInStart = FALSE
PROPERTIES MarkerMatches
