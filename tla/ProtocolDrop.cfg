SPECIFICATION Spec
CONSTANTS
    Iface = {a}
    NoIface = NoIface
    Setups <- PlainSetups
    RemoteOuts <- NoPeers
    RemoteIns <- NoPeers
    AutoModes = {"instantly"}
    DropInStart = TRUE
INVARIANTS RingOfLiving
