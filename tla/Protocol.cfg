\* Requirements with and without ciphering; the peer's announcement adds a stage.
SPECIFICATION Spec
CONSTANTS
    Iface = {a, b}
    NoIface = NoIface
    Setups <- MixedSetups
    RemoteOuts <- MixedOuts
    RemoteIns <- MixedIns
    AutoModes = {"instantly", "delayed"}
    DropInStart = FALSE
SYMMETRY IfaceSymmetry
INVARIANTS TypeOK RingSound FlagsExact NothingStranded EdgeFollows
PROPERTIES SessionKept
