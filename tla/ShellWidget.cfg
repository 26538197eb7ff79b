SPECIFICATION Spec
CONSTANTS
    Mods = {"SHIFT", "ALPHA"}
    MaxQueue = 1
INVARIANTS
    TypeOK
    ModSynchronised
    GraphicsKept
    OutputFlagged
PROPERTY
    OutputShown
