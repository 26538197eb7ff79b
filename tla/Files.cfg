SPECIFICATION Spec
CONSTANTS
    Paths <- MCPaths
    Texts = {""}
    Empty = ""
    Modes <- MCModes
    Stems <- MCStems
    MaxMarked = 1
    MaxEntries = 1
    MaxItems = 3
    MaxFaults = 1
INVARIANTS
    TypeOK
    ModeFollows
    
PROPERTY
    ProtectedKept
