SPECIFICATION Spec
CONSTANTS
    Files = {a, b}
    Texts = {"", "t", "t-crlf"}
    Normal <- MCNormal
    Empty = ""
    MaxSuffix = 1
SYMMETRY MCSymmetry
INVARIANTS
    TypeOK
    TextKept
    NeverTruncated
    CleanIsStored
PROPERTY NoOverwrite
