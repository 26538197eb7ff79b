SPECIFICATION Spec
CONSTANTS
    Paths <- MCPaths
    Texts = {"x"}
    Source <- MCSource
    Destination <- MCDestination
    Archives <- MCArchives
INVARIANTS
    TypeOK
    ExistingKept
    RolledBack
    Extracted
    RoundTrip
