SPECIFICATION Spec
CONSTANTS
    Lines = {"", "exit", "clear"}
    HistorySize = 2
    MaxQueue = 1
INVARIANT
    HookAlways
