SPECIFICATION Spec
CONSTANTS
    Lines = {"", "exit", "clear"}
    HistorySize = 2
    MaxQueue = 1
INVARIANTS
    TypeOK
    InterruptScope
    HookEffect
    PromptShown
    HistorySound
PROPERTY
    InterruptDelivered
