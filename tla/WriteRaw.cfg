SPECIFICATION Spec
CONSTANTS
    LineMax = 2
    Strings <- MCStrings
    MaxWrites = 3
INVARIANT TextWritten
CHECK_DEADLOCK FALSE
