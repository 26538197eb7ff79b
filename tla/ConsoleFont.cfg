SPECIFICATION Spec
CONSTANTS
    LineMax = 2
    Reserved = 3
    Prealloc = 1
    Growth = 1
    Capacity = 3
    BacklogSize = 3
    MaxLines = 7
    Fonts = {"small", "large"}
    Widths = {2}
    ViewLines = {2}
    Columns <- MCColumns
    MaxWrite = 4
INVARIANT Layout
CHECK_DEADLOCK FALSE
