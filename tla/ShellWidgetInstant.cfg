SPECIFICATION Spec
CONSTANTS
    Mods = {"SHIFT"}
    MaxQueue = 1
INVARIANT
    InstantIsPressed
