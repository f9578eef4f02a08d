SPECIFICATION RaceSpec
CONSTANTS
    Calls = {x1}
    Sessions = {s1}
    None = None
    Conversations = {a, b, c}
    MaxOpens = 4
    MaxKept = 3
    MaxHomes = 1
    NoHandles = NoHandles
SYMMETRY CallSymmetry
INVARIANTS
    NeverTwice
CHECK_DEADLOCK FALSE
