SPECIFICATION HomeSpec
CONSTANTS
    Calls = {x1, x2}
    Sessions = {s1}
    None = None
    Conversations = {a, b}
    MaxOpens = 2
    MaxKept = 1
    MaxHomes = 1
    NoHandles = NoHandles
SYMMETRY CallSymmetry
INVARIANTS
    IInv
    NewsIsCarried
    HeardOnce
    TakenIsNoNews
    StoppedIsSilent
    HandlesOK
CHECK_DEADLOCK FALSE
