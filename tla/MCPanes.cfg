SPECIFICATION PanesSpec
CONSTANTS
    Words = {a, b}
    MaxComing = 2
    MaxClicks = 2
    MaxPops = 2
    NoState = NoState
    MaxSids = 3
    MaxIds = 3
    MaxFills = 2
    MaxLooks = 2
    MaxWindows = 2
SYMMETRY WordSymmetry
INVARIANTS
    PopOutOK
    SurfaceOK
CHECK_DEADLOCK FALSE
