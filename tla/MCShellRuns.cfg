SPECIFICATION CastSpec
CONSTANTS
    RunIds = {r1, r2}
    HomeRuns = {r1}
    NamedRuns = {}
    MaxPrompts = 2
    MaxMoves = 2
    NoRun = NoRun
INVARIANTS
    ShellOK
PROPERTIES
    GrantHolds
CHECK_DEADLOCK FALSE
