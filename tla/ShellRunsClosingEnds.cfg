SPECIFICATION ShellSpec
CONSTANTS
    RunIds = {r1}
    HomeRuns = {r1}
    NamedRuns = {}
    MaxPrompts = 2
    MaxMoves = 1
    NoRun = NoRun
INVARIANTS
    ClosingEndsAll
CHECK_DEADLOCK FALSE
