SPECIFICATION ShellSpec
CONSTANTS
    RunIds = {r1, r2}
    HomeRuns = {r1}
    NamedRuns = {}
    MaxPrompts = 2
    MaxMoves = 1
    NoRun = NoRun
INVARIANTS
    NothingRanIsTrue
CHECK_DEADLOCK FALSE
