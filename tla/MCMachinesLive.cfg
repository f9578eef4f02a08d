SPECIFICATION LiveFairSpec
CONSTANTS
    Killers = {k}
    Takers = {t}
    MaxLines = 1
    RunIds = {r1}
    HomeRuns = {r1}
    NamedRuns = {}
    MaxPrompts = 2
    MaxMoves = 1
    NoRun = NoRun
    Places = {p}
    HomeMakes = {h1}
    DialogMakes = {}
    HomeRemoves = {x1}
    DialogRemoves = {}
    Panes = {}
    MaxRunningJobs = 1
    OneGlobally = TRUE
    Nowhere = Nowhere
    Runs = {u1}
    Steps = 2
    MaxTurns = 1
    MaxSessions = 4
    MaxPanes = 2
    Closers = {k1, k2}
    Calls = {a1}
    Sessions = {s1}
    NoSession = NoSession
INVARIANTS
    HostOK
    ParentageOK
PROPERTIES
    HostsSettle
    RunsSettle
    RowsSettle
    RunsEnd
    ChildSettles
    CloseEnds
    EndIsTold
CHECK_DEADLOCK FALSE
