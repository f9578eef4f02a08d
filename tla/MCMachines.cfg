SPECIFICATION MachinesSpec
CONSTANTS
    MaxSids = 2
    Shown = {1}
    MaxEvents = 3
    MaxReloads = 1
    MaxEarly = 1
    MaxReplay = 2
    MaxHeld = 2
    MaxHeldSids = 1
    Places = {p}
    HomeMakes = {h1}
    DialogMakes = {d1}
    HomeRemoves = {}
    DialogRemoves = {x1}
    Panes = {w1}
    MaxRunningJobs = 1
    OneGlobally = TRUE
    Nowhere = Nowhere
    Runs = {u1, u2}
    Steps = 3
    MaxTurns = 1
    Tabs = {b1, b2, b3}
    FirstTabs = {b1}
    ToolCalls = {c1, c2}
    MaxTotal = 1
    MaxLoads = 1
    NoTab = NoTab
    NoCaller = NoCaller
INVARIANTS
    ReplayOK
    WorktreesTypeOK
    RecipesOK
    BrowserOK
PROPERTIES
    OnlyForceDiscards
    NoGhostBlocks
CHECK_DEADLOCK FALSE
