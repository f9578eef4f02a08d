SPECIFICATION Spec
CONSTANTS
    Callers = {c1, c2}
    Sessions = {s1}
    MaxWatches = 2
    MaxExchanges = 2
    User = User
    None = None
INVARIANTS
    OwnEnding
CHECK_DEADLOCK FALSE
