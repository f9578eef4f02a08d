SPECIFICATION FairSpec
CONSTANTS
    Callers = {c1, c2}
    Sessions = {s1}
    MaxWatches = 2
    MaxExchanges = 1
    User = User
    None = None
INVARIANTS
    IInv
    ToldAsLogged
PROPERTIES
    SettledOnce
    KeepsPromise
    InFlightSettles
    WaiterIsWoken
CHECK_DEADLOCK FALSE
