SPECIFICATION CastSpec
CONSTANTS
    Msgs = {m1, m2}
    Asks = {a1}
    Clicks = {k1, k2}
    Compacts = {m2}
    Refusals = {"open", "turn", "turn/start", "prompt"}
    None = None
SYMMETRY ClickSymmetry
INVARIANTS
    SessionsOK
    SteerKept
    RestIsShown
PROPERTIES
    FinishHoldsElsewhere
CHECK_DEADLOCK FALSE
