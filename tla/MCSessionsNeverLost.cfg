SPECIFICATION CodexSpec
CONSTANTS
    Msgs = {m1, m2, m3}
    Asks = {}
    Clicks = {}
    Compacts = {}
    Refusals = {"turn/start"}
    None = None
INVARIANTS
    NeverLost
CHECK_DEADLOCK FALSE
