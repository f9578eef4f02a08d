SPECIFICATION Spec
CONSTANTS
    Calls = {x1}
    Sessions = {s1}
    None = None
INVARIANTS
    ToldIsHeard
CHECK_DEADLOCK FALSE
