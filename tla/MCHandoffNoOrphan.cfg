SPECIFICATION Spec
CONSTANTS
    MaxPanes = 2
    Closers = {k1}
INVARIANTS
    NoOrphan
CHECK_DEADLOCK FALSE
