SPECIFICATION Spec
CONSTANTS
    MaxPanes = 3
    Closers = {k1, k2}
SYMMETRY CloserSymmetry
INVARIANTS
    IInv
    ParentIsOpener
    ShutForGood
    ToolReachesOwn
PROPERTIES
    ChildrenFirst
CHECK_DEADLOCK FALSE
