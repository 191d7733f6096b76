SPECIFICATION Spec
CONSTANTS
    Obj = {o1, o2, o3, o4}
    Root = root
    None = none
    MaxId = 3
    Updaters = {}
    FlushAfterRemove = FALSE
    EmptyGroupsOnly = FALSE
    ServerClears = FALSE
SYMMETRY Symmetry
CHECK_DEADLOCK FALSE
INVARIANT TreeConsistent
INVARIANT InitSendsRegistry
