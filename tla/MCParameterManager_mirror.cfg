SPECIFICATION Spec
CONSTANTS
    Obj = {o1, o2, o3, o4}
    Root = root
    None = none
    MaxId = 2
    Updaters = {}
    FlushAfterRemove = TRUE
    EmptyGroupsOnly = TRUE
    ServerClears = FALSE
SYMMETRY Symmetry
CHECK_DEADLOCK FALSE
INVARIANT ChangesArePending
PROPERTY MirrorSpec
