SPECIFICATION Spec
CONSTANTS
    Obj = {o1, o2, o3}
    Root = root
    None = none
    MaxId = 2
    Updaters = {u1}
    FlushAfterRemove = FALSE
    EmptyGroupsOnly = FALSE
    ServerClears = TRUE
SYMMETRY Symmetry
CHECK_DEADLOCK FALSE
INVARIANT TypeOK
INVARIANT IdsMatchParams
INVARIANT NeverRemovedAndDirty
