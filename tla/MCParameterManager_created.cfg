SPECIFICATION Spec
CONSTANTS
    Obj = {o1, o2, o3}
    Root = root
    None = none
    MaxId = 2
    Updaters = {}
    FlushAfterRemove = FALSE
    EmptyGroupsOnly = TRUE
    ServerClears = FALSE
SYMMETRY Symmetry
CHECK_DEADLOCK FALSE
PROPERTY CreatedIsDirty
