SPECIFICATION Spec
CONSTANTS
    Last = 2
    ValueField = 1
    Vals = {v0, v1}
    Default = v0
    Nothing = nothing
    Clients = {c1}
    Threads = {app, other, svc}
    Service = {svc}
    NoThread = nothread
    Exclusive = FALSE
    FlushBeforeInit = FALSE
    AppClears = TRUE
SYMMETRY Symmetry
INVARIANT TypeOK
INVARIANT FlaggedIsDirty
