SPECIFICATION Spec
CONSTANTS
    Last = 3
    ValueField = 2
    Vals = {v0, v1, v2}
    Default = v0
    Nothing = nothing
    Clients = {c1, c2}
    Threads = {app, svc}
    Service = {svc}
    NoThread = nothread
    Exclusive = TRUE
    FlushBeforeInit = TRUE
    AppClears = FALSE
SYMMETRY Symmetry
INVARIANT ViewsAgree
INVARIANT CommandMatchesBody
