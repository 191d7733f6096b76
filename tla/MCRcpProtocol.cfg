SPECIFICATION MCSpec
CONSTANTS
    Clients = {c1, c2}
    MaxId = 3
    Vals = {v0, v1}
    Default = v0
    None = none
    MaxOps = 5
    MaxQueue = 3
    StepByStep = TRUE
SYMMETRY Symmetric
CHECK_DEADLOCK FALSE
INVARIANT TypeOK
INVARIANT QuietMirror
INVARIANT RemovedIsEmpty
