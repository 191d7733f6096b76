SPECIFICATION Spec
CONSTANT Ticks = 2
CHECK_DEADLOCK FALSE
INVARIANT TypeOK
INVARIANT UnboundIsQuiet
PROPERTY Reconnects
PROPERTY DestroyEnds
