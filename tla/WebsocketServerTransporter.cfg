SPECIFICATION Spec
CONSTANTS
    Conns = {c1, c2}
    MaxMsgs = 1
    NoConn = noconn
    Settled = TRUE
CHECK_DEADLOCK FALSE
INVARIANT TypeOK
INVARIANT ListFollowsConnections
INVARIANT SenderIsListed
PROPERTY ShutdownEnds
PROPERTY ActionsHandled
