SPECIFICATION TunnelSpec
CONSTANTS
    Conns = {c1, c2}
    DeleteRequests = {r1, r2}
    r1 = r1
    ForceOf <- MCForceOf
    IdleTimeout = TRUE
    Idle = Idle
CHECK_DEADLOCK FALSE
INVARIANT RemovedIsQuiet
PROPERTY DeleteReturns
PROPERTY AutoClosedIsRemoved
