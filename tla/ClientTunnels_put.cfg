SPECIFICATION Spec
CONSTANTS
    Ports = {1, 2, 3}
    AllowedPorts = {1, 2}
    Targets = {ta, tb}
    ta = ta
    tb = tb
    RemoteLists <- MCRemoteLists
    PutRemotes <- MCPutRemotes
    IdleTargets = {tb}
    Requests = {q1, q2}
    KeepLostClients = TRUE
    MaxSessions = 2
    MaxFaults = 1
    NoPort = NoPort
    None = None
CHECK_DEADLOCK FALSE
INVARIANT TunnelsListen
INVARIANT TunnelsSaved
PROPERTY RestoresTunnels
INVARIANT LockHoldersProceed
SYMMETRY RequestSymmetry
