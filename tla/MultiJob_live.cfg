SPECIFICATION FairSpec
CONSTANTS
    Clients = {"a", "b"}
    N = 2
    Singles = {10}
    JobClient <- MCJobClient
    None = None
    Concurrent = FALSE
    AbortOnErr = FALSE
    ViaWebSocket = TRUE
    DbMayFail = FALSE
    MaxBreaks = 0
    MaxRestarts = 1
CHECK_DEADLOCK FALSE
INVARIANT ServedAfterAll
PROPERTY AllClientsAsked
