SPECIFICATION Spec
CONSTANTS
    Clients = {"a", "b"}
    N = 2
    Singles = {10}
    JobClient <- MCJobClient
    None = None
    Concurrent = FALSE
    AbortOnErr = TRUE
    ViaWebSocket = FALSE
    DbMayFail = TRUE
    MaxBreaks = 1
    MaxRestarts = 1
CHECK_DEADLOCK FALSE
INVARIANT AbortStops
 
INVARIANT RunningHasPid
INVARIANT OnlyLateResultsPanic
PROPERTY ResultIsFinal
