SPECIFICATION FairSpec
CONSTANTS
    ClientIds = {i1}
    AuthIds = {a1}
    Sessions = {s1, s2}
    Requests = {r1}
    Values = {v0}
    NoValue = v0
    NoClient = NoClient
    KeepLostClients = 1
    AuthMultiuseCreds = FALSE
    ApiOps = {"ForceDelete", "DeleteOffline", "SetACL", "SetUpdatesStatus", "StartTunnels"}
    DbMayFail = TRUE
    MaxTime = 2
    MaxRestarts = 1
INVARIANT ConnectedHasHandler
PROPERTY EndedIsDisconnected
