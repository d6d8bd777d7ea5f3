SPECIFICATION RequestsSpec
CONSTANTS
    ClientIds = {i1, i2}
    AuthIds = {a1, a2}
    Sessions = {s1, s2, s3}
    Requests = {r1}
    Values = {v0}
    NoValue = v0
    NoClient = NoClient
    KeepLostClients = 1
    AuthMultiuseCreds = FALSE
    ApiOps = {}
    DbMayFail = FALSE
    MaxTime = 3
    MaxRestarts = 1
    Clients = {c1, c2}
    GroupIds = {g1}
    MaxConnections = 3
    MaxIds = 2
    None = None
SYMMETRY RequestsSymmetry
INVARIANT LiveListed
INVARIANT AuthIdExclusive
INVARIANT TableMatchesMap
INVARIANT AskedClients
