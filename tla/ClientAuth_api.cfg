SPECIFICATION Spec
CONSTANTS
    AuthIds = {a1}
    Passwords = {p1}
    Clients = {c1, c2}
    Connections = {s1, s2, s3}
    Requests = {r1, r2}
    MaxFailedLogin = 2
    MaxRestarts = 1
    MaxBusy = 2
    Torn = Torn
    None = None
SYMMETRY ThreadSymmetry
INVARIANT KeptCredentials
INVARIANT CacheIsStored
INVARIANT DeletionComplete
CHECK_DEADLOCK FALSE
