SPECIFICATION TablesSpec
CONSTANTS
    Passwords = {p1, p2}
    Admins = {m1, m2}
    Users = {u1, u2}
    u1 = u1
    Keys = {k1, k2}
    Groups = {g1}
    g1 = g1
    GroupsOf <- MCGroupsOf
    MaxId = 2
    MaxBusy = 2
    Empty = Empty
    NoGroup = NoGroup
    None = None
    Uuids = {i1, i2, i3}
    Names = {n1, n2}
    Authors = {a1, a2}
    UserGroups = {x1, x2}
    GroupIds = {c1}
    Requests = {r1, r2}
    Keep = Keep
    Params <- MCParams
    Clients <- MCClients
    ApiUsers <- MCUsers
    MaxLength = 4
SYMMETRY TablesSymmetry
INVARIANT StoredReadable
INVARIANT OneValuePerKey
INVARIANT NamesUnique
INVARIANT GroupsAsGiven
INVARIANT GroupsListed
PROPERTY EntriesKept
