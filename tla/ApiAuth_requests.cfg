SPECIFICATION Spec
CONSTANTS
    Users = {u1}
    Strange = {}
    Slots = {r1, r2}
    Addrs = {a1}
    Tokens = {t1}
    Codes = {c1}
    Seconds = {0, 3, 5}
    MaxTime = 3
    MaxExpiry = 2
    Second = 2
    DefaultLifetime = 1
    MaxLifetime = 4
    Half = 8
    UserLoginWait = 1
    BanTime = 1
    TokenTTL = 1
    MaxFailedLogin = 2
    NoName = NoName
    None = None
SYMMETRY SlotSymmetry
INVARIANT ServedProved
INVARIANT GuessesLimited
PROPERTY LogoutHolds
CHECK_DEADLOCK FALSE
