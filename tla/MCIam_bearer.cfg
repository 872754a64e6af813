SPECIFICATION IamFairSpec
CONSTANTS
    u1 = u1
    u2 = u2
    s1 = s1
    s2 = s2
    NoUser = NoUser
    Accounts = {u1, u2}
    Slots = {s1, s2}
    MaxNow = 1
    LockThreshold = 2
    MfaThreshold = 2
    LockTicks = 1
    TempTtl = 1
    MaxLogins = 1
    MaxUnknown = 0
    Devices = {}
    Tokens = {0, 1, 2}
    MaxSecrets = 0
    MaxAsks = 1
VIEW RaceView
INVARIANTS
    TokenOfUser
    GrantedToIssued
PROPERTIES
    RequestAnswered
