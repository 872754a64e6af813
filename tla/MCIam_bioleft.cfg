SPECIFICATION IamSpec
CONSTANTS
    u1 = u1
    u2 = u2
    s1 = s1
    s2 = s2
    NoUser = NoUser
    Accounts = {u1}
    Slots = {s1}
    MaxNow = 3
    LockThreshold = 2
    MfaThreshold = 2
    LockTicks = 1
    TempTtl = 1
    MaxLogins = 3
    MaxUnknown = 0
    Devices = {0, 1}
    Tokens = {0, 1, 2, 3}
    MaxSecrets = 2
    MaxAsks = 3
INVARIANTS
    BiometricNeedsMfa
