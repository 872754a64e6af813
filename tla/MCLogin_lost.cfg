SPECIFICATION Spec
CONSTANTS
    u1 = u1
    s1 = s1
    s2 = s2
    NoUser = NoUser
    u2 = u2
    Accounts = {u1}
    Slots = {s1, s2}
    MaxNow = 1
    LockThreshold = 5
    MfaThreshold = 2
    LockTicks = 1
    TempTtl = 1
    MaxLogins = 6
    MaxUnknown = 0
INVARIANTS
    LockAfterThreshold
