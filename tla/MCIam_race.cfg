SPECIFICATION IamSpec
CONSTANTS
    u1 = u1
    u2 = u2
    s1 = s1
    s2 = s2
    NoUser = NoUser
    Accounts = {u1}
    Slots = {s1, s2}
    MaxNow = 2
    LockThreshold = 2
    MfaThreshold = 2
    LockTicks = 1
    TempTtl = 1
    MaxLogins = 2
    MaxUnknown = 0
    Devices = {1}
    Tokens = {0, 1, 2}
    MaxSecrets = 1
    MaxAsks = 2
VIEW RaceView
SYMMETRY SlotSymmetry
INVARIANTS
    IamTypeOK
    LockBacked
    MfaLockBacked
    MfaLockBounded
    BiometricCoherent
