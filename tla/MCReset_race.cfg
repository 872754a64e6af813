SPECIFICATION ResetSpec
CONSTANTS
    u1 = u1
    s1 = s1
    s2 = s2
    NoUser = NoUser
    u2 = u2
    Accounts = {u1}
    Slots = {s1, s2}
    MaxNow = 2
    LockThreshold = 2
    MfaThreshold = 2
    LockTicks = 1
    TempTtl = 1
    MaxLogins = 3
    MaxUnknown = 1
SYMMETRY SlotSymmetry
INVARIANTS
    ResetTypeOK
    LockBacked
    LockBounded
    AuditBacked
    AuditComplete
    ResetHolds
