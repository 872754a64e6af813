SPECIFICATION AuditSpec
CONSTANTS
    MaxPushes = 2
    MaxRows = 1
    MaxOthers = 1
    Actions = {"LOGIN_FAILED", "LOGIN_LOCKED"}
INVARIANTS
    LockedReported
