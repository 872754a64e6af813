SPECIFICATION AuditFairSpec
CONSTANTS
    MaxPushes = 4
    MaxRows = 3
    MaxOthers = 1
    Actions = {"LOGIN_FAILED", "LOGIN_LOCKED", "LOGIN_SUCCESS", "LOGOUT"}
INVARIANTS
    AuditTypeOK
    EachOnce
    AlertCounts
PROPERTIES
    ImplementsDelivery
    LeavesProcess
