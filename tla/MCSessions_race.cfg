SPECIFICATION SessionsSpec
CONSTANTS
    u1 = u1
    u2 = u2
    c1 = c1
    c2 = c2
    NoUser = NoUser
    Accounts = {u1, u2}
    Calls = {c1, c2}
    Foreign <- MCForeign
    SessionTtl = 1
    MaxSessions = 2
    MaxNow = 3
SYMMETRY CallSymmetry
INVARIANTS
    SessionsTypeOK
    ClosedNotLive
    RevocationFinal
    KeptUntilClosed
PROPERTIES
    NeverLivesAgain
