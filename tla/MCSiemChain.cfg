SPECIFICATION SiemFairSpec
CONSTANTS
    MaxDay = 3
    MaxEntries = 5
    MaxCrashes = 2
INVARIANTS
    SiemTypeOK
    OrderlyChainVerifies
    LossDetected
    NoFork
    NeighboursLinked
PROPERTIES
    EntriesDurable
    PendingWritten
