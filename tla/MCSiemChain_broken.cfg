SPECIFICATION SiemSpec
CONSTANTS
    MaxDay = 2
    MaxEntries = 3
    MaxCrashes = 1
INVARIANTS
    UntouchedChainVerifies
