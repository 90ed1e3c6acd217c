CONSTANTS
    b1 = b1
    b2 = b2
    NoBatch = NoBatch
    MayCrash = TRUE
    Holds <- OneBatch
    MaxBound = 1
    LastDay = 1
    UnreservedCap = 0
    Settings <- MCSettings
    Production = TRUE
SPECIFICATION FairSpec
PROPERTIES
    RecordedBatchesResolve
    NothingStaysInFlight
