CONSTANTS
    b1 = b1
    b2 = b2
    NoBatch = NoBatch
    MayCrash = TRUE
    Holds <- TwoBatches
    MaxBound = 1
    LastDay = 0
    UnreservedCap = 2
    Settings <- MCSettings
    Production = TRUE
SPECIFICATION Spec
SYMMETRY Symmetry
INVARIANTS
    BatchesInv
PROPERTIES
    LedgerSpec
