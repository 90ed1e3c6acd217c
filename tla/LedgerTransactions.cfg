CONSTANTS
    h1 = h1
    h2 = h2
    h3 = h3
    t1 = t1
    t2 = t2
    Nobody = Nobody
    Holds <- MCHolds
    Sessions <- MCSessions
    MaxBound = 1
    UnreservedCap = 1
    LastDay = 1
    Settings <- MCSettings
    Production = TRUE
SPECIFICATION Spec
SYMMETRY Alike
INVARIANTS
    TxInv
    CeilingHolds
    CompareShareProtected
    LedgerIsExact
    NothingUnaccounted
PROPERTIES
    LedgerUpToPolicy
    SettledIsFinal
