CONSTANTS
    summarize = summarize
    search = search
    embed = embed
    Holds <- MCHolds
    MaxBound = 2
    UnreservedCap = 0
    LastDay = 1
    Settings <- MCSettings
    Production = TRUE
    Kind <- MCKind
    CallScope <- MCCallScope
SPECIFICATION FairSpec
INVARIANTS
    CallsInv
PROPERTIES
    LedgerSpec
    CallsEnd
