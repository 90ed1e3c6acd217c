CONSTANTS
    s1 = s1
    s2 = s2
    k1 = k1
    k2 = k2
    r1 = r1
    r2 = r2
    Sources <- MCSources
    Keys <- MCKeys
    Requests <- MCRequests
    Streams <- MCStreams
    MaxEntries = 1
SPECIFICATION FairSpec
INVARIANTS
    CompareInv
PROPERTIES
    EveryRequestEnds
