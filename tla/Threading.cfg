CONSTANTS
    x1 = x1
    x2 = x2
    x3 = x3
    y1 = y1
    y2 = y2
    r1 = r1
    r2 = r2
    Articles <- Three
    Outlet <- MCOutlet
    Runs <- OneRun
    MaxAttempts = 1
    SweepLimit = 1
    MayFail = TRUE
SPECIFICATION Spec
SYMMETRY Alike
INVARIANTS
    ThreadingInv
    ServedCopyIsCurrent
PROPERTIES
    ThreadsAsQueue
    
