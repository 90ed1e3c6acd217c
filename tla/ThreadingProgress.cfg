CONSTANTS
    x1 = x1
    x2 = x2
    x3 = x3
    y1 = y1
    y2 = y2
    r1 = r1
    r2 = r2
    Articles <- Two
    Outlet <- MCOutlet
    Runs <- OneRun
    MaxAttempts = 2
    SweepLimit = 1
    MayFail = TRUE
SPECIFICATION FairSpec
PROPERTIES
    FailedIsSettled
    EveryArticleIsThreaded
