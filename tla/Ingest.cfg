CONSTANTS
    a1 = a1
    a2 = a2
    AP = AP
    own = own
    r1 = r1
    Urls <- MCUrls
    Texts <- MCTexts
    Runs <- MCRuns
    RetryLimit = 1
    MaxJobs = 1
    Unfiltered = FALSE
    Rewrites = FALSE
SPECIFICATION Spec
SYMMETRY Symmetry
INVARIANTS
    IngestInv
    NoPrimerOnFallback

    
