SPECIFICATION ServicesSpec
CONSTANTS
    Servers = {p1, p2}
    InitSql = {"articles", "stories"}
    MaxDeaths = 1
    Outlets <- const_Outlets
    Politicians <- const_Politicians
    Orgs <- const_Orgs
    Bills = {}
    Aliases <- const_Aliases
    SurnameOf <- const_SurnameOf
    SourceOf <- const_SourceOf
    StopWords = {}
    Ineligible = {"the_athletic"}
    Short = {"hill"}
    Texts <- const_Texts
    Urls = {"u1", "u2"}
    MaxArticles = 2
    Newest <- const_Newest
    Named <- const_Named
    Old <- const_Old
    Waiting = {"new"}
    PublishedBy <- const_PublishedBy
    Seeded = {"bbc", "bbc_news", "yahoo", "stat"}
    Canonical <- const_Canonical
    Excluded = {"yahoo"}
    MaxScripts = 2
    Batch = {a1, a2, a3}
    Bodyless = {a3}
    MaxBatchAttempts = 2
    Requested <- const_Requested
    Proposals <- const_Proposals
    Describable = {"radio"}
    MaxClaims = 3
    LastDay = 1
    Stale = 3
    FeedList = {"post1", "post2"}
    OutletOf <- const_OutletOf
    Window = 5
    Floor = 1
    Multiplier = 1
    LastFeedDay = 7
    Posts <- const_Posts
    MaxTasks = 2
    MaxEdits = 1
    Latest <- const_Latest
    OutletOfPost <- const_OutletOfPost
    Groupings <- const_Groupings
    Restored = {"a"}
    ClusterRuns = {"r1", "r2"}
    MaxClusterRuns = 2
    Stored = {"u1"}
    Generated <- const_Generated
    Publishers <- const_Publishers
    Articles <- const_Articles
    Models <- const_Models
    Prices <- const_Prices
    Operations <- const_Operations
    Settings <- const_Settings
    MaxDeploys = 1
    Scored <- const_Scored
    Proposed <- const_Proposed
    Labelled <- const_Labelled
    Filings <- const_Filings
    Official <- const_Official
    Similar = {}
    MaxIngests = 2
INVARIANTS
    EntityLinksHold
    ReviewDecides
    AnswerIsFair
    EnrichmentIsSound
    ServedStoryIsWhole
    
    EvidenceStands
    
    RandAgreesWithPairs
    PublishedIsVouched
PROPERTIES
    
    RefreshKeepsPace
    VerdictOnlyHardens
\* Most of these components do their work once and stop.
CHECK_DEADLOCK FALSE
