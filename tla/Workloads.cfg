SPECIFICATION WorkloadsSpec
\* Requests are bounded in number: an instance stops when they are used up.
CHECK_DEADLOCK FALSE
CONSTANTS
    p1 = p1  p2 = p2  p3 = p3  s1 = s1  s2 = s2
    Threads = {t1, t2}
    TaskNames = {k1}  Objects = {o1, o2}  Rounds = {1, 2}
    CallBound = 2
    JobIds = {j1}
    BatchSize = 2
    PageBound = 2
    ChunkBound = 2
    i1 = i1  i2 = i2
    IndexJobs <- MCIndexJobs  Collections = {c1}  SitePages = {s1, s2}
    Sites <- MCSites
    ChunkCounts <- MCChunkCounts
    RecordId <- MCRecordId
    DeleteBound = 1
    Pages = {p1, p2, p3}  StartPage = p1
    LinkLists <- MCLinkLists
    Mishaps <- MCMishaps
    Exclusions <- MCExclusions
    Depths <- MCDepths
    Limits = {1, 10}
    QueueLimit = 2
    RequestIds = {r1}
    GateAgents = {"policy-creator", "other"}  GateTenants = {"acme"}
    ModelFacts <- MCModelFacts
    OtherModels = {"haiku"}
    AmericanModels = {"gemini-pro", "gpt", "haiku"}
    Fallbacks <- MCFallbacks
    LargeModels = {"gemini-pro"}
    ExceptionModel = "gemini-pro"  ExceptionAgent = "policy-creator"
    TupleBound = 2
    Completions = {q1, q2}  Aliases = {a, b}
    ClockBound = 1
    g1 = g1  g2 = g2  acme = acme  beta = beta
    NoGroup = NoGroup
    Groups <- MCGroups
    Names <- MCNames
    Name <- FreshNames
    MaxFailures = 1
    MaxCrashes = 1
INVARIANTS
    WorkloadsTypeOK
    CompletedMeansWorked
    ReportedIsStored
    ReadyIsSearchable
    CrawlIsBreadthFirst
    CloudNeedsException
    UnbilledHasACause
    ProvisionedIsTrue
PROPERTIES
    WorkEnds
    JobsEnd
    LiveTenantsKeepAccess
    EventuallySynced
