\* Two holders of a lease, two bridges with two faults, two runners, two kinds of task;
\* an object store with three clients and two faults;
\* a CI agent over three commits with one fault, and six deliveries of its webhook;
\* a command of three processes and five bytes, and two runs with an artifact.
SPECIFICATION MCSpec
CONSTANTS
    h1 = h1
    h2 = h2
    Skew = 1
    Holders = {h1, h2}
    Nobody = Nobody
    Ahead <- MCAhead
    Ttl = 2
    Tolerance = 1
    CreateFirst = FALSE
    Heartbeats = TRUE
    MaxTime = 5
    MaxVersion = 4
    b1 = b1
    b2 = b2
    Bridges = {b1, b2}
    MaxSeq = 2
    MaxFaults = 2
    Runners = {1, 2}
    ClaimTtl = 1
    MaxAttempts = 2
    MaxErrors = 2
    Faults = {"error", "fetch", "unanswered"}
    CiMaxTime = 3
    MaxEntries = 4
    Kinds = {"sync", "compact"}
    Streams = {"s"}
    MaxTasks = 2
    Notices = 1
    KeepRecords = 2
    StClients = {1, 2, 3}
    Uploaders = {1, 2}
    StBackends = {"gcs", "s3", "memory"}
    CasRetries = 2
    StFaults = 2
    S3Deletes = FALSE
    ResumeAttempts = 2
    CleanEof = FALSE
    ComposeMax = 2
    StParts = 3
    ListPage = 2
    MinPart = 2
    CopyPart = 3
    AgRefs <- MCRefs
    AgPipelines <- MCPipelines
    AgFilters = {0}
    AgReturns = FALSE
    AgMaxTime = 5
    AgMaxFaults = 1
    ScanMax = 1
    DeliveryRing = 2
    Deliveries <- MCDeliveries
    CmdKinds = {"child", "daemon"}
    CmdBytes = 5
    PipeMax = 2
    ChunkMax = 2
    LogMax = 3
    ObRounds = 2
    ObRewrites = 1
    ObFaults = 1
    ObShadows = 1
CHECK_DEADLOCK FALSE
INVARIANTS OneLiveGuard BehindCursor
      CasKept StoreExact AgentSound CommandSound
PROPERTIES CronKept
