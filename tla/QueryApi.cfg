SPECIFICATION ServerFairSpec
CONSTANTS
    r1 = r1
    r2 = r2
    q1 = q1
    q2 = q2
    acme = acme
    globex = globex
    public = public
    k1 = k1
    k2 = k2
    d1 = d1
    d2 = d2
    long = long
    short = short
    ghost = ghost
    Nobody = Nobody
    Web = Web
    Public = public
    Requests <- TwoRequests
    Queries <- TwoQueries
    Tenants <- ThreeTenants
    KeyNames <- TwoKeys
    Ids <- TwoIds
    Texts <- TwoTexts
    Limits <- SomeLimits
    StageLimits <- OneAtATime
    MaxAttempts = 2
    Workloads <- SomeWorkloads
    Traffic <- SomeTraffic
    Modes <- SomeModes
    Completions <- SomeCompletions
    Forbidden <- OneText
    PerSource = 2
    MaxFaults = 1
    MaxCrashes = 1
INVARIANTS
    ServerTypeOK
    ServerSlotsMatch
    EvidenceOneVersion
    AnswersGrounded
    IssuesHealed
PROPERTY QueriesAnswered
CHECK_DEADLOCK FALSE
