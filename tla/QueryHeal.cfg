SPECIFICATION ServerFairSpec
CONSTANTS
    r1 = r1
    r2 = r2
    q1 = q1
    q2 = q2
    acme = acme
    globex = globex
    public = public
    k1 = k1
    k2 = k2
    d1 = d1
    d2 = d2
    long = long
    short = short
    ghost = ghost
    Nobody = Nobody
    Web = Web
    Public = public
    Requests <- TwoRequests
    Queries <- TwoQueries
    Tenants <- ThreeTenants
    KeyNames <- TwoKeys
    Ids <- TwoIds
    Texts <- TwoTexts
    Limits <- SomeLimits
    StageLimits <- OneAtATime
    MaxAttempts = 2
    Workloads <- TenantWorkloads
    Traffic <- TenantTraffic
    Modes <- OneMode
    Completions <- GoodCompletion
    Forbidden <- OneText
    PerSource = 2
    MaxFaults = 0
    MaxCrashes = 0
PROPERTY GoodAnswersSurvive
CHECK_DEADLOCK FALSE
