SPECIFICATION FairSpec
CONSTANTS
    r1 = r1
    r2 = r2
    r3 = r3
    acme = acme
    globex = globex
    k1 = k1
    k2 = k2
    d1 = d1
    d2 = d2
    long = long
    short = short
    other = other
    Nobody = Nobody
    Requests <- ThreeRequests
    Tenants <- TwoTenants
    KeyNames <- TwoKeys
    Ids <- TwoIds
    Texts <- ThreeTexts
    Workloads <- SomeWorkloads
    Limits <- SomeLimits
    MaxFaults = 1
    MaxCrashes = 1
INVARIANTS
    TypeOK
    SlotsMatch
    OneCreator
    AnswersTruthful
    NoStaleChunks
    CompletedIsStored
PROPERTY AcceptedCompletes
CHECK_DEADLOCK FALSE
