SPECIFICATION Spec
CONSTANTS
    r1 = r1
    r2 = r2
    r3 = r3
    acme = acme
    globex = globex
    k1 = k1
    k2 = k2
    d1 = d1
    d2 = d2
    long = long
    short = short
    other = other
    Nobody = Nobody
    Requests <- ThreeRequests
    Tenants <- TwoTenants
    KeyNames <- TwoKeys
    Ids <- TwoIds
    Texts <- ThreeTexts
    Workloads <- TenantWorkloads
    Limits <- WideLimits
    MaxFaults = 0
    MaxCrashes = 0
INVARIANT TenantsKeepDocuments
CHECK_DEADLOCK FALSE
