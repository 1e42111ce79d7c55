\* Two threads, a limit of two a minute, two minutes, one fault.
SPECIFICATION Spec
CONSTANTS
    t1 = t1
    t2 = t2
    one = one
    two = two
    ann = ann
    acme = acme
    None = None
    AuthRequired = TRUE
    Lower <- Spelled
    RoleSettings <- SomeSettings
    Threads <- TwoThreads
    Deployments <- SomeDeployments
    Requests <- SomeRequests
    RuleLists <- SomeRules
    Accesses <- SomeAccesses
    Limit = 2
    MaxNow = 3
    MaxCount = 4
    MaxFaults = 1
INVARIANTS
    GatewayTypeOK
    LimitHolds
    LeaksNeedFault
    DenyOverrides
CHECK_DEADLOCK FALSE
