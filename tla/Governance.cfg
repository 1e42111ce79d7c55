SPECIFICATION Spec
CONSTANTS
    l1 = l1
    l2 = l2
    r1 = r1
    r2 = r2
    m1 = m1
    m2 = m2
    github = github
    jira = jira
    Lanes <- TwoLanes
    Runs <- TwoRuns
    Models <- TwoModels
    Checks <- TwoChecks
    NoFile = NoFile
    Torn = Torn
    Scripts <- SomeScripts
INVARIANTS
    GovernanceTypeOK
    PromotedDescends
    LostOnlyByOverlap
    ReleaseGrounded
    GateAgreesWithAudit
CHECK_DEADLOCK FALSE
