\* Nothing fails but the jobs themselves: every job settles, along the lifecycle.
SPECIFICATION FairSpec
CONSTANTS
    j1 = j1
    j2 = j2
    j3 = j3
    t1 = t1
    t2 = t2
    Jobs <- ThreeJobs
    NoJob = NoJob
    Threads <- TwoThreads
    MaxRetries = 2
    Backends = {"redis", "local"}
    MayStop = FALSE
    MaxFaults = 0
    MaxCrashes = 0
PROPERTIES
    EveryJobSettles
    
