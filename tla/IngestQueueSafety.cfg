\* Both backends, a stop at any time, two raised Redis calls, one crash.
SPECIFICATION Spec
CONSTANTS
    j1 = j1
    j2 = j2
    j3 = j3
    t1 = t1
    t2 = t2
    Jobs <- ThreeJobs
    NoJob = NoJob
    Threads <- TwoThreads
    MaxRetries = 2
    Backends = {"redis", "local"}
    MayStop = TRUE
    MaxFaults = 2
    MaxCrashes = 1
SYMMETRY Symmetry
INVARIANTS
    TypeOK
    AtMostOneCopy
    NothingDropped
    NeverLostFromRedis
    AttemptsBounded
    DeadLettersExhausted
    StatusTruthful
\* A stopped worker really stops.
CHECK_DEADLOCK FALSE
