\* No fault, crash or stop: does a settled job leave the processing list?
SPECIFICATION Spec
CONSTANTS
    j1 = j1
    j2 = j2
    j3 = j3
    t1 = t1
    t2 = t2
    Jobs <- OneJob
    NoJob = NoJob
    Threads <- TwoThreads
    MaxRetries = 2
    Backends = {"redis"}
    MayStop = FALSE
    MaxFaults = 0
    MaxCrashes = 0
INVARIANT
    SettledJobsLeaveProcessing
