\* A post, two jobs and an erasure; texts in common and a cache of two.
SPECIFICATION Spec
CONSTANTS
    p1 = p1
    j1 = j1
    j2 = j2
    e1 = e1
    doc = doc
    u = u
    v = v
    a = a
    b = b
    c = c
    Posts <- OnePost
    Jobs <- TwoJobs
    Erasures <- OneErasure
    Source <- Sources
    Subject <- Subjects
    Texts <- ThreeTexts
    Target <- Targets
    MaxCache = 2
    Evicted = 1
    BatchSize = 2
    ShortAnswers = TRUE
    None = None
INVARIANTS
    RtbfTypeOK
    OwnVectors
    NothingLostSilently
    
CHECK_DEADLOCK FALSE
