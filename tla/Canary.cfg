\* Two shadow threads over every loop, one error a window.
SPECIFICATION FairSpec
CONSTANTS
    s1 = s1
    s2 = s2
    Slots <- TwoSlots
    RefineRounds = 2
    Questions = 4
    MaxSteps = 2
    RepairRounds = 2
    MaxAttempts = 2
    Loops <- SomeLoops
    Window = 2
    MaxRecent = 1
    MaxResults = 1
INVARIANTS
    CanaryTypeOK
    ConvergedWasScored
    OvershootBounded
PROPERTIES
    EveryCallEnds
    CircuitRecloses
CHECK_DEADLOCK FALSE
