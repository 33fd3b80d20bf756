SPECIFICATION FairSpec
CONSTANTS
    Worker = {w1, w2}
    TotalReqs = 5
    Timed = FALSE
    MaxJobs = 0
    AbortThreshold = 2
INVARIANTS
    TypeOK
    AtMostOnce
    NothingLostWhileLive
    CompleteReport
    LossBounded
    AbortHasEvidence
PROPERTIES
    ImplementsLoadRun EverythingStops
