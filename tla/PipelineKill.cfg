SPECIFICATION Spec
CONSTANTS
    Worker = {w1, w2}
    TotalReqs = 3
    Timed = FALSE
    MaxJobs = 0
    AbortThreshold = 4
SYMMETRY Symmetry
INVARIANT
    KillCountsInFlight
