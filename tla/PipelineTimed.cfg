SPECIFICATION Spec
CONSTANTS
    Worker = {w1, w2}
    TotalReqs = 0
    Timed = TRUE
    MaxJobs = 6
    AbortThreshold = 1
SYMMETRY Symmetry
INVARIANT
    LateWorkBounded
