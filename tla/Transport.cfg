CONSTANTS
    NumRequests = 3
    Concurrency = 2
    PerWorker = 1
    MinAutoIdle = 1
    MaxAgain = 1
    Recorder = {g1, g2}
    MaxCalls = 3
    MaxResets = 1
SPECIFICATION Spec
SYMMETRY Symmetry
INVARIANTS TypeOK HitsAreReuses ReturnsAreNotHits CreatedAddsUp SkewBounded
