CONSTANTS
    Thresholds <- DefaultThresholds
    Concurrency = 2
    MaxFDs = 100
    Need = 3
    Rate = 0
    TotalReqs = 1
    Load <- Footprint
    Warmup = 2
    MaxTime = 9
SPECIFICATION Spec
INVARIANT SteadyMemoryIsNoReason
