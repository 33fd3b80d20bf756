CONSTANTS
    SampleSize = 2
    Probers = 2
    Retained = 5
    Interval = 2
    Fallback = 3
    MaxTime = 9
    TotalReqs = 2
    MaxP95 = 1
SPECIFICATION FairSpec
INVARIANTS TypeOK EstimateIsBounded GateIsHonest
PROPERTY CommandEnds
