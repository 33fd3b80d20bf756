CONSTANTS
    Thresholds <- DefaultThresholds
    Concurrency = 2
    MaxFDs = 100
    Need = 3
    Rate = 1
    TotalReqs = 1
    Load <- Spikes
    Warmup = 2
    MaxTime = 4
SPECIFICATION FairSpec
INVARIANTS KillIsSustained UnfinishedRunSaysSo
PROPERTIES SnapshotIsFinal AllEnds
