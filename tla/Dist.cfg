CONSTANTS
    RunId = {"r1", "r2"}
    NumJobs = 2
    ChunkSize = 1
    Agent = {a1, a2}
    PerAgent = 1
    StayAlive = FALSE
    MaxMishaps = 1
SPECIFICATION FairSpec
INVARIANTS TypeOK ReportIsOwnAndWhole OnePlace LossPerWorker
PROPERTY RunsReport
