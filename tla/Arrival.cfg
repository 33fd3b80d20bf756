CONSTANTS
    NsPerSec = 6
    Word = 16
    Rate = 4
    Duration = 5
    TotalReqs = 0
    MinGradedLag = 2
    JobsCap = 1
    MaxTime = 7
    MaxRate = 8
    MaxSlot = 9
SPECIFICATION FairSpec
INVARIANTS
    TypeOK NoOvershoot ExactDispatch LateIsRecorded ReadsAreFinal MathIsExact
PROPERTY ScheduleEnds
