CONSTANTS
    Agent = {a1, a2}
    Name = {n1, n2}
    TTL = 4
    Beat = 1
    Wait = 6
    WaitFor = 2
    MaxMissed = 1
    MaxTime = 9
SPECIFICATION Spec
SYMMETRY Symmetry
INVARIANTS TypeOK EntryMeansAlive WaitIsBounded
PROPERTY StartsWithAgents
