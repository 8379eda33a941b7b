CONSTANTS
    Caught = {"quest"}
    Hooked = {"boss"}
    Goal = "goal"
    MaxFaults = 2
SPECIFICATION FairSpec
INVARIANTS
    TypeOK
    MemoryIsTheRecord
PROPERTIES
    GoalStaysOnRecord
    RecordReachesServer
    DoneReachesServer
CHECK_DEADLOCK FALSE
