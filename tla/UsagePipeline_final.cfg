SPECIFICATION Spec
CONSTANTS
    r1 = r1
    r2 = r2
    Routes <- OneRoute
    LastEpoch = 1
    MaxTraffic = 3
    CounterLimit = 3
    MaxReports = 2
    Legacy <- NoPartitions
INVARIANTS FinalFlushIsFinal
CHECK_DEADLOCK FALSE
