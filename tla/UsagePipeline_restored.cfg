SPECIFICATION Spec
CONSTANTS
    r1 = r1
    r2 = r2
    Routes <- OneRoute
    LastEpoch = 2
    MaxTraffic = 3
    CounterLimit = 3
    MaxReports = 2
    Legacy <- NoPartitions
INVARIANTS RestoredIsRepresented
CHECK_DEADLOCK FALSE
