\* Usage pipeline, under its fairness.
SPECIFICATION FairSpec
CONSTANTS
    r1 = r1
    r2 = r2
    Routes <- TwoRoutes
    LastEpoch = 1
    MaxTraffic = 3
    CounterLimit = 2
    MaxReports = 4
    Legacy <- NoPartitions
PROPERTIES
    CountedIsReported
\* A process that has ended stays so.
CHECK_DEADLOCK FALSE
