\* Route worker and usage pipeline.
SPECIFICATION ControlSpec
CONSTANTS
    r1 = r1
    r2 = r2
    t1 = t1
    l1 = l1
    Routes <- TwoRoutes
    LastEpoch = 2
    MaxTraffic = 2
    CounterLimit = 4
    MaxReports = 1
    Legacy <- TwoPartitions
    Tunnels <- OneTunnel
    MaxAssignment = 3
    Generations <- ThreeGenerations
    Leases <- OneLease
    MaximumStreams = 1
    Supersedes = TRUE
    ReportsObservedState = TRUE
SYMMETRY RouteSymmetry
INVARIANTS
    NeverOverReported
    ToldIsDurable
    ReportedIsRepresented
    ServedIsAdmitted
PROPERTIES
    ServiceMovesForward
\* The instances are bounded: a component that has taken all its steps stops.
CHECK_DEADLOCK FALSE
