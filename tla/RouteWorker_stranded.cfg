SPECIFICATION WorkerSpec
CONSTANTS
    t1 = t1
    t2 = t2
    l1 = l1
    Tunnels <- OneTunnel
    MaxAssignment = 2
    Generations <- GenerationsMC
    Leases <- NoLease
    MaximumStreams = 1
    Supersedes = FALSE
    ReportsObservedState = FALSE
INVARIANTS
    ProbedCandidateIsAdmitted
CHECK_DEADLOCK FALSE
