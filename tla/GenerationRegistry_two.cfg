\* Two appliers hand tables over at the same time.
SPECIFICATION Spec
CONSTANTS
    r1 = r1
    l1 = l1
    l2 = l2
    a1 = a1
    a2 = a2
    Generations <- GenerationsMC
    Routes <- RoutesMC
    Appliers <- TwoAppliers
    Leases <- LeasesMC
    MaximumStreams = 1
SYMMETRY Symmetry
INVARIANTS
    
    HandoverInvariant
PROPERTIES
    ImplementsServing
\* A closed registry with no stream left has nothing more to do.
CHECK_DEADLOCK FALSE
