\* Routing, admission, matching, data carriers, ingress decisions and the node.
SPECIFICATION GatewaySpec
CONSTANTS
    e1 = e1
    e2 = e2
    h1 = h1
    RouteIds = {1, 2, 3}
    Hosts = {1, 2}
    NoRoute = NoRoute
    MaxRevision = 2
    Tables <- TablesMC
    Requests = {1, 2, 3}
    RequestOf <- RequestsMC
    JournalCapacity = 2
    MaxRuns = 5
    UserStreams = {1}
    AdapterCapacity = 1
    MaxResumes = 1
    Rules <- RulesMC
    RequestHosts <- HostsMC
    RequestPaths <- PathsMC
    NoRule = NoRule
    MaximumRules = 3
    Calls = {e1, e2, h1}
    SideOf <- SidesMC
    KindsOf <- KindsMC
    KeyOf <- KeysMC
    Nobody = Nobody
    Aborted = Aborted
    MaximumStreams <- LimitsMC
    CarrierQueue = 1
    BridgeMaximum = 1
    MaxControls = 1
    Conns = {1, 2}
    Publications = {1, 2}
    PublicationOf <- PublicationMC
    ConnKind <- ConnKindMC
    IngressLifetime = 4
    IngressRefresh = 2
    PublicationLimit = 1
    AccountLimit = 1
    MaximumLimitEntries = 3
    MaxClock = 5
    MaxGrant = 2
    ListenerIds = {1, 2}
    Ports = {1, 2}
    Decisions <- DecisionsMC
    TcpConns = {1, 2}
    PrepareTime = 1
    MaximumListeners = 2
    MaximumTcpConnections = 1
    MaxTcpTime = 2
    BrokerConns = {1, 2}
    BrokerNames = {"a", "b"}
    NoLeader = NoLeader
    MaximumChoices = {1, 2}
    MaximumDemandCalls = 1
    Ids <- TwoOfEach
    Generations = {1, 2}
    Streams <- TwoOfEach
    Drainers = {1}
    Capacity = 2
    MaxUint = 1
    MaxBeats = 3
SYMMETRY CallSymmetry
INVARIANTS
    HostsNameTheirOwners
    AdmissionIsSingleUse
    
    BestRuleIsChosen
    EdgePermitsAreHeld
    LeasesAreCounted
    
    ForwardHasItsListener
    ShutdownIsQuiet
    DrainedIsEmpty
    LastHeartbeatStands
\* A closed carrier, a full journal, a stopped node and the end of the clock stop their part.
CHECK_DEADLOCK FALSE
