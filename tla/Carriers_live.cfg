\* Peer relay, peer signaling, durable routes and carrier service, under their fairness.
SPECIFICATION CarriersSpec
CONSTANTS
    k1 = k1
    k2 = k2
    Legs <- LegsMC
    NoLeg = 0
    Bindings <- BindingsMC
    Admissions <- AdmissionsMC
    MaximumPending = 1
    MaximumActive = 1
    MaximumConsumed = 2
    MaximumBytes = 1
    Lapsing <- LapsingMC
    Attachments <- AttachmentsMC
    Nobody = 0
    Presented <- PresentedMC
    MaximumSessions = 1
    MaximumUsed = 2
    QueueDepth = 1
    Candidates = {"c1", "c2"}
    MaximumCandidates = 1
    MaxAccepted = 3
    Senders = {"controlling"}
    Expiring = {1}
    Servers = {1, 2}
    Identities <- IdentitiesMC
    IdentityOf <- IdentityOfMC
    Accessors = {1}
    Previews = {2}
    AdmissionTables <- TablesMC
    Rules <- RulesMC
    Requesters = {1}
    Unserved = 0
    MaximumAdmissions = 2
    MaximumCarrierRoutes = 1
    Peers = {1, 2}
    NoPeer = 0
    PeerQueue = 1
    MaximumHandlers = 1
INVARIANTS
    RelayReportedOnce
    
    PeersAreReciprocal
    ShutdownLeavesNoHandler
PROPERTIES
    
    EndedSessionIsForgotten
    CarrierShutdownReturns
\* Closed registries, managers and services stay so.
CHECK_DEADLOCK FALSE
