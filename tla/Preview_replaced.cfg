\* A preview's carrier session is replaced by one of the same identity.
SPECIFICATION CarriersOnly
CONSTANTS
    Offers <- OffersMC
    Carriers <- TwoCarriers
    CarrierIdentity <- CarrierIdentityMC
    MaxToday = 1
    Unrouted = Unrouted
    PreviewRoutes = {1, 2, 3}
    Names <- NamesMC
    Domains = {1, 2, 3}
    WildcardOf <- WildcardMC
    PreviewEntries <- EntriesMC
    AliasSets <- AliasSetsMC
    MaximumPreviews = 2
    Vacant = Vacant
    BrokerConns = {1, 2}
    BrokerNames = {"a"}
    NoLeader = NoLeader
    MaximumChoices = {2}
    MaximumDemandCalls = 1
PROPERTIES
    StaleCloseSparesReplacement
CHECK_DEADLOCK FALSE
