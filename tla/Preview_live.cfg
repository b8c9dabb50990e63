\* Preview carriers under their fairness, and the preview gateway's index.
SPECIFICATION MCSpec
CONSTANTS
    Offers <- OffersMC
    Carriers <- OneCarrier
    CarrierIdentity <- CarrierIdentityMC
    MaxToday = 1
    Unrouted = Unrouted
    PreviewRoutes = {1, 2, 3}
    Names <- NamesMC
    Domains = {1, 2, 3}
    WildcardOf <- WildcardMC
    PreviewEntries <- EntriesMC
    AliasSets <- AliasSetsMC
    MaximumPreviews = 2
    Vacant = Vacant
    BrokerConns = {1, 2}
    BrokerNames = {"a"}
    NoLeader = NoLeader
    MaximumChoices = {2}
    MaximumDemandCalls = 1
INVARIANTS
    LookupIsCurrent
PROPERTIES
    WithdrawnIsDetached
    HandshakeEnds
\* A stopped worker and a closed gateway stay so.
CHECK_DEADLOCK FALSE
