SPECIFICATION Spec
CONSTANTS
    c1 = c1
    c2 = c2
    Targets <- BothTargets
    MaxNonce = 2
    MaxProcess = 2
    MaxGeneration = 2
    MaxQueue = 2
    MaxFailures = 1
    Processes <- TwoProcesses
    Talkative <- OldProcess
    HeartbeatInterval = 1
    LeaseDuration = 3
    MaxClockSkew = 1
    Grants <- ShortAndLong
    Horizon = 4
    MaxMail = 1
    MaxRenewals = 1
    Bindings <- BindingsMC
    Certificates = {"x", "y"}
    NotAfter <- NotAfterMC
    CertNames <- CertNamesMC
    Names = {"a"}
    Parent <- ParentMC
    Nothing = Nothing
    MaximumCertificateLife = 4
    MessageLifetime = 1
    MaximumBatch = 2
    MaxCertTime = 2
SYMMETRY Interchangeable
CHECK_DEADLOCK FALSE
INVARIANTS
    RevokedAfterAllReady
    WriteBeforeTell
    ActiveWasPromoted
    
    
PROPERTIES
    RegistryTracksOwner
    HostKeepsACertificate
    ActiveNeverRegresses
