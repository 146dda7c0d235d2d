CONSTANTS
    Networks = {"WiFi", "Thread", "AlreadyOnNetwork"}
    LocalFaults = {"Rng", "CertBuild", "IssueNoc"}
    Durations <- MCDurations
    Reliabilities = {"Mrp", "TransportProvides"}
    Faults = {"Loss", "Lapse", "Reboot", "Reject"}
SPECIFICATION FairSpec
INVARIANTS
    DoneMeansCommissioned
    OnlyGenuineDevices
    AlwaysUnderFailsafe
    FailedRunIsUndone
PROPERTIES
    Commissions
    PaseRequestsEnd
CHECK_DEADLOCK FALSE
