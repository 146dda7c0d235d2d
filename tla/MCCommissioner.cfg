CONSTANTS
    Networks = {"WiFi", "AlreadyOnNetwork"}
    LocalFaults = {"Rng", "CertBuild", "IssueNoc"}
    Durations <- MCDurations
SPECIFICATION CallerSpec
INVARIANTS
    CredentialsNeedProof
