CONSTANTS
    Nodes = {n1}
    Requests = {"read", "invoke", "write"}
    Subs = {}
    KindOf <- KindOfName
    Target <- OneNode
    Envs <- RequestWorlds
    WireIds = {}
    MaxSessions = 3
    WriteChunks = 2
    MaxReadChunks = 1
    MaxSends = 3
    MaxTasks = 2
    MaxLegs = 2
    MaxAtOnce = 1
    MaxEvents = 0
    MaxCallers = 2
    Connected = FALSE
    After <- WriteLast
    MaxFaults = 1
SPECIFICATION FairSpec
INVARIANTS
    EveryCallerIsTracked
    OneConnectPerNode
    SessionsInUseAreRegistered
    RepeatsOnlyIfGivenUp
PROPERTIES
    EveryCallerIsAnswered
CHECK_DEADLOCK FALSE
