CONSTANTS
    Nodes = {n1}
    Requests = {}
    Subs = {"s1", "s2"}
    KindOf <- KindOfName
    Target <- OneNode
    Envs <- SubscriptionWorlds
    WireIds = {1, 2}
    MaxSessions = 3
    WriteChunks = 2
    MaxReadChunks = 1
    MaxSends = 3
    MaxTasks = 2
    MaxLegs = 2
    MaxAtOnce = 1
    MaxEvents = 3
    MaxCallers = 2
    Connected = TRUE
    After <- Numbered
    MaxFaults = 1
SPECIFICATION Spec
INVARIANTS
    SubscriptionIsSomewhere
    ReportsFindTheirSubscription
    EventsOnceAndInOrder
    OnlyOvertakenEndsSiblings
CHECK_DEADLOCK FALSE
