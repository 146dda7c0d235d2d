CONSTANTS
    n1 = n1
    n2 = n2
    Nodes <- MCNodes
    ExchangeIds <- MCExchangeIds
    MaxSends <- MCMaxSends
    FirstCounter <- MCFirstCounter
    MaxCounter = 4
    MaxTransmissions = 2
    TransportReliable = {}
    Width = 1
    MaxExchanges = 2
    MaxDisplaced = 1
SPECIFICATION Spec
INVARIANTS
    TableHoldsTheWork
    CounterNamesOnePacket
    AcceptedAtMostOnce
    AckedMeansHandled
    AcceptedIsAcknowledged
    OwedIsUnsent
    TransmissionBudget
CHECK_DEADLOCK FALSE
