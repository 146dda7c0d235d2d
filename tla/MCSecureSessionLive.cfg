CONSTANTS
    n1 = n1
    n2 = n2
    Nodes <- MCNodes
    ExchangeIds <- MCExchangeIds
    MaxSends <- LiveMaxSends
    FirstCounter <- LiveFirstCounter
    MaxCounter = 3
    MaxTransmissions = 2
    TransportReliable = {}
    Width = 4
    MaxExchanges = 4
    MaxDisplaced = 1
SPECIFICATION FairSpec
PROPERTIES
    ReliableSettles
    OwedAckLeaves
CHECK_DEADLOCK FALSE
