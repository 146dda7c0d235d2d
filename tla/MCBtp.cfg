CONSTANTS
    Window = 3
    SegmentSize = 6
    SeqMod = 8
    SeqBound = 8
    AckSend = 1
    Links <- BothLinks
SPECIFICATION FairSpec
INVARIANTS
    SdusArriveInOrder
    NoProtocolError
    WindowRespectedUnlessWrapping
PROPERTIES
    QueuedIsDelivered
    SilentPeerIsNoticed
