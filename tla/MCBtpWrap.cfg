CONSTANTS
    Window = 3
    SegmentSize = 6
    SeqMod = 8
    SeqBound = 8
    AckSend = 1
    Links <- SteadyLink
SPECIFICATION Spec
INVARIANTS
    WindowRespected
