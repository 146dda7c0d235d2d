SPECIFICATION Spec
CONSTANTS
    None = None
    req = req
    other = other
    Nodes = {req, other}
    Expected = req
    Cap = 4
    Pool = 2
    MaxFrames = 2
    Slack = 64
    ImageLen = 3
    MaxBlock = 2
    Proposals = {2}
    Settings <- AnySetting
INVARIANTS
    KeysAgree
    SessionKeysFresh
    HandshakesVerify
    PinnedPeerOnly
    ImageIntact
    ServeFailsOnlyWhenSpent
CHECK_DEADLOCK FALSE
