SPECIFICATION FairSpec
CONSTANTS
    e1 = e1
    e2 = e2
    Endpoint = {e1, e2}
    Stun = TRUE
    MaxPackets = 3
    MaxAnswers = 2
    MaxPings = 1
    None = None
CHECK_DEADLOCK FALSE
INVARIANTS
    ForwardedFromClient
    HandshakeAnnounced
    NoStaleDelivery
    ConfAccountedFor
PROPERTIES
    StopEndsLoops
