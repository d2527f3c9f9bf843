SPECIFICATION FairSpec
CONSTANTS
    MaxPackets = 2
    MaxDatagrams = 2
    MaxKept = 2
    Initiation = Initiation
    Response = Response
    Cookie = Cookie
    Data = Data
    Junk = Junk
    Control = Control
    Inner = Inner
    None = None
CHECK_DEADLOCK FALSE
INVARIANTS
    WTypeOK
    FlushedWhenEstablished
    NoCircularWait
PROPERTIES
    RefinesChannel
    NothingAfterReport
    StopEndsSession
