SPECIFICATION Spec
CONSTANTS
    Xor <- MCXor
    KeyStream <- MCKeyStream
    Noise <- MCNoise
    Setting <- MCSetting
    Packet <- MCPacket
    Salt = {1, 4, 255}
    MaxDummyTotal = 10
    MaxDummyHandshake = 3
    MaxDatagram = 260
    None = None
    MaxLength = 11
    LongLength = 258
    Limits = {0, 3, 6, 8}
    Dummies = {0, 2, 300}
CHECK_DEADLOCK FALSE
INVARIANTS
    CodecTypeOK
    RoundTrip
    PaddingBounded
