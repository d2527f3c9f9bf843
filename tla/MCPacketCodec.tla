---------------------------- MODULE MCPacketCodec ----------------------------
(* Packets of every type from the shortest upwards, one longer than a byte  *)
(* can count, and limits scaled down so that every comparison of encode is  *)
(* met from both sides.                                                     *)
EXTENDS PacketCodec, Crc8, FiniteSets

CONSTANTS MaxLength, LongLength, Limits, Dummies

MCXor(a, b) == ByteXor[a][b]

MCKey == <<107>>
MCStreams == [n \in 0 .. MaxDatagram |-> KeyStreamOf(MCKey, n)]
MCKeyStream(key, n) ==
    IF key = MCKey /\ n \in DOMAIN MCStreams THEN MCStreams[n] ELSE KeyStreamOf(key, n)

MCNoise(n) == {[i \in 1 .. n |-> b] : b \in {0, 255}}

MCSetting ==
    [key : {MCKey}, obfuscate_bytes : Limits, max_dummy : Dummies, stun : BOOLEAN]

PacketOf(type, len, fill) ==
    [i \in 1 .. len |-> IF i = 1 THEN type ELSE IF i <= 4 THEN 0 ELSE fill]
MCPacket ==
    {PacketOf(type, len, 66) : type \in KnownType, len \in 4 .. MaxLength}
        \cup {PacketOf(4, LongLength, 66)}

\* The golden vector of obfuscator.rs:198-208, recorded from the server.
Phobos == <<112, 104, 111, 98, 111, 115>>
GoldenSetting == [key |-> Phobos, obfuscate_bytes |-> 0, max_dummy |-> 4, stun |-> FALSE]
GoldenEncoded == <<
    101, 213, 113, 232, 215, 101, 22, 165, 82, 96, 19, 143, 138, 14, 141, 137, 150, 39,
    186, 80, 171, 244, 244, 141, 60, 82, 153, 131, 27, 119, 155, 98, 179, 182, 246>>
GoldenDecoded == <<
    3, 0, 0, 0, 47, 97, 250, 160, 190, 134, 244, 87, 146, 30, 195, 124, 14, 70,
    12, 240, 215, 3, 208, 125, 197, 245, 102, 26, 69, 1, 51, 64>>

ASSUME Golden == Decoded(GoldenEncoded, GoldenSetting) = GoldenDecoded

\* crc8.rs:67-72
ASSUME KnownTableValues == Crc8Table[0] = 0 /\ Crc8Table[1] = 94 /\ Crc8Table[2] = 188
=============================================================================
