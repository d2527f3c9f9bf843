----------------------------- MODULE PacketCodec -----------------------------
(* obfuscator.rs, crc8.rs and stun.rs: one datagram between two ends that   *)
(* share their settings, byte by byte, from encode to decode.  The receiver *)
(* finds out how much of a datagram is enciphered from its length alone, so *)
(* the padding must never change the sender's answer to that question.      *)
EXTENDS Integers, Sequences

CONSTANTS
    Xor(_, _),          \* exclusive or of two bytes
    KeyStream(_, _),    \* the bytes xor_data lays over a buffer: key, its length
    Noise(_),           \* bound: the random byte strings of a length
    Setting,            \* key, obfuscate_bytes, max_dummy, and whether masking is STUN
    Packet,             \* the WireGuard packets to be sent
    Salt,               \* bound: the random bytes encode mixes into the type
    MaxDummyTotal,      \* MAX_DUMMY_LENGTH_TOTAL (1024)
    MaxDummyHandshake,  \* MAX_DUMMY_LENGTH_HANDSHAKE (512)
    MaxDatagram,        \* bound: the longest buffer to be enciphered (65535)
    None

Byte == 0 .. 255
Handshake == 1 .. 2
CookieOrData == 3 .. 4
KnownType == Handshake \cup CookieOrData

ASSUME XorAssumption ==
    \A a, b \in Byte : LET c == Xor(a, b) IN c \in Byte /\ Xor(c, b) = a

ASSUME StreamAssumption ==
    \A key \in {s.key : s \in Setting}, n \in 0 .. MaxDatagram : KeyStream(key, n) \in [1 .. n -> Byte]

ASSUME NoiseAssumption ==
    \A n \in 0 .. MaxDatagram : Noise(n) \subseteq [1 .. n -> Byte]

ASSUME PacketAssumption ==
    \A p \in Packet :
        /\ p \in Seq(Byte) /\ Len(p) \in 4 .. MaxDatagram
        /\ p[1] \in KnownType /\ p[2] = 0 /\ p[3] = 0 /\ p[4] = 0

ASSUME SettingAssumption ==
    \A s \in Setting : s.obfuscate_bytes \in Nat /\ s.max_dummy \in Nat /\ s.stun \in BOOLEAN

ASSUME SaltAssumption == Salt \subseteq 1 .. 255

ASSUME LimitAssumption ==
    /\ MaxDatagram \in 12 .. 256 * 256 - 1
    /\ MaxDummyTotal \in 0 .. MaxDatagram /\ MaxDummyHandshake \in Nat

ASSUME NoneAssumption == None \notin Seq(Byte)
-----------------------------------------------------------------------------
(* obfuscator.rs and crc8.rs                                                *)

\* xor_data over the first n bytes of a buffer.
XorData(buf, key, n) ==
    LET stream == KeyStream(key, n)
    IN [i \in 1 .. Len(buf) |-> IF i <= n THEN Xor(buf[i], stream[i]) ELSE buf[i]]

Partial(s, len) == s.obfuscate_bytes > 0 /\ s.obfuscate_bytes < len

\* Fault: one dummy byte too many fits under obfuscate_bytes.
DummyLengthsFault(p, s) ==
    IF Partial(s, Len(p)) THEN {0}
    ELSE {0} \cup {n \in 1 .. MaxDummyTotal - Len(p) - 1 :
                    /\ s.obfuscate_bytes > 0 => n <= s.obfuscate_bytes - Len(p) + 1
                    /\ p[1] \in Handshake => n < MaxDummyHandshake
                    /\ p[1] \in CookieOrData => n < s.max_dummy}

(* How many dummy bytes encode may append: fewer than the packet lacks to   *)
(* MAX_DUMMY_LENGTH_TOTAL and than the limit of its type, and never so many *)
(* that a wholly enciphered packet would outgrow obfuscate_bytes.           *)
DummyLengths(p, s) ==
    IF Partial(s, Len(p)) THEN {0}
    ELSE {0} \cup {n \in 1 .. MaxDummyTotal - Len(p) - 1 :
                    /\ s.obfuscate_bytes > 0 => n <= s.obfuscate_bytes - Len(p)
                    /\ p[1] \in Handshake => n < MaxDummyHandshake
                    /\ p[1] \in CookieOrData => n < s.max_dummy}

\* The header carries the salt and the number of dummy bytes.
Padded(p, salt, dummy) ==
    [i \in 1 .. Len(p) + Len(dummy) |->
        CASE i = 1 -> Xor(p[1], salt)
          [] i = 2 -> salt
          [] i = 3 -> Len(dummy) % 256
          [] i = 4 -> Len(dummy) \div 256
          [] i > 4 /\ i <= Len(p) -> p[i]
          [] OTHER -> dummy[i - Len(p)]]

Encoded(p, s, salt, dummy) ==
    XorData(Padded(p, salt, dummy), s.key,
            IF Partial(s, Len(p)) THEN s.obfuscate_bytes ELSE Len(p) + Len(dummy))

Covered(s, len) == IF Partial(s, len) THEN s.obfuscate_bytes ELSE len

IsObfuscated(buf) == buf[1] \notin KnownType \/ buf[2] # 0 \/ buf[3] # 0 \/ buf[4] # 0

\* Fault: a packet of four bytes counts as nothing but padding.
StrippedFault(buf) ==
    LET dummyLen == buf[3] + 256 * buf[4]
        type == Xor(buf[1], buf[2])
    IN IF dummyLen >= Len(buf) - 4 \/ type \notin KnownType THEN None
       ELSE [i \in 1 .. Len(buf) - dummyLen |->
                IF i = 1 THEN type ELSE IF i <= 4 THEN 0 ELSE buf[i]]

\* The packet without salt and dummy bytes, or None if it is no packet.
Stripped(buf) ==
    LET dummyLen == buf[3] + 256 * buf[4]
        type == Xor(buf[1], buf[2])
    IN IF dummyLen > Len(buf) - 4 \/ type \notin KnownType THEN None
       ELSE [i \in 1 .. Len(buf) - dummyLen |->
                IF i = 1 THEN type ELSE IF i <= 4 THEN 0 ELSE buf[i]]

Decoded(buf, s) ==
    IF Len(buf) < 4 THEN None
    ELSE LET open == XorData(buf, s.key, Covered(s, Len(buf)))
         IN IF IsObfuscated(open) THEN Stripped(open) ELSE open
-----------------------------------------------------------------------------
(* stun.rs                                                                  *)

Cookie == <<33, 18, 164, 66>>
BindingRequest == <<0, 1>>
BindingResponse == <<1, 1>>
DataIndication == <<1, 21>>
AttrData == <<0, 19>>

IsStunPacket(buf) == Len(buf) >= 8 /\ \A i \in 1 .. 4 : buf[i + 4] = Cookie[i]

\* Fault: the length is put in one place of two.
HeaderFault(txid, len) == DataIndication \o <<0, 0>> \o Cookie \o txid \o AttrData \o <<0, len>>
Header(txid, len) == DataIndication \o <<0, 0>> \o Cookie \o txid \o AttrData \o <<len \div 256, len % 256>>

\* stun_wrap_data_indication; a payload too long for its length field goes bare.
Wrapped(payload, txid) ==
    IF Len(payload) >= 256 * 256 THEN payload ELSE Header(txid, Len(payload)) \o payload

\* stun_unwrap_data_indication
Unwrapped(buf) ==
    LET dataLen == 256 * buf[23] + buf[24]
    IN IF /\ Len(buf) >= 24
          /\ IsStunPacket(buf)
          /\ <<buf[1], buf[2]>> = DataIndication
          /\ <<buf[21], buf[22]>> = AttrData
          /\ 24 + dataLen <= Len(buf)
       THEN SubSeq(buf, 25, 24 + dataLen)
       ELSE None

\* A binding message, its fingerprint's check sum left open.
Binding(type, txid, crc) == type \o <<0, 8>> \o Cookie \o txid \o <<128, 40, 0, 4>> \o crc
-----------------------------------------------------------------------------
VARIABLES
    setting,   \* of this profile, at both ends
    receiver,  \* "tunnel" (tunnel.rs, tunnel_service.rs) or "relay" (relay.rs)
    plain,     \* the WireGuard packet sent
    origin,    \* who made the datagram
    stage,     \* how far it is
    datagram   \* its bytes, and at last the packet handed on

vars == <<setting, receiver, plain, origin, stage, datagram>>

Init ==
    /\ setting \in Setting
    /\ receiver \in {"tunnel", "relay"}
    /\ plain \in Packet
    /\ origin = "none"
    /\ stage = "idle"
    /\ datagram = <<>>

Encode ==
    /\ stage = "idle"
    /\ \E salt \in Salt, n \in DummyLengths(plain, setting) : \E dummy \in Noise(n) :
          datagram' = Encoded(plain, setting, salt, dummy)
    /\ stage' = "encoded"
    /\ origin' = "encode"
    /\ UNCHANGED <<setting, receiver, plain>>

\* A peer of protocol version 0 enciphers without salt or dummy bytes.
EncodeVersion0 ==
    /\ stage = "idle"
    /\ datagram' = XorData(plain, setting.key, Covered(setting, Len(plain)))
    /\ stage' = "encoded"
    /\ origin' = "version0"
    /\ UNCHANGED <<setting, receiver, plain>>

Frame ==
    /\ stage = "encoded"
    /\ stage' = "sent"
    /\ IF setting.stun
       THEN \E txid \in Noise(12) : datagram' = Wrapped(datagram, txid)
       ELSE UNCHANGED datagram
    /\ UNCHANGED <<setting, receiver, plain, origin>>

\* Under STUN masking requests and responses travel between the data.
SendBinding ==
    /\ stage = "idle"
    /\ setting.stun
    /\ \E type \in {BindingRequest, BindingResponse}, txid \in Noise(12), crc \in Noise(4) :
          datagram' = Binding(type, txid, crc)
    /\ stage' = "sent"
    /\ origin' = "binding"
    /\ UNCHANGED <<setting, receiver, plain>>

Drop == stage' = "dropped" /\ datagram' = <<>>

(* Both receivers unwrap under STUN masking; what does not unwrap the relay *)
(* drops, while the tunnel hands it to the decoder unless it is STUN.       *)
Receive ==
    /\ stage = "sent"
    /\ \/ /\ ~setting.stun
          /\ stage' = "received" /\ UNCHANGED datagram
       \/ /\ setting.stun /\ Unwrapped(datagram) # None
          /\ stage' = "received" /\ datagram' = Unwrapped(datagram)
       \/ /\ setting.stun /\ Unwrapped(datagram) = None
          /\ receiver = "tunnel" /\ ~IsStunPacket(datagram)
          /\ stage' = "received" /\ UNCHANGED datagram
       \/ /\ setting.stun /\ Unwrapped(datagram) = None
          /\ receiver = "relay" \/ IsStunPacket(datagram)
          /\ Drop
    /\ UNCHANGED <<setting, receiver, plain, origin>>

Decode ==
    /\ stage = "received"
    /\ LET packet == Decoded(datagram, setting)
       IN IF packet = None THEN Drop ELSE stage' = "delivered" /\ datagram' = packet
    /\ UNCHANGED <<setting, receiver, plain, origin>>

Next == Encode \/ EncodeVersion0 \/ Frame \/ SendBinding \/ Receive \/ Decode

Spec == Init /\ [][Next]_vars
-----------------------------------------------------------------------------
CodecTypeOK ==
    /\ setting \in Setting
    /\ receiver \in {"tunnel", "relay"}
    /\ plain \in Packet
    /\ origin \in {"none", "encode", "version0", "binding"}
    /\ stage \in {"idle", "encoded", "sent", "received", "delivered", "dropped"}
    /\ datagram \in Seq(Byte)

(* What decode hands on is, byte for byte, the packet encode was given,     *)
(* whatever salt, padding and framing it travelled in and whatever part of  *)
(* it was enciphered; no packet is lost between the two, and STUN's own     *)
(* messages never reach the tunnel.                                         *)
RoundTrip ==
    /\ stage = "delivered" => origin # "binding" /\ datagram = plain
    /\ stage = "dropped" => origin = "binding"

(* Padding never brings a packet to MAX_DUMMY_LENGTH_TOTAL, and never from  *)
(* one side of obfuscate_bytes to the other, where the receiver would       *)
(* decipher a prefix of a packet that was enciphered whole.                 *)
PaddingBounded ==
    stage = "encoded" /\ Len(datagram) > Len(plain) =>
        /\ Len(datagram) < MaxDummyTotal
        /\ Partial(setting, Len(datagram)) <=> Partial(setting, Len(plain))
=============================================================================
