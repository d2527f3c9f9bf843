-------------------------- MODULE PacketCodecProofs --------------------------
(* Decoding undoes encoding for every key, setting, packet, salt and        *)
(* padding, and no STUN frame or binding message comes between the two.     *)
EXTENDS PacketCodec, SequenceTheorems, TLAPS

Key == {s.key : s \in Setting}

\* The limits, apart from the settings that are assumed beside them.
LEMMA Limits ==
    /\ MaxDatagram \in Nat /\ MaxDatagram >= 12 /\ MaxDatagram < 256 * 256
    /\ MaxDummyTotal \in Nat /\ MaxDummyTotal <= MaxDatagram
  <1>1. MaxDatagram \in 12 .. 256 * 256 - 1 /\ MaxDummyTotal \in 0 .. MaxDatagram
    BY LimitAssumption
  <1> QED
    BY <1>1

\* A packet of WireGuard: bytes behind a header of four, within a datagram.
LEMMA PacketShape ==
    ASSUME NEW p \in Packet
    PROVE  /\ p \in Seq(Byte) /\ Len(p) \in Nat
           /\ Len(p) >= 4 /\ Len(p) <= MaxDatagram
           /\ Len(p) \in 4 .. MaxDatagram
           /\ p[1] \in KnownType /\ p[2] = 0 /\ p[3] = 0 /\ p[4] = 0
  <1>1. /\ p \in Seq(Byte) /\ Len(p) \in 4 .. MaxDatagram
        /\ p[1] \in KnownType /\ p[2] = 0 /\ p[3] = 0 /\ p[4] = 0
    BY PacketAssumption
  <1> QED
    BY <1>1, Limits

\* A byte string of a given length is a sequence of that length.
LEMMA StringIsSeq ==
    ASSUME NEW n \in Nat, NEW s \in [1 .. n -> Byte]
    PROVE  s \in Seq(Byte) /\ Len(s) = n
  OBVIOUS

LEMMA SeqIsString ==
    ASSUME NEW s \in Seq(Byte)
    PROVE  s \in [1 .. Len(s) -> Byte]
  OBVIOUS

\* xor_data changes no length and leaves bytes bytes.
LEMMA XorDataType ==
    ASSUME NEW buf \in Seq(Byte), NEW key \in Key, NEW n \in 0 .. MaxDatagram
    PROVE  /\ XorData(buf, key, n) \in [1 .. Len(buf) -> Byte]
           /\ XorData(buf, key, n) \in Seq(Byte)
           /\ Len(XorData(buf, key, n)) = Len(buf)
  <1> DEFINE stream == KeyStream(key, n)
  <1>1. stream \in [1 .. n -> Byte]
    BY StreamAssumption DEF Key
  <1>2. Len(buf) \in Nat /\ n \in Nat
    BY Limits
  <1>3. ASSUME NEW i \in 1 .. Len(buf)
        PROVE  (IF i <= n THEN Xor(buf[i], stream[i]) ELSE buf[i]) \in Byte
    <2> HIDE DEF stream
    <2>1. buf[i] \in Byte
      OBVIOUS
    <2>2. CASE i <= n
      <3>1. stream[i] \in Byte
        BY <1>1, <1>2, <2>2
      <3> QED
        BY <2>1, <2>2, <3>1, XorAssumption
    <2> QED
      BY <2>1, <2>2
  <1>4. XorData(buf, key, n) \in [1 .. Len(buf) -> Byte]
    BY <1>3 DEF XorData
  <1> QED
    BY <1>2, <1>4, StringIsSeq

\* xor_data undoes itself when it covers the same bytes with the same key.
LEMMA XorDataTwice ==
    ASSUME NEW buf \in Seq(Byte), NEW key \in Key, NEW n \in 0 .. MaxDatagram
    PROVE  XorData(XorData(buf, key, n), key, n) = buf
  <1> DEFINE stream == KeyStream(key, n)
             once == XorData(buf, key, n)
  <1>0. n \in Nat
    BY Limits
  <1>1. stream \in [1 .. n -> Byte]
    BY StreamAssumption DEF Key
  <1>2. once \in Seq(Byte) /\ Len(once) = Len(buf) /\ once \in [1 .. Len(buf) -> Byte]
    BY XorDataType
  <1>3. ASSUME NEW i \in 1 .. Len(buf)
        PROVE  (IF i <= n THEN Xor(once[i], stream[i]) ELSE once[i]) = buf[i]
    <2>1. once[i] = IF i <= n THEN Xor(buf[i], stream[i]) ELSE buf[i]
      BY DEF XorData
    <2> HIDE DEF stream, once
    <2>2. CASE i <= n
      <3>1. buf[i] \in Byte /\ stream[i] \in Byte
        BY <1>0, <1>1, <2>2
      <3> QED
        BY <2>1, <2>2, <3>1, XorAssumption
    <2> QED
      BY <2>1, <2>2
  <1>4. XorData(once, key, n) = [i \in 1 .. Len(buf) |-> IF i <= n THEN Xor(once[i], stream[i]) ELSE once[i]]
    BY <1>2 DEF XorData
  <1>5. XorData(once, key, n) = [i \in 1 .. Len(buf) |-> buf[i]]
    <2> HIDE DEF stream, once
    <2> QED
      BY <1>3, <1>4
  <1> QED
    BY <1>5
-----------------------------------------------------------------------------
(* encode and decode agree on how much of the datagram is enciphered: the   *)
(* padding never carries it from one side of obfuscate_bytes to the other.  *)
LEMMA PaddingKeepsSide ==
    ASSUME NEW s \in Setting, NEW p \in Packet, NEW n \in DummyLengths(p, s)
    PROVE  /\ n \in Nat /\ n < 256 * 256
           /\ Len(p) + n <= MaxDatagram
           /\ n > 0 => Len(p) + n < MaxDummyTotal
           /\ Partial(s, Len(p) + n) <=> Partial(s, Len(p))
           /\ Covered(s, Len(p) + n) =
                 (IF Partial(s, Len(p)) THEN s.obfuscate_bytes ELSE Len(p) + n)
           /\ Covered(s, Len(p) + n) \in 0 .. MaxDatagram
  <1>1. Len(p) \in Nat /\ Len(p) >= 4 /\ Len(p) <= MaxDatagram
    BY PacketShape
  <1>2. /\ s.obfuscate_bytes \in Nat
        /\ MaxDatagram \in Nat /\ MaxDatagram < 256 * 256
        /\ MaxDummyTotal \in Nat /\ MaxDummyTotal <= MaxDatagram
    BY Limits, SettingAssumption
  <1>3. CASE n = 0
    BY <1>1, <1>2, <1>3 DEF Partial, Covered
  <1>4. CASE n # 0
    <2>1. /\ ~Partial(s, Len(p))
          /\ n \in 1 .. MaxDummyTotal - Len(p) - 1
          /\ s.obfuscate_bytes > 0 => n <= s.obfuscate_bytes - Len(p)
      BY <1>4 DEF DummyLengths
    <2> QED
      BY <1>1, <1>2, <2>1 DEF Partial, Covered
  <1> QED
    BY <1>3, <1>4

\* The header encode writes is a packet's: bytes, and as long as it should be.
LEMMA PaddedType ==
    ASSUME NEW s \in Setting, NEW p \in Packet, NEW salt \in Salt,
           NEW n \in DummyLengths(p, s), NEW dummy \in Noise(n)
    PROVE  /\ Padded(p, salt, dummy) \in Seq(Byte)
           /\ Len(Padded(p, salt, dummy)) = Len(p) + n
           /\ Len(dummy) = n
  <1>1. n \in 0 .. MaxDatagram /\ n < 256 * 256 /\ n \in Nat
    <2>1. n \in Nat /\ n < 256 * 256 /\ Len(p) + n <= MaxDatagram
      BY PaddingKeepsSide
    <2> QED
      BY <2>1, PacketShape, Limits
  <1>2. dummy \in Seq(Byte) /\ Len(dummy) = n /\ dummy \in [1 .. n -> Byte]
    BY <1>1, NoiseAssumption, StringIsSeq
  <1>3. p \in Seq(Byte) /\ Len(p) \in Nat /\ Len(p) >= 4
    BY PacketShape
  <1>4. salt \in Byte
    BY SaltAssumption DEF Byte
  <1>5. n % 256 \in Byte /\ n \div 256 \in Byte
    BY <1>1 DEF Byte
  <1>6. Xor(p[1], salt) \in Byte
    BY <1>3, <1>4, XorAssumption
  <1> DEFINE entry(i) ==
        CASE i = 1 -> Xor(p[1], salt)
          [] i = 2 -> salt
          [] i = 3 -> Len(dummy) % 256
          [] i = 4 -> Len(dummy) \div 256
          [] i > 4 /\ i <= Len(p) -> p[i]
          [] OTHER -> dummy[i - Len(p)]
  <1>7. ASSUME NEW i \in 1 .. Len(p) + n
        PROVE  entry(i) \in Byte
    <2>1. CASE i = 1
      BY <1>6, <2>1
    <2>2. CASE i = 2
      BY <1>4, <2>2
    <2>3. CASE i = 3
      BY <1>2, <1>5, <2>3
    <2>4. CASE i = 4
      BY <1>2, <1>5, <2>4
    <2>5. CASE i > 4 /\ i <= Len(p)
      <3>1. p[i] \in Byte
        BY <1>3, <2>5
      <3> QED
        BY <2>5, <3>1
    <2>6. CASE i > Len(p)
      <3>1. i - Len(p) \in 1 .. n
        BY <1>1, <1>3, <2>6
      <3>2. dummy[i - Len(p)] \in Byte
        BY <1>2, <3>1
      <3>3. entry(i) = dummy[i - Len(p)]
        BY <1>1, <1>3, <2>6
      <3> QED
        BY <3>2, <3>3
    <2> QED
      BY <1>1, <1>3, <2>1, <2>2, <2>3, <2>4, <2>5, <2>6
  <1>8. Padded(p, salt, dummy) = [i \in 1 .. Len(p) + n |-> entry(i)]
    BY <1>2 DEF Padded
  <1>9. Padded(p, salt, dummy) \in [1 .. Len(p) + n -> Byte]
    <2> HIDE DEF entry
    <2> QED
      BY <1>7, <1>8
  <1>10. Len(p) + n \in Nat
    BY <1>1, <1>3
  <1> QED
    BY <1>2, <1>9, <1>10, StringIsSeq
-----------------------------------------------------------------------------
(* What decode hands on for an encoded packet is that packet, whatever salt *)
(* and padding encode chose (obfuscator.rs 78-171).                         *)
LEMMA DecodeUndoesEncode ==
    ASSUME NEW s \in Setting, NEW p \in Packet, NEW salt \in Salt,
           NEW n \in DummyLengths(p, s), NEW dummy \in Noise(n)
    PROVE  LET buf == Encoded(p, s, salt, dummy)
           IN /\ buf \in Seq(Byte)
              /\ Len(buf) = Len(p) + n
              /\ Decoded(buf, s) = p
  <1> DEFINE open == Padded(p, salt, dummy)
             cover == Covered(s, Len(p) + n)
             buf == Encoded(p, s, salt, dummy)
  <1>1. open \in Seq(Byte) /\ Len(open) = Len(p) + n /\ Len(dummy) = n
    BY PaddedType
  <1>2. /\ n \in Nat /\ n < 256 * 256
        /\ cover \in 0 .. MaxDatagram
        /\ cover = IF Partial(s, Len(p)) THEN s.obfuscate_bytes ELSE Len(p) + n
    BY PaddingKeepsSide
  <1>3. p \in Seq(Byte) /\ Len(p) \in Nat /\ Len(p) >= 4
    BY PacketShape
  <1>4. s.key \in Key
    BY DEF Key
  <1>5. buf = XorData(open, s.key, cover)
    BY <1>1, <1>2 DEF Encoded
  <1>6. buf \in Seq(Byte) /\ Len(buf) = Len(p) + n
    <2> HIDE DEF open, cover, buf
    <2> QED
      BY <1>1, <1>2, <1>4, <1>5, XorDataType
  <1>7. XorData(buf, s.key, cover) = open
    <2> HIDE DEF open, cover, buf
    <2> QED
      BY <1>1, <1>2, <1>4, <1>5, XorDataTwice
  <1>8. /\ open[1] = Xor(p[1], salt)
        /\ open[2] = salt
        /\ open[3] = n % 256
        /\ open[4] = n \div 256
        /\ \A i \in 5 .. Len(p) : open[i] = p[i]
    <2> DEFINE last == Len(p) + n
    <2>1. 1 \in 1 .. last /\ 2 \in 1 .. last /\ 3 \in 1 .. last /\ 4 \in 1 .. last
      BY <1>2, <1>3
    <2>2. open[1] = Xor(p[1], salt) /\ open[2] = salt
      BY <1>1, <2>1 DEF Padded
    <2>3. open[3] = n % 256
      BY <1>1, <2>1 DEF Padded
    <2>4. open[4] = n \div 256
      BY <1>1, <2>1 DEF Padded
    <2>5. ASSUME NEW i \in 5 .. Len(p)
          PROVE  open[i] = p[i]
      <3>1. i \in 1 .. last /\ i > 4 /\ i <= Len(p) /\ i # 1 /\ i # 2 /\ i # 3 /\ i # 4
        BY <1>2, <1>3
      <3> QED
        BY <1>1, <3>1 DEF Padded
    <2> QED
      BY <2>2, <2>3, <2>4, <2>5
  <1>9. salt \in 1 .. 255
    BY SaltAssumption
  <1>10. IsObfuscated(open)
    BY <1>8, <1>9 DEF IsObfuscated
  <1>11. Stripped(open) = p
    <2>1. open[3] + 256 * open[4] = n
      <3> HIDE DEF open
      <3> QED
        BY <1>2, <1>8
    <2>2. Xor(open[1], open[2]) = p[1]
      <3> HIDE DEF open
      <3>1. p[1] \in Byte
        BY <1>3
      <3>2. salt \in Byte
        BY <1>9 DEF Byte
      <3> QED
        BY <1>8, <3>1, <3>2, XorAssumption
    <2>3. p[1] \in KnownType /\ p[2] = 0 /\ p[3] = 0 /\ p[4] = 0
      BY PacketShape
    <2> HIDE DEF open
    <2>4. Stripped(open) =
            [i \in 1 .. Len(p) |-> IF i = 1 THEN p[1] ELSE IF i <= 4 THEN 0 ELSE open[i]]
      BY <1>1, <1>2, <1>3, <2>1, <2>2, <2>3 DEF Stripped
    <2>5. ASSUME NEW i \in 1 .. Len(p)
          PROVE  (IF i = 1 THEN p[1] ELSE IF i <= 4 THEN 0 ELSE open[i]) = p[i]
      <3>1. CASE i > 4
        <4>1. open[i] = p[i]
          BY <1>3, <1>8, <3>1
        <4> QED
          BY <3>1, <4>1
      <3>2. CASE i = 1
        BY <3>2
      <3>3. CASE i = 2 \/ i = 3 \/ i = 4
        BY <2>3, <3>3
      <3> QED
        BY <1>3, <3>1, <3>2, <3>3
    <2>6. Stripped(open) = [i \in 1 .. Len(p) |-> p[i]]
      BY <2>4, <2>5
    <2> QED
      BY <1>3, <2>6
  <1>12. Decoded(buf, s) = p
    <2> HIDE DEF open, buf
    <2>1. Len(buf) >= 4
      BY <1>2, <1>3, <1>6
    <2>2. XorData(buf, s.key, Covered(s, Len(buf))) = open
      BY <1>6, <1>7
    <2> QED
      BY <1>10, <1>11, <2>1, <2>2 DEF Decoded
  <1> QED
    BY <1>6, <1>12

\* A packet of protocol version 0 is taken for what it is (obfuscator.rs 150-153).
LEMMA DecodeUndoesVersion0 ==
    ASSUME NEW s \in Setting, NEW p \in Packet
    PROVE  LET buf == XorData(p, s.key, Covered(s, Len(p)))
           IN /\ buf \in Seq(Byte)
              /\ Len(buf) = Len(p)
              /\ Decoded(buf, s) = p
  <1> DEFINE cover == Covered(s, Len(p))
             buf == XorData(p, s.key, cover)
  <1>1. /\ p \in Seq(Byte) /\ Len(p) \in Nat /\ Len(p) >= 4 /\ Len(p) <= MaxDatagram
        /\ p[1] \in KnownType /\ p[2] = 0 /\ p[3] = 0 /\ p[4] = 0
    BY PacketShape
  <1>2. cover \in 0 .. MaxDatagram
    BY <1>1, Limits, SettingAssumption DEF Covered, Partial
  <1>3. s.key \in Key
    BY DEF Key
  <1> HIDE DEF cover
  <1>4. buf \in Seq(Byte) /\ Len(buf) = Len(p)
    BY <1>1, <1>2, <1>3, XorDataType
  <1>5. XorData(buf, s.key, cover) = p
    BY <1>1, <1>2, <1>3, XorDataTwice
  <1>6. ~IsObfuscated(p)
    BY <1>1 DEF IsObfuscated
  <1>7. XorData(buf, s.key, Covered(s, Len(buf))) = p
    BY <1>4, <1>5 DEF cover
  <1>8. Decoded(buf, s) = p
    <2> HIDE DEF buf
    <2> QED
      BY <1>1, <1>4, <1>6, <1>7 DEF Decoded
  <1> QED
    BY <1>4, <1>8 DEF cover
-----------------------------------------------------------------------------
\* Strings of n bytes, and what it is for c to be such an a followed by such a b.
Bytes(n) == [1 .. n -> Byte]
Joins(c, n, a, m, b) ==
    /\ c \in Bytes(n + m)
    /\ \A i \in 1 .. n : c[i] = a[i]
    /\ \A i \in n + 1 .. n + m : c[i] = b[i - n]

(* What is appended to a string of bytes leaves its entries where they were *)
(* and starts after them.                                                   *)
LEMMA Appended ==
    ASSUME NEW n \in Nat, NEW m \in Nat, NEW a \in Bytes(n), NEW b \in Bytes(m)
    PROVE  Joins(a \o b, n, a, m, b)
  <1>1. a \in Seq(Byte) /\ Len(a) = n /\ b \in Seq(Byte) /\ Len(b) = m
    BY StringIsSeq DEF Bytes
  <1>2. a \o b \in Seq(Byte) /\ Len(a \o b) = n + m
    BY <1>1
  <1>3. a \o b \in [1 .. n + m -> Byte]
    BY <1>2, SeqIsString
  <1>4. \A i \in 1 .. n : (a \o b)[i] = a[i]
    BY <1>1
  <1>5. \A i \in n + 1 .. n + m : (a \o b)[i] = b[i - n]
    BY <1>1
  <1> QED
    BY <1>3, <1>4, <1>5 DEF Joins, Bytes

LEMMA TwoBytes ==
    ASSUME NEW a \in Byte, NEW b \in Byte
    PROVE  <<a, b>> \in Bytes(2) /\ <<a, b>>[1] = a /\ <<a, b>>[2] = b
  BY DEF Bytes

\* A length up to 65535 splits into two bytes and is put together again.
LEMMA SplitLength ==
    ASSUME NEW n \in Nat, n < 256 * 256
    PROVE  n \div 256 \in Byte /\ n % 256 \in Byte /\ 256 * (n \div 256) + (n % 256) = n
  BY DEF Byte

LEMMA CookieType ==
    Cookie \in Bytes(4)
  <1>1. 33 \in Byte /\ 18 \in Byte /\ 164 \in Byte /\ 66 \in Byte
    BY DEF Byte
  <1> QED
    BY <1>1 DEF Cookie, Bytes

(* The first twenty bytes of every message of stun.rs: a type, a length, the *)
(* magic cookie and a transaction number.                                    *)
IsPrefixOf(h, type) ==
    /\ h \in Bytes(20)
    /\ h[1] = type[1] /\ h[2] = type[2]
    /\ \A i \in 1 .. 4 : h[i + 4] = Cookie[i]

LEMMA StunPrefix ==
    ASSUME NEW type \in Bytes(2), NEW len \in Bytes(2), NEW txid \in Bytes(12)
    PROVE  IsPrefixOf(type \o len \o Cookie \o txid, type)
  <1> DEFINE h1 == type \o len
             h2 == h1 \o Cookie
             h3 == h2 \o txid
  <1>0. 2 \in Nat /\ 4 \in Nat /\ 8 \in Nat /\ 12 \in Nat /\ 2 + 2 = 4 /\ 4 + 4 = 8 /\ 8 + 12 = 20
    OBVIOUS
  <1>1. Joins(h1, 2, type, 2, len)
    BY <1>0, Appended
  <1> HIDE DEF h1
  <1>2. h1 \in Bytes(4) /\ \A i \in 1 .. 2 : h1[i] = type[i]
    BY <1>0, <1>1 DEF Joins
  <1>3. Joins(h2, 4, h1, 4, Cookie)
    BY <1>0, <1>2, CookieType, Appended
  <1> HIDE DEF h2
  <1>4. /\ h2 \in Bytes(8)
        /\ \A i \in 1 .. 4 : h2[i] = h1[i]
        /\ \A i \in 5 .. 8 : h2[i] = Cookie[i - 4]
    BY <1>3 DEF Joins
  <1>5. Joins(h3, 8, h2, 12, txid)
    BY <1>0, <1>4, Appended
  <1> HIDE DEF h3
  <1>6. h3 \in Bytes(20) /\ \A i \in 1 .. 8 : h3[i] = h2[i]
    BY <1>0, <1>5 DEF Joins
  <1>7. h3[1] = type[1] /\ h3[2] = type[2]
    BY <1>2, <1>4, <1>6
  <1>8. \A i \in 1 .. 4 : h3[i + 4] = Cookie[i]
    <2> TAKE i \in 1 .. 4
    <2>1. i + 4 \in 1 .. 8 /\ i + 4 \in 5 .. 8 /\ (i + 4) - 4 = i
      OBVIOUS
    <2> QED
      BY <1>4, <1>6, <2>1
  <1> QED
    BY <1>6, <1>7, <1>8 DEF h1, h2, h3, IsPrefixOf
(* stun_unwrap_data_indication undoes stun_wrap_data_indication, for every   *)
(* payload whose length its length field can hold (stun.rs 38-88).           *)
LEMMA UnwrapUndoesWrap ==
    ASSUME NEW len \in Nat, len < 256 * 256, NEW payload \in Bytes(len), NEW txid \in Bytes(12)
    PROVE  /\ Wrapped(payload, txid) \in Seq(Byte)
           /\ Unwrapped(Wrapped(payload, txid)) = payload
  <1> DEFINE zero == <<0, 0>>
             size == <<len \div 256, len % 256>>
             h3 == DataIndication \o zero \o Cookie \o txid
             h4 == h3 \o AttrData
             head == h4 \o size
             buf == head \o payload
  <1>0. /\ len \in Nat /\ 2 \in Nat /\ 20 \in Nat /\ 22 \in Nat /\ 24 \in Nat
        /\ 20 + 2 = 22 /\ 22 + 2 = 24
    OBVIOUS
  <1>1. zero \in Bytes(2) /\ DataIndication \in Bytes(2) /\ AttrData \in Bytes(2)
    <2>1. 0 \in Byte /\ 1 \in Byte /\ 21 \in Byte /\ 19 \in Byte
      BY DEF Byte
    <2> QED
      BY <2>1, TwoBytes DEF DataIndication, AttrData
  <1>2. size \in Bytes(2) /\ size[1] = len \div 256 /\ size[2] = len % 256
    BY SplitLength, TwoBytes
  <1>3. Len(payload) = len
    BY <1>0, StringIsSeq DEF Bytes
  <1> HIDE DEF zero, size
  <1>4. IsPrefixOf(h3, DataIndication)
    BY <1>1, StunPrefix
  <1> HIDE DEF h3
  <1>5. Joins(h4, 20, h3, 2, AttrData)
    BY <1>0, <1>1, <1>4, Appended DEF IsPrefixOf
  <1> HIDE DEF h4
  <1>6. h4 \in Bytes(22)
    BY <1>0, <1>5 DEF Joins
  <1>7. Joins(head, 22, h4, 2, size)
    BY <1>0, <1>2, <1>6, Appended
  <1> HIDE DEF head
  <1>8. head \in Bytes(24)
    BY <1>0, <1>7 DEF Joins
  <1>9. Joins(buf, 24, head, len, payload)
    BY <1>0, <1>8, Appended
  <1>10. Wrapped(payload, txid) = buf
    <2>1. head = Header(txid, len)
      BY DEF head, h4, h3, zero, size, Header
    <2>2. ~(Len(payload) >= 256 * 256)
      BY <1>0, <1>3
    <2> QED
      BY <1>3, <2>1, <2>2 DEF Wrapped
  <1> HIDE DEF buf
  <1>11. buf \in Seq(Byte) /\ Len(buf) = 24 + len
    <2>1. buf \in [1 .. 24 + len -> Byte] /\ 24 + len \in Nat
      BY <1>0, <1>9 DEF Joins, Bytes
    <2> QED
      BY <2>1, StringIsSeq
  <1>12. /\ \A i \in 1 .. 20 : buf[i] = h3[i]
         /\ buf[21] = AttrData[1] /\ buf[22] = AttrData[2]
         /\ buf[23] = size[1] /\ buf[24] = size[2]
    <2>1. \A i \in 1 .. 24 : buf[i] = head[i]
      BY <1>9 DEF Joins
    <2>2. (\A i \in 1 .. 22 : head[i] = h4[i]) /\ head[23] = size[1] /\ head[24] = size[2]
      BY <1>7 DEF Joins
    <2>3. (\A i \in 1 .. 20 : h4[i] = h3[i]) /\ h4[21] = AttrData[1] /\ h4[22] = AttrData[2]
      BY <1>5 DEF Joins
    <2> QED
      BY <2>1, <2>2, <2>3
  <1>13. 256 * buf[23] + buf[24] = len
    BY <1>2, <1>12, SplitLength
  <1>14. IsStunPacket(buf)
    <2>1. ASSUME NEW i \in 1 .. 4
          PROVE  buf[i + 4] = Cookie[i]
      <3>1. i + 4 \in 1 .. 20
        OBVIOUS
      <3> QED
        BY <1>4, <1>12, <3>1 DEF IsPrefixOf
    <2>2. Len(buf) >= 8
      BY <1>0, <1>11
    <2> QED
      BY <2>1, <2>2 DEF IsStunPacket
  <1>15. <<buf[1], buf[2]>> = DataIndication /\ <<buf[21], buf[22]>> = AttrData
    <2>1. buf[1] = DataIndication[1] /\ buf[2] = DataIndication[2]
      BY <1>4, <1>12 DEF IsPrefixOf
    <2> QED
      BY <1>12, <2>1 DEF DataIndication, AttrData
  <1>16. Len(buf) >= 24 /\ 24 + len <= Len(buf)
    BY <1>0, <1>11
  <1>17. Unwrapped(buf) = SubSeq(buf, 25, 24 + len)
    BY <1>13, <1>14, <1>15, <1>16 DEF Unwrapped
  <1>18. SubSeq(buf, 25, 24 + len) = payload
    <2>1. SubSeq(buf, 25, 24 + len) = [i \in 1 .. len |-> buf[24 + i]]
      BY <1>0, <1>11
    <2>2. ASSUME NEW i \in 1 .. len
          PROVE  buf[24 + i] = payload[i]
      <3>1. 24 + i \in 24 + 1 .. 24 + len /\ (24 + i) - 24 = i
        BY <1>0
      <3> QED
        BY <1>9, <3>1 DEF Joins
    <2>3. payload = [i \in 1 .. len |-> payload[i]]
      BY DEF Bytes
    <2> QED
      BY <2>1, <2>2, <2>3
  <1> QED
    BY <1>10, <1>11, <1>17, <1>18

\* A binding message is STUN and carries no data (stun.rs 90-114).
LEMMA BindingCarriesNothing ==
    ASSUME NEW type \in {BindingRequest, BindingResponse},
           NEW txid \in [1 .. 12 -> Byte], NEW crc \in [1 .. 4 -> Byte]
    PROVE  LET buf == Binding(type, txid, crc)
           IN buf \in Seq(Byte) /\ IsStunPacket(buf) /\ Unwrapped(buf) = None
  <1> DEFINE size == <<0, 8>>
             attr == <<128, 40, 0, 4>>
             h3 == type \o size \o Cookie \o txid
             h4 == h3 \o attr
             buf == h4 \o crc
  <1>0. /\ 20 \in Nat /\ 4 \in Nat /\ 24 \in Nat /\ 28 \in Nat
        /\ 20 + 4 = 24 /\ 24 + 4 = 28
    OBVIOUS
  <1>1. /\ 0 \in Byte /\ 1 \in Byte /\ 8 \in Byte /\ 4 \in Byte /\ 40 \in Byte /\ 128 \in Byte
    BY DEF Byte
  <1>2. size \in Bytes(2) /\ type \in Bytes(2)
    BY <1>1, TwoBytes DEF BindingRequest, BindingResponse
  <1>3. type[2] = 1
    BY DEF BindingRequest, BindingResponse
  <1>4. attr \in Bytes(4)
    BY <1>1 DEF Bytes
  <1>5. txid \in Bytes(12) /\ crc \in Bytes(4)
    BY DEF Bytes
  <1> HIDE DEF size, attr
  <1>6. IsPrefixOf(h3, type)
    BY <1>2, <1>5, StunPrefix
  <1> HIDE DEF h3
  <1>7. Joins(h4, 20, h3, 4, attr)
    BY <1>0, <1>4, <1>6, Appended DEF IsPrefixOf
  <1> HIDE DEF h4
  <1>8. h4 \in Bytes(24)
    BY <1>0, <1>7 DEF Joins
  <1>9. Joins(buf, 24, h4, 4, crc)
    BY <1>0, <1>5, <1>8, Appended
  <1>10. Binding(type, txid, crc) = buf
    BY DEF Binding, h3, h4, size, attr
  <1> HIDE DEF buf
  <1>11. buf \in Seq(Byte) /\ Len(buf) = 28
    <2>1. buf \in [1 .. 28 -> Byte]
      BY <1>0, <1>9 DEF Joins, Bytes
    <2> QED
      BY <1>0, <2>1, StringIsSeq
  <1>12. \A i \in 1 .. 20 : buf[i] = h3[i]
    BY <1>7, <1>9 DEF Joins
  <1>13. IsStunPacket(buf)
    <2>1. ASSUME NEW i \in 1 .. 4
          PROVE  buf[i + 4] = Cookie[i]
      <3>1. i + 4 \in 1 .. 20
        OBVIOUS
      <3> QED
        BY <1>6, <1>12, <3>1 DEF IsPrefixOf
    <2>2. Len(buf) >= 8
      BY <1>11
    <2> QED
      BY <2>1, <2>2 DEF IsStunPacket
  <1>14. buf[2] = 1
    BY <1>3, <1>6, <1>12 DEF IsPrefixOf
  <1>15. <<buf[1], buf[2]>> # DataIndication
    BY <1>14 DEF DataIndication
  <1>16. Unwrapped(buf) = None
    BY <1>15 DEF Unwrapped
  <1> QED
    BY <1>10, <1>11, <1>13, <1>16
-----------------------------------------------------------------------------
(* The inductive invariant: at every stage but the ends the datagram still  *)
(* decodes to the packet, or is a binding message that the receiver drops.  *)
Carries(buf) == buf \in Seq(Byte) /\ Decoded(buf, setting) = plain

EncodedCarries ==
    stage = "encoded" =>
        /\ origin \in {"encode", "version0"}
        /\ Carries(datagram)
        /\ Len(datagram) < 256 * 256

SentCarries ==
    stage = "sent" =>
        \/ /\ origin = "binding"
           /\ setting.stun
           /\ IsStunPacket(datagram) /\ Unwrapped(datagram) = None
        \/ /\ origin \in {"encode", "version0"}
           /\ setting.stun => Carries(Unwrapped(datagram))
           /\ ~setting.stun => Carries(datagram)

ReceivedCarries ==
    stage = "received" => origin # "binding" /\ Carries(datagram)

CInv ==
    /\ CodecTypeOK
    /\ EncodedCarries
    /\ SentCarries
    /\ ReceivedCarries
    /\ RoundTrip
    /\ PaddingBounded

LEMMA InitCInv == Init => CInv
  <1> SUFFICES ASSUME Init PROVE CInv
    OBVIOUS
  <1>1. CodecTypeOK
    BY DEF Init, CodecTypeOK
  <1>2. EncodedCarries /\ SentCarries /\ ReceivedCarries /\ RoundTrip /\ PaddingBounded
    BY DEF Init, EncodedCarries, SentCarries, ReceivedCarries, RoundTrip, PaddingBounded
  <1> QED
    BY <1>1, <1>2 DEF CInv

\* Strings of random bytes as long as stun.rs draws them.
LEMMA NoiseType ==
    /\ \A txid \in Noise(12) : txid \in Bytes(12) /\ txid \in [1 .. 12 -> Byte]
    /\ \A crc \in Noise(4) : crc \in [1 .. 4 -> Byte]
  <1>1. 12 \in 0 .. MaxDatagram /\ 4 \in 0 .. MaxDatagram
    BY Limits
  <1> QED
    BY <1>1, NoiseAssumption DEF Bytes

LEMMA PlainType ==
    ASSUME CodecTypeOK
    PROVE  /\ plain \in Packet /\ plain \in Seq(Byte) /\ setting \in Setting
           /\ Len(plain) \in Nat /\ Len(plain) < 256 * 256
           /\ setting.stun \in BOOLEAN /\ None \notin Seq(Byte)
  <1>1. plain \in Packet /\ setting \in Setting
    BY DEF CodecTypeOK
  <1>2. plain \in Seq(Byte) /\ Len(plain) \in 4 .. MaxDatagram
    BY <1>1, PacketShape
  <1>3. MaxDatagram \in Nat /\ MaxDatagram < 256 * 256
    BY Limits
  <1>4. Len(plain) \in Nat /\ Len(plain) < 256 * 256
    BY <1>2, <1>3
  <1>5. setting.stun \in BOOLEAN /\ None \notin Seq(Byte)
    BY <1>1, SettingAssumption, NoneAssumption
  <1> QED
    BY <1>1, <1>2, <1>4, <1>5

\* Both encoders leave a datagram that decodes to the packet.
LEMMA EncodeKeepsCInv == CInv /\ Encode => CInv'
  <1> SUFFICES ASSUME CInv, Encode PROVE CInv'
    OBVIOUS
  <1>1. CodecTypeOK
    BY DEF CInv
  <1>2. PICK salt \in Salt, n \in DummyLengths(plain, setting) :
           \E dummy \in Noise(n) : datagram' = Encoded(plain, setting, salt, dummy)
    BY DEF Encode
  <1>3. PICK dummy \in Noise(n) : datagram' = Encoded(plain, setting, salt, dummy)
    BY <1>2
  <1>4. plain \in Packet /\ setting \in Setting
    BY <1>1, PlainType
  <1>5. /\ datagram' \in Seq(Byte)
        /\ Len(datagram') = Len(plain) + n
        /\ Decoded(datagram', setting) = plain
    BY <1>3, <1>4, DecodeUndoesEncode
  <1>6. /\ n \in Nat
        /\ Len(plain) + n <= MaxDatagram
        /\ n > 0 => Len(plain) + n < MaxDummyTotal
        /\ Partial(setting, Len(plain) + n) <=> Partial(setting, Len(plain))
    BY <1>4, PaddingKeepsSide
  <1>7. /\ stage' = "encoded" /\ origin' = "encode"
        /\ setting' = setting /\ receiver' = receiver /\ plain' = plain
    BY DEF Encode
  <1>8. CodecTypeOK'
    BY <1>1, <1>5, <1>7 DEF CodecTypeOK
  <1>9. MaxDatagram \in Nat /\ MaxDatagram < 256 * 256 /\ Len(plain) \in Nat
    BY <1>1, PlainType, Limits
  <1>10. EncodedCarries'
    <2>1. Len(datagram') < 256 * 256
      BY <1>5, <1>6, <1>9
    <2> QED
      BY <1>5, <1>7, <2>1 DEF EncodedCarries, Carries
  <1>11. PaddingBounded'
    <2>1. Len(datagram') > Len(plain) => n > 0
      BY <1>5, <1>6, <1>9
    <2>2. Partial(setting, Len(datagram')) <=> Partial(setting, Len(plain))
      BY <1>5, <1>6
    <2> QED
      BY <1>5, <1>6, <1>7, <2>1, <2>2 DEF PaddingBounded
  <1>12. SentCarries' /\ ReceivedCarries' /\ RoundTrip'
    BY <1>7 DEF SentCarries, ReceivedCarries, RoundTrip
  <1> QED
    BY <1>8, <1>10, <1>11, <1>12 DEF CInv

LEMMA EncodeVersion0KeepsCInv == CInv /\ EncodeVersion0 => CInv'
  <1> SUFFICES ASSUME CInv, EncodeVersion0 PROVE CInv'
    OBVIOUS
  <1>1. CodecTypeOK
    BY DEF CInv
  <1>2. plain \in Packet /\ setting \in Setting /\ Len(plain) \in Nat /\ Len(plain) < 256 * 256
    BY <1>1, PlainType
  <1>3. datagram' = XorData(plain, setting.key, Covered(setting, Len(plain)))
    BY DEF EncodeVersion0
  <1>4. /\ datagram' \in Seq(Byte)
        /\ Len(datagram') = Len(plain)
        /\ Decoded(datagram', setting) = plain
    BY <1>2, <1>3, DecodeUndoesVersion0
  <1>5. /\ stage' = "encoded" /\ origin' = "version0"
        /\ setting' = setting /\ receiver' = receiver /\ plain' = plain
    BY DEF EncodeVersion0
  <1>6. CodecTypeOK'
    BY <1>1, <1>4, <1>5 DEF CodecTypeOK
  <1>7. EncodedCarries'
    BY <1>2, <1>4, <1>5 DEF EncodedCarries, Carries
  <1>8. PaddingBounded'
    BY <1>2, <1>4, <1>5 DEF PaddingBounded
  <1>9. SentCarries' /\ ReceivedCarries' /\ RoundTrip'
    BY <1>5 DEF SentCarries, ReceivedCarries, RoundTrip
  <1> QED
    BY <1>6, <1>7, <1>8, <1>9 DEF CInv

\* A frame holds the datagram it was made of, whole.
LEMMA FrameKeepsCInv == CInv /\ Frame => CInv'
  <1> SUFFICES ASSUME CInv, Frame PROVE CInv'
    OBVIOUS
  <1>1. CodecTypeOK /\ stage = "encoded"
    BY DEF CInv, Frame
  <1>2. /\ origin \in {"encode", "version0"}
        /\ datagram \in Seq(Byte) /\ Len(datagram) < 256 * 256
        /\ Decoded(datagram, setting) = plain
    BY <1>1 DEF CInv, EncodedCarries, Carries
  <1>3. /\ stage' = "sent"
        /\ setting' = setting /\ receiver' = receiver /\ plain' = plain /\ origin' = origin
    BY DEF Frame
  <1>4. /\ datagram' \in Seq(Byte)
        /\ setting.stun => Carries(Unwrapped(datagram))'
        /\ ~setting.stun => Carries(datagram)'
    <2>1. CASE setting.stun
      <3>1. PICK txid \in Noise(12) : datagram' = Wrapped(datagram, txid)
        BY <2>1 DEF Frame
      <3>2. datagram \in Bytes(Len(datagram)) /\ Len(datagram) \in Nat
        BY <1>2, SeqIsString DEF Bytes
      <3>3. txid \in Bytes(12)
        BY NoiseType
      <3>4. datagram' \in Seq(Byte) /\ Unwrapped(datagram') = datagram
        BY <1>2, <3>1, <3>2, <3>3, UnwrapUndoesWrap
      <3> QED
        BY <1>2, <1>3, <2>1, <3>4 DEF Carries
    <2>2. CASE ~setting.stun
      <3>1. datagram' = datagram
        BY <2>2 DEF Frame
      <3> QED
        BY <1>2, <1>3, <2>2, <3>1 DEF Carries
    <2> QED
      BY <2>1, <2>2
  <1>5. CodecTypeOK'
    BY <1>1, <1>3, <1>4 DEF CodecTypeOK
  <1>6. SentCarries'
    BY <1>2, <1>3, <1>4 DEF SentCarries
  <1>7. EncodedCarries' /\ ReceivedCarries' /\ RoundTrip' /\ PaddingBounded'
    BY <1>3 DEF EncodedCarries, ReceivedCarries, RoundTrip, PaddingBounded
  <1> QED
    BY <1>5, <1>6, <1>7 DEF CInv

LEMMA SendBindingKeepsCInv == CInv /\ SendBinding => CInv'
  <1> SUFFICES ASSUME CInv, SendBinding PROVE CInv'
    OBVIOUS
  <1>1. CodecTypeOK /\ setting.stun
    BY DEF CInv, SendBinding
  <1>2. PICK type \in {BindingRequest, BindingResponse}, txid \in Noise(12), crc \in Noise(4) :
           datagram' = Binding(type, txid, crc)
    BY DEF SendBinding
  <1>3. txid \in [1 .. 12 -> Byte] /\ crc \in [1 .. 4 -> Byte]
    BY NoiseType
  <1>4. datagram' \in Seq(Byte) /\ IsStunPacket(datagram') /\ Unwrapped(datagram') = None
    BY <1>2, <1>3, BindingCarriesNothing
  <1>5. /\ stage' = "sent" /\ origin' = "binding"
        /\ setting' = setting /\ receiver' = receiver /\ plain' = plain
    BY DEF SendBinding
  <1>6. CodecTypeOK'
    BY <1>1, <1>4, <1>5 DEF CodecTypeOK
  <1>7. SentCarries'
    BY <1>1, <1>4, <1>5 DEF SentCarries
  <1>8. EncodedCarries' /\ ReceivedCarries' /\ RoundTrip' /\ PaddingBounded'
    BY <1>5 DEF EncodedCarries, ReceivedCarries, RoundTrip, PaddingBounded
  <1> QED
    BY <1>6, <1>7, <1>8 DEF CInv

\* Both receivers keep what carries a packet and drop what is a binding message.
LEMMA ReceiveKeepsCInv == CInv /\ Receive => CInv'
  <1> SUFFICES ASSUME CInv, Receive PROVE CInv'
    OBVIOUS
  <1>1. CodecTypeOK /\ SentCarries /\ stage = "sent"
    BY DEF CInv, Receive
  <1>2. setting' = setting /\ receiver' = receiver /\ plain' = plain /\ origin' = origin
    BY DEF Receive
  <1>3. setting.stun \in BOOLEAN /\ None \notin Seq(Byte)
    BY <1>1, PlainType
  <1>4. \/ /\ stage' = "received" /\ Carries(datagram)' /\ origin # "binding"
        \/ /\ stage' = "dropped" /\ datagram' = <<>> /\ origin = "binding"
    <2>1. CASE origin = "binding"
      <3>1. setting.stun /\ IsStunPacket(datagram) /\ Unwrapped(datagram) = None
        BY <1>1, <2>1 DEF SentCarries
      <3> QED
        BY <2>1, <3>1 DEF Receive, Drop
    <2>2. CASE origin # "binding" /\ setting.stun
      <3>1. Unwrapped(datagram) \in Seq(Byte) /\ Decoded(Unwrapped(datagram), setting) = plain
        BY <1>1, <2>2 DEF SentCarries, Carries
      <3>2. stage' = "received" /\ datagram' = Unwrapped(datagram)
        BY <1>3, <2>2, <3>1 DEF Receive
      <3> QED
        BY <1>2, <2>2, <3>1, <3>2 DEF Carries
    <2>3. CASE origin # "binding" /\ ~setting.stun
      <3>1. datagram \in Seq(Byte) /\ Decoded(datagram, setting) = plain
        BY <1>1, <2>3 DEF SentCarries, Carries
      <3>2. stage' = "received" /\ datagram' = datagram
        BY <2>3 DEF Receive
      <3> QED
        BY <1>2, <2>3, <3>1, <3>2 DEF Carries
    <2> QED
      BY <1>3, <2>1, <2>2, <2>3
  <1>5. datagram' \in Seq(Byte)
    <2>1. <<>> \in Seq(Byte)
      OBVIOUS
    <2>2. Carries(datagram)' => datagram' \in Seq(Byte)
      BY DEF Carries
    <2> QED
      BY <1>4, <2>1, <2>2
  <1>6. CodecTypeOK'
    BY <1>1, <1>2, <1>4, <1>5 DEF CodecTypeOK
  <1>7. ReceivedCarries' /\ RoundTrip'
    BY <1>2, <1>4 DEF ReceivedCarries, RoundTrip
  <1>8. EncodedCarries' /\ SentCarries' /\ PaddingBounded'
    BY <1>4 DEF EncodedCarries, SentCarries, PaddingBounded
  <1> QED
    BY <1>6, <1>7, <1>8 DEF CInv

LEMMA DecodeKeepsCInv == CInv /\ Decode => CInv'
  <1> SUFFICES ASSUME CInv, Decode PROVE CInv'
    OBVIOUS
  <1>1. CodecTypeOK /\ stage = "received"
    BY DEF CInv, Decode
  <1>2. Decoded(datagram, setting) = plain /\ origin # "binding"
    BY <1>1 DEF CInv, ReceivedCarries, Carries
  <1>3. plain \in Seq(Byte) /\ plain # None
    BY <1>1, PlainType
  <1>4. /\ stage' = "delivered" /\ datagram' = plain
        /\ setting' = setting /\ receiver' = receiver /\ plain' = plain /\ origin' = origin
    BY <1>2, <1>3 DEF Decode
  <1>5. CodecTypeOK'
    BY <1>1, <1>3, <1>4 DEF CodecTypeOK
  <1>6. RoundTrip'
    BY <1>2, <1>4 DEF RoundTrip
  <1>7. EncodedCarries' /\ SentCarries' /\ ReceivedCarries' /\ PaddingBounded'
    BY <1>4 DEF EncodedCarries, SentCarries, ReceivedCarries, PaddingBounded
  <1> QED
    BY <1>5, <1>6, <1>7 DEF CInv

LEMMA StutterKeepsCInv == CInv /\ UNCHANGED vars => CInv'
  <1> SUFFICES ASSUME CInv, UNCHANGED vars PROVE CInv'
    OBVIOUS
  <1>1. /\ setting' = setting /\ receiver' = receiver /\ plain' = plain
        /\ origin' = origin /\ stage' = stage /\ datagram' = datagram
    BY DEF vars
  <1> QED
    BY <1>1 DEF CInv, CodecTypeOK, EncodedCarries, SentCarries, ReceivedCarries, Carries,
                RoundTrip, PaddingBounded

THEOREM CodecInvariant == Spec => []CInv
  <1>1. CInv /\ [Next]_vars => CInv'
    BY EncodeKeepsCInv, EncodeVersion0KeepsCInv, FrameKeepsCInv, SendBindingKeepsCInv,
       ReceiveKeepsCInv, DecodeKeepsCInv, StutterKeepsCInv DEF Next
  <1> QED
    BY InitCInv, <1>1, PTL DEF Spec

(* For every key, setting, packet, salt and padding the packet handed on is *)
(* the packet sent; only STUN's own messages are dropped.                   *)
THEOREM DecodeUndoesEncodeAlways == Spec => []RoundTrip
  <1>1. CInv => RoundTrip
    BY DEF CInv
  <1> QED
    BY CodecInvariant, <1>1, PTL

(* For every setting and packet the padding stays below its total and on    *)
(* the packet's side of obfuscate_bytes.                                    *)
THEOREM PaddingStaysBounded == Spec => []PaddingBounded
  <1>1. CInv => PaddingBounded
    BY DEF CInv
  <1> QED
    BY CodecInvariant, <1>1, PTL

\* Every buffer of the codec is a string of bytes.
THEOREM CodecTypeCorrect == Spec => []CodecTypeOK
  <1>1. CInv => CodecTypeOK
    BY DEF CInv
  <1> QED
    BY CodecInvariant, <1>1, PTL
=============================================================================
