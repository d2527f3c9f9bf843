-------------------------------- MODULE Crc8 --------------------------------
(* crc8.rs: the table of the Dallas/Maxim CRC-8 and the key stream that     *)
(* xor_data makes of a key and the length of a buffer.                      *)
EXTENDS Integers, Sequences
LOCAL INSTANCE Bitwise

ByteXor == [a \in 0 .. 255 |-> [b \in 0 .. 255 |-> a ^^ b]]

Crc8Table ==
    [b \in 0 .. 255 |->
        LET round[k \in 0 .. 8] ==
                IF k = 0 THEN 0
                ELSE LET crc == round[k - 1]
                         mix == (crc + (b \div 2 ^ (k - 1))) % 2
                     IN IF mix = 1 THEN ByteXor[crc \div 2][140] ELSE crc \div 2
        IN round[8]]

MaxXorKeyLength == 256

\* An empty key leaves the buffer as it is.
KeyStreamOf(key, n) ==
    LET keyLen == IF Len(key) < MaxXorKeyLength THEN Len(key) ELSE MaxXorKeyLength
        adjusted == [k \in 1 .. keyLen |-> (key[k] + n + keyLen) % 256]
        \* The stream from byte lo to byte hi, after the check sum crc: each
        \* byte of it is the check sum the next one starts from.
        span[lo \in 1 .. n, hi \in 1 .. n, crc \in 0 .. 255] ==
            IF lo = hi
            THEN <<Crc8Table[ByteXor[crc][adjusted[((lo - 1) % keyLen) + 1]]]>>
            ELSE LET mid == (lo + hi) \div 2
                     front == span[lo, mid, crc]
                 IN front \o span[mid + 1, hi, front[Len(front)]]
    IN IF keyLen = 0 \/ n = 0 THEN [i \in 1 .. n |-> 0] ELSE span[1, n, 0]
=============================================================================
