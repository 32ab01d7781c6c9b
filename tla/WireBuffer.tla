----------------------------- MODULE WireBuffer -----------------------------
(***************************************************************************)
(* The integers of the wire, as src/util/buffer.rs and the local readers   *)
(* of src/raknet/protocol.rs take them from bytes and put them into bytes. *)
(* Bytes are a sequence; an offset counts the bytes in front of a value.   *)
(* TLC's integers end at 2^31 - 1: an unsigned 32-bit value that is larger *)
(* is Huge, which is on the same side of every limit the code compares a   *)
(* value with.                                                             *)
(***************************************************************************)
EXTENDS Naturals, Sequences

Huge == 2147483647

Has(data, offset, n) == offset <= Len(data) /\ n <= Len(data) - offset
Slice(data, offset, n) == SubSeq(data, offset + 1, offset + n)

(***************************************************************************)
(* Fixed widths.  A value to be written is below 2^31.                     *)
(***************************************************************************)
U16Be(v) == <<v \div 256, v % 256>>
U24Le(v) == <<v % 256, (v \div 256) % 256, (v \div 65536) % 256>>
U32Le(v) == U24Le(v) \o <<v \div 16777216>>
Backwards(s) == [i \in DOMAIN s |-> s[Len(s) + 1 - i]]
U32Be(v) == Backwards(U32Le(v))

AsU16Be(data, offset) == data[offset + 1] * 256 + data[offset + 2]
AsU24Le(data, offset) == data[offset + 1] + data[offset + 2] * 256 + data[offset + 3] * 65536
AsU32Le(data, offset) ==
    IF data[offset + 4] >= 128 THEN Huge
    ELSE AsU24Le(data, offset) + data[offset + 4] * 16777216
AsU32Be(data, offset) == AsU32Le(Backwards(Slice(data, offset, 4)), 0)

(***************************************************************************)
(* Variable length: seven bits to a byte, the last one below 128.          *)
(***************************************************************************)
VarInt(value) ==
    LET from[v \in 0..Huge] == IF v > 127 THEN <<128 + (v % 128)>> \o from[v \div 128] ELSE <<v>>
    IN  from[value]

VarIntBytes == 5

(* The length of the variable integer at an offset, 0 if there is none.     *)
VarIntEnd(data, offset) ==
    LET ends == {i \in 1..VarIntBytes : Has(data, offset, i) /\ data[offset + i] < 128}
    IN  IF ends = {} THEN 0 ELSE CHOOSE i \in ends : \A j \in ends : i <= j

(* The shift drops what the fifth byte holds above 32 bits.                 *)
AsVarInt(data, offset) ==
    LET digit[i \in 1..4] ==
            IF i > VarIntEnd(data, offset) THEN 0 ELSE data[offset + i] % 128
        low == digit[1] + 128 * (digit[2] + 128 * (digit[3] + 128 * digit[4]))
        fifth == IF VarIntEnd(data, offset) = 5 THEN data[offset + 5] % 16 ELSE 0
    IN  IF fifth >= 8 THEN Huge ELSE low + fifth * 268435456
=============================================================================
