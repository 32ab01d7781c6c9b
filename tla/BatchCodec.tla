----------------------------- MODULE BatchCodec -----------------------------
(***************************************************************************)
(* A Bedrock batch: packets, each behind its length.  build_batch of       *)
(* src/main.rs writes one, parse_batch of src/bedrock/batch.rs reads it,   *)
(* and stops without an error where a packet is not all there.             *)
(***************************************************************************)
EXTENDS WireBuffer

PacketBytes(packet) == VarInt(Len(packet)) \o packet

BatchBytes(packets) ==
    LET upTo[i \in 0..Len(packets)] ==
            IF i = 0 THEN <<>> ELSE upTo[i - 1] \o PacketBytes(packets[i])
    IN  upTo[Len(packets)]

EndsInside(data, at, size) == Has(data, at, size + 1)  \* mutant: off by one, the last is lost

IsWhole(data, at, size) == Has(data, at, size)

ParseBatch(data) ==
    LET read[at \in 0..Len(data)] ==
            LET body == at + VarIntEnd(data, at)
                size == AsVarInt(data, at)
            IN  IF VarIntEnd(data, at) = 0 \/ ~IsWhole(data, body, size) THEN <<>>
                ELSE <<Slice(data, body, size)>> \o read[body + size]
    IN  read[0]
=============================================================================
