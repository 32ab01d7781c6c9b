----------------------------- MODULE FrameCodec -----------------------------
(***************************************************************************)
(* Frame sets as bytes: parse_frame_set of src/raknet/protocol.rs, which   *)
(* tries the length of a frame as bits and as bytes and keeps the reading  *)
(* that fits better, and the frames it is to read, written as send_frame   *)
(* (src/raknet/server/frames.rs) and RakNet peers write them.              *)
(*                                                                         *)
(* A frame that lacks a field has 0 for it.                                *)
(***************************************************************************)
EXTENDS WireBuffer

IsReliable(rel) == rel \in {2, 3, 4, 6, 7}
IsOrdered(rel) == rel \in {1, 3, 4, 7}

Headers(rel) == (IF IsReliable(rel) THEN 3 ELSE 0) + (IF IsOrdered(rel) THEN 4 ELSE 0)
SplitHeader == 10

(***************************************************************************)
(* Writing.  unit is 8 for a peer that counts bits, 1 for one of bytes;    *)
(* slack is how many bits of the last byte do not count.                   *)
(***************************************************************************)
Flags(f) == f.rel * 32 + IF f.split THEN 16 ELSE 0

FrameBytes(f, unit, slack) ==
    <<Flags(f)>> \o U16Be(IF f.payload = <<>> THEN 0 ELSE unit * Len(f.payload) - slack)
        \o (IF IsReliable(f.rel) THEN U24Le(f.reliable) ELSE <<>>)
        \o (IF IsOrdered(f.rel) THEN U24Le(f.order) \o <<f.channel>> ELSE <<>>)
        \o (IF f.split THEN U32Be(f.count) \o U16Be(f.id) \o U32Be(f.index) ELSE <<>>)
        \o f.payload

FrameSetBytes(seq, frames, unit, slack) ==
    LET upTo[i \in 0..Len(frames)] ==
            IF i = 0 THEN <<>> ELSE upTo[i - 1] \o FrameBytes(frames[i], unit, slack)
    IN  <<132>> \o U24Le(seq) \o upTo[Len(frames)]

(***************************************************************************)
(* parse_frame: the frame at an offset, and where the next one begins.     *)
(***************************************************************************)
MaxChannel == 31
MaxSplitCount == 1024

NoFrame == [ok |-> FALSE]

PayloadSizeRoundedDown(raw, mode) ==     \* mutant: a broken byte is dropped
    IF mode = "bits" THEN raw \div 8 ELSE raw

PayloadSize(raw, mode) == IF mode = "bits" THEN (raw + 7) \div 8 ELSE raw

ParseFrame(data, at, mode) ==
    LET rel == data[at + 1] \div 32
        split == (data[at + 1] \div 16) % 2 = 1
        size == PayloadSize(AsU16Be(data, at + 1), mode)
        order == at + 3 + IF IsReliable(rel) THEN 3 ELSE 0
        body == at + 3 + Headers(rel)
        payload == body + IF split THEN SplitHeader ELSE 0
        fits == /\ Has(data, at, 3)
                /\ Has(data, body, size)
                /\ IsOrdered(rel) => data[order + 4] <= MaxChannel
                /\ split => Has(data, body, SplitHeader) /\ AsU32Be(data, body) <= MaxSplitCount
                /\ Has(data, payload, size)
    IN  IF ~fits THEN NoFrame
        ELSE [ok |-> TRUE, next |-> payload + size,
              frame |-> [rel      |-> rel, split |-> split,
                         payload  |-> Slice(data, payload, size),
                         reliable |-> IF IsReliable(rel) THEN AsU24Le(data, at + 3) ELSE 0,
                         order    |-> IF IsOrdered(rel) THEN AsU24Le(data, order) ELSE 0,
                         channel  |-> IF IsOrdered(rel) THEN data[order + 4] ELSE 0,
                         count    |-> IF split THEN AsU32Be(data, body) ELSE 0,
                         id       |-> IF split THEN AsU16Be(data, body + 4) ELSE 0,
                         index    |-> IF split THEN AsU32Be(data, body + 6) ELSE 0]]

(***************************************************************************)
(* parse_frame_set_with_mode: frames until the data ends, a frame cannot   *)
(* be read, or a fragment is followed by anything.  Read as bytes, a first *)
(* frame that is a Bedrock batch takes in what cannot be read behind it.   *)
(***************************************************************************)
SetHeader == 4

IsBatch(f) == Len(f.payload) >= 2 /\ f.payload[1] = 254 /\ f.payload[2] \in {0, 255}

StopsBehind(f, next, data) == f.split /\ next < Len(data)

(* path: where its frames begin, one after the other, and where it stops.   *)
ReadFrames(data, mode) ==
    LET Parsed(at) == ParseFrame(data, at, mode)
        path[at \in 0..Len(data)] ==
            IF at = Len(data) \/ ~Parsed(at).ok THEN <<at>>
            ELSE IF StopsBehind(Parsed(at).frame, Parsed(at).next, data) THEN <<at, Parsed(at).next>>
            ELSE <<at>> \o path[Parsed(at).next]
        begins == path[SetHeader]
        n == Len(begins) - 1
        offset == begins[n + 1]
        frames == [i \in 1..n |-> Parsed(begins[i]).frame]
        failed == offset < Len(data) /\ (n = 0 \/ ~frames[n].split)
        trailing == SubSeq(data, offset + 1, Len(data))
    IN  IF mode = "bytes" /\ failed /\ n = 1 /\ IsBatch(frames[1])
        THEN [frames |-> <<[frames[1] EXCEPT !.payload = @ \o trailing]>>,
              offset |-> Len(data), failed |-> FALSE]
        ELSE [frames |-> frames, offset |-> offset, failed |-> failed]

(***************************************************************************)
(* parse_frame_set                                                         *)
(***************************************************************************)
BytesTried(bits, data) == bits.failed \/ bits.offset < Len(data)

BytesAreBetter(bits, bytes) ==
    /\ bytes.frames # <<>>
    /\ bytes.offset > bits.offset \/ (bits.failed /\ ~bytes.failed)

NoFrameSet == [seq |-> 0, frames |-> <<>>]

IsFrameSet(data) == Len(data) >= SetHeader /\ data[1] \in 128..141

ParseFrameSet(data) ==
    LET bits == ReadFrames(data, "bits")
        bytes == ReadFrames(data, "bytes")
        chosen == IF BytesTried(bits, data) /\ BytesAreBetter(bits, bytes) THEN bytes ELSE bits
    IN  IF IsFrameSet(data) THEN [seq |-> AsU24Le(data, 1), frames |-> chosen.frames]
        ELSE NoFrameSet
=============================================================================
