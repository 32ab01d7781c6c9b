------------------------------- MODULE Codecs -------------------------------
(***************************************************************************)
(* One item on its way through a codec: a peer writes a frame set, a batch *)
(* or a Login, the bytes may lose their end (a datagram larger than the    *)
(* receive buffer is cut), and the server reads them with                  *)
(* parse_frame_set, parse_batch or parse_login_packet.                     *)
(***************************************************************************)
EXTENDS FrameCodec, BatchCodec, LoginCodec

CONSTANTS FrameSets,  \* [seq, frames, unit, slack], see FrameBytes
          Batches,    \* sequences of packets
          Logins,     \* [login, layout]
          Skins       \* [declared, pixels]: the size a client declares, and the data it sends

(* A frame's fields fit where they are written, and those it lacks are 0.   *)
FrameFields ==
    [rel : 0..7, split : BOOLEAN, payload : Seq(0..255), reliable : Nat,
     order : Nat, channel : Nat, count : Nat, id : Nat, index : Nat]

FieldsFit(f, unit) ==
    /\ unit * Len(f.payload) <= 65535
    /\ f.reliable < 16777216 /\ f.order < 16777216 /\ f.channel <= MaxChannel
    /\ f.count <= MaxSplitCount /\ f.id < 65536 /\ f.index <= Huge
    /\ ~IsReliable(f.rel) => f.reliable = 0
    /\ ~IsOrdered(f.rel) => f.order = 0 /\ f.channel = 0
    /\ ~f.split => f.count = 0 /\ f.id = 0 /\ f.index = 0

(* Its length counts bits, at least one of the last byte's, or bytes.       *)
ASSUME FrameSetsAssumption ==
    \A x \in FrameSets :
        /\ x.seq \in Nat /\ x.seq < 16777216
        /\ x.unit \in {1, 8} /\ x.slack \in 0..7 /\ (x.unit = 1 => x.slack = 0)
        /\ x.frames \in Seq(FrameFields)
        /\ \A i \in DOMAIN x.frames : FieldsFit(x.frames[i], x.unit)

(* Bytes are bytes, and a packet's length is one of 32 bits that TLC knows. *)
ASSUME BatchesAssumption ==
    \A packets \in Batches :
        packets \in Seq(Seq(0..255)) /\ \A i \in DOMAIN packets : Len(packets[i]) <= Huge

(* Tokens are text without zero bytes, JSON and a JWT, and together no      *)
(* longer than what decompress_batch lets through.                          *)
MaxDecompressedSize == 10485760

ASSUME LoginsAssumption ==
    \A x \in Logins : LET chain == x.login.chain
                          skin == x.login.skin
                      IN  /\ x.layout \in Layouts /\ x.login.protocol \in 1..MaxProtocol
                          /\ chain \in Seq(1..255) /\ IsText(chain) /\ LooksLikeChain(chain)
                          /\ skin \in Seq(1..255) /\ IsText(skin) /\ LooksLikeJwt(skin)
                          /\ Len(chain) + Len(skin) <= MaxDecompressedSize

(* A skin without pixels is given up before its size is asked for.          *)
ASSUME SkinsAssumption ==
    \A skin \in Skins :
        skin.declared \in [width : Nat, height : Nat] /\ skin.pixels \in Nat \ {0}

VARIABLES phase,  \* "written", "arrived", "read"
          kind,   \* which codec
          item,   \* what was written
          bytes,  \* what is left of its bytes
          cut,    \* they have lost their end
          got     \* what was read

vars == <<phase, kind, item, bytes, cut, got>>

Nothing == <<>>

Write(k, x, data) ==
    kind = k /\ item = x /\ bytes = data

Init == /\ phase = "written" /\ cut = FALSE /\ got = Nothing
        /\ \/ \E x \in FrameSets : Write("frames", x, FrameSetBytes(x.seq, x.frames, x.unit, x.slack))
           \/ \E x \in Batches : Write("batch", x, BatchBytes(x))
           \/ \E x \in Logins : Write("login", x, LoginBytes(x.login, x.layout))
           \/ \E x \in Skins : Write("skin", x, <<>>)

Arrive == /\ phase = "written"
          /\ phase' = "arrived"
          /\ UNCHANGED <<kind, item, bytes, cut, got>>

ArriveCut == /\ phase = "written" /\ kind # "frames"
             /\ phase' = "arrived" /\ cut' = TRUE
             /\ \E n \in 0..Len(bytes) - 1 : bytes' = SubSeq(bytes, 1, n)
             /\ UNCHANGED <<kind, item, got>>

Read == /\ phase = "arrived"
        /\ phase' = "read"
        /\ got' = CASE kind = "frames" -> ParseFrameSet(bytes)
                    [] kind = "batch" -> ParseBatch(bytes)
                    [] kind = "login" -> ParseLogin(bytes)
                    [] kind = "skin" -> SkinSize(item.declared, item.pixels)
        /\ UNCHANGED <<kind, item, bytes, cut>>

Next == Arrive \/ ArriveCut \/ Read
Spec == Init /\ [][Next]_vars

(***************************************************************************)
(* Properties                                                              *)
(***************************************************************************)
WasRead(k) == phase = "read" /\ kind = k

FragmentFollowed(frames) == \E i \in 1..Len(frames) - 1 : frames[i].split

(* parse_frame_set: frames written one after the other, their lengths in    *)
(* bits, down to the last bit, are read as they were, provided that no      *)
(* fragment is followed by anything. A lone batch whose length counts bytes *)
(* is read back too if its payload is not by accident frames of the reading *)
(* in bits, which is tried first: the items checked hold no such payload.   *)
FrameSetReadBack ==
    WasRead("frames") /\ ~FragmentFollowed(item.frames) =>
        got = [seq |-> item.seq, frames |-> item.frames]

(* "Returns the sequence number and all frames contained in the set"        *)
(* (protocol.rs, of parse_frame_set).                                       *)
AllFramesReturned ==
    WasRead("frames") => Len(got.frames) = Len(item.frames)

(* parse_batch on what is left of a batch: the packets that are all there,  *)
(* unchanged and in order, and nothing else.                                *)
BatchPrefixRead ==
    WasRead("batch") =>
        \E n \in 0..Len(item) :
            /\ got = SubSeq(item, 1, n)
            /\ Len(BatchBytes(got)) <= Len(bytes)
            /\ n < Len(item) => Len(BatchBytes(SubSeq(item, 1, n + 1))) > Len(bytes)

(* parse_login_packet: whichever of the six layouts a client uses, both     *)
(* tokens are read as they were, and so is the protocol, but for the two    *)
(* numbers that are each other's reverse; and a Login that has lost its end *)
(* is not taken for one in another layout.                                  *)
Reversed == {256, 65536}
LoginReadBack ==
    WasRead("login") =>
        IF cut THEN got = NoLogin
        ELSE /\ got.chain = item.login.chain /\ got.skin = item.login.skin
             /\ \/ got.protocol = item.login.protocol
                \/ item.layout.protocol = "u32_be" /\ {got.protocol, item.login.protocol} = Reversed

(* A skin is taken, ExtractedSkin::new agreeing with the size found for it, *)
(* whenever its client declared a size that agrees or its pixels fill rows  *)
(* of 64; no other skin is saved.                                           *)
SkinTaken ==
    WasRead("skin") =>
        (Holds(got, item.pixels) <=>
            Holds(item.declared, item.pixels) \/ item.pixels % 64 = 0)
=============================================================================
