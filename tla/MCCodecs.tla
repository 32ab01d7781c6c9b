------------------------------ MODULE MCCodecs ------------------------------
(* An instance of Codecs for TLC.  Sizes lie on both sides of the limits of *)
(* the encodings: a length of 127 and 128, of 255 and 256; protocols whose  *)
(* bytes are alike in two layouts.                                          *)
EXTENDS Codecs

Fill(byte, n) == [i \in 1..n |-> byte]

(* Frames of every kind of header; payloads that could be taken for one.    *)
Frame(rel, split, payload) ==
    [rel |-> rel, split |-> split, payload |-> payload,
     reliable |-> IF IsReliable(rel) THEN 70000 ELSE 0,
     order    |-> IF IsOrdered(rel) THEN 300 ELSE 0,
     channel  |-> IF IsOrdered(rel) THEN MaxChannel ELSE 0,
     count    |-> IF split THEN MaxSplitCount ELSE 0,
     id       |-> IF split THEN 65535 ELSE 0,
     index    |-> IF split THEN 3 ELSE 0]

Payloads == {Fill(byte, n) : byte \in {0, 1, 254}, n \in {0, 1, 2, 17}}
Frames == {Frame(rel, split, p) : rel \in {0, 3, 5, 7}, split \in BOOLEAN, p \in Payloads}
ShortFrames == {Frame(rel, FALSE, Fill(1, 2)) : rel \in {1, 2}}

Set(frames, unit, slack) == [seq |-> 66000, frames |-> frames, unit |-> unit, slack |-> slack]

MCFrameSets ==
    {Set(fs, 8, 0) : fs \in UNION {[1..n -> Frames] : n \in 0..2}}
        \cup {Set(<<f>>, 8, slack) : f \in Frames, slack \in 1..7}
        \cup {Set(fs, 8, 0) : fs \in [1..4 -> ShortFrames]}
        \cup {Set(<<Frame(rel, FALSE, <<254, 255>> \o Fill(200, n))>>, 1, 0) : rel \in {0, 3}, n \in 1..40}

(* A fragment in front of another frame.                                    *)
Followed == {Set(<<Frame(3, TRUE, Fill(1, 17)), Frame(3, FALSE, Fill(1, 2))>>, 8, 0)}

MCBatches ==
    UNION {[1..k -> {Fill(byte, n) : byte \in {0, 255}, n \in {0, 1, 127, 128}}] : k \in 0..2}

(* A brace and an accent, or nothing but braces.                            *)
Chains == {<<Brace, 195, 169, 125>>} \cup {Fill(Brace, c) : c \in {1, 127, 256}}

MCLogins ==
    {[login |-> [protocol |-> p, chain |-> c, skin |-> <<FullStop>> \o Fill(97, s) \o <<FullStop>>],
      layout |-> y] :
        p \in {1, 127, 128, 255, 256, 766, 768, 975, 2225, 16384, 65536, 100000},
        c \in Chains, s \in {0, 126}, y \in Layouts}

MCSkins == {[declared |-> Size(w, h), pixels |-> n] :
                w \in {0, 32, 64, 100}, h \in {0, 32, 64, 50},
                n \in {1, 64, 1024, 2048, 4096, 5000, 8192, 16384}}
=============================================================================
