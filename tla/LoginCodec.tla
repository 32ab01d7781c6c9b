----------------------------- MODULE LoginCodec -----------------------------
(***************************************************************************)
(* The Login packet behind its packet id: parse_login_packet of            *)
(* src/bedrock/login.rs tries six layouts in turn, and the first that      *)
(* holds together decides.  A token is bytes; what matters of it is that   *)
(* it is text, how many full stops it has, and whether the chain has a     *)
(* brace.                                                                  *)
(***************************************************************************)
EXTENDS WireBuffer, FiniteSets

Encodings == {"u32_le", "u32_be", "varint"}
Layouts == [protocol : Encodings, payload_len : BOOLEAN]
Layout(protocol, payload_len) == [protocol |-> protocol, payload_len |-> payload_len]

(* The order in which they are tried.                                       *)
Probes == <<Layout("u32_le", FALSE), Layout("u32_be", FALSE), Layout("varint", FALSE),
            Layout("u32_le", TRUE), Layout("u32_be", TRUE), Layout("varint", TRUE)>>

MaxProtocol == 100000
Brace == 123
FullStop == 46

(***************************************************************************)
(* Writing, as a client of each layout does                                *)
(***************************************************************************)
LoginBytes(login, layout) ==
    LET body == U32Le(Len(login.chain)) \o login.chain \o U32Le(Len(login.skin)) \o login.skin
    IN  (CASE layout.protocol = "u32_le" -> U32Le(login.protocol)
           [] layout.protocol = "u32_be" -> U32Be(login.protocol)
           [] OTHER -> VarInt(login.protocol))
            \o (IF layout.payload_len THEN VarInt(Len(body)) ELSE <<>>) \o body

(***************************************************************************)
(* try_parse_login: each field is where the one before it ends, or nowhere *)
(***************************************************************************)
NoLogin == [protocol |-> 0, chain |-> <<>>, skin |-> <<>>]

ProtocolEnd(data, encoding) ==
    IF encoding = "varint" THEN VarIntEnd(data, 0) ELSE IF Has(data, 0, 4) THEN 4 ELSE 0

Protocol(data, encoding) ==
    CASE encoding = "u32_le" -> AsU32Le(data, 0)
      [] encoding = "u32_be" -> AsU32Be(data, 0)
      [] OTHER -> AsVarInt(data, 0)

ProtocolUnbounded(p) == p # 0         \* mutant: any number is a protocol
IsProtocol(p) == p # 0 /\ p <= MaxProtocol

(* A payload length must not exceed what follows.                           *)
PayloadFits(data, at) ==
    /\ VarIntEnd(data, at) # 0
    /\ AsVarInt(data, at) # 0
    /\ Has(data, at + VarIntEnd(data, at), AsVarInt(data, at))

TokenFits(data, at) ==
    Has(data, at, 4) /\ AsU32Le(data, at) # 0 /\ Has(data, at + 4, AsU32Le(data, at))
Token(data, at) == Slice(data, at + 4, AsU32Le(data, at))
Behind(data, at) == at + 4 + AsU32Le(data, at)

(* from_utf8: each byte belongs to a character of n bytes, back of which    *)
(* are in front of it.                                                      *)
IsCharacter(s, at, n) ==
    /\ at + n - 1 <= Len(s)
    /\ s[at] \in <<0..127, 194..223, 224..239, 240..244>>[n]
    /\ \A k \in 1..n - 1 : s[at + k] \in 128..191
    /\ s[at] = 224 => s[at + 1] >= 160
    /\ s[at] = 237 => s[at + 1] < 160
    /\ s[at] = 240 => s[at + 1] >= 144
    /\ s[at] = 244 => s[at + 1] < 144
IsText(s) ==
    \A i \in DOMAIN s : \E n \in 1..4, back \in 0..3 :
        back < n /\ back < i /\ IsCharacter(s, i - back, n)

LooksLikeChain(token) == \E i \in DOMAIN token : token[i] = Brace
LooksLikeJwt(token) == Cardinality({i \in DOMAIN token : token[i] = FullStop}) = 2

TryLayout(data, layout) ==
    LET prefix == ProtocolEnd(data, layout.protocol)
        chain == prefix + IF layout.payload_len THEN VarIntEnd(data, prefix) ELSE 0
        skin == Behind(data, chain)
    IN  IF /\ prefix # 0 /\ IsProtocol(Protocol(data, layout.protocol))
           /\ layout.payload_len => PayloadFits(data, prefix)
           /\ TokenFits(data, chain) /\ TokenFits(data, skin)
           /\ IsText(Token(data, chain)) /\ IsText(Token(data, skin))
           /\ LooksLikeChain(Token(data, chain)) /\ LooksLikeJwt(Token(data, skin))
          THEN [protocol |-> Protocol(data, layout.protocol),
                chain |-> Token(data, chain), skin |-> Token(data, skin)]
          ELSE NoLogin

ParseLogin(data) ==
    LET found == {i \in DOMAIN Probes : TryLayout(data, Probes[i]) # NoLogin}
    IN  IF found = {} THEN NoLogin
        ELSE TryLayout(data, Probes[CHOOSE i \in found : \A j \in found : i <= j])

(***************************************************************************)
(* The size of the skin: what the client declares, if it agrees with the   *)
(* number of pixels, or one of the usual sizes, or 64 in a row; and        *)
(* ExtractedSkin::new, which takes a size only if it agrees.               *)
(***************************************************************************)
Size(width, height) == [width |-> width, height |-> height]
Usual == {Size(64, 32), Size(64, 64), Size(128, 64), Size(128, 128)}
Holds(size, pixels) == size.width * size.height = pixels

UsualSize(declared, pixels) ==      \* mutant: the size is guessed from the data alone
    IF \E s \in Usual : Holds(s, pixels) THEN CHOOSE s \in Usual : Holds(s, pixels)
    ELSE Size(64, IF pixels < 64 THEN 64 ELSE pixels \div 64)

SkinSize(declared, pixels) ==
    IF Holds(declared, pixels) /\ pixels # 0 THEN declared
    ELSE IF \E s \in Usual : Holds(s, pixels) THEN CHOOSE s \in Usual : Holds(s, pixels)
    ELSE Size(64, IF pixels < 64 THEN 64 ELSE pixels \div 64)
=============================================================================
