----------------------------- MODULE ConfigText -----------------------------
(***************************************************************************)
(* The text of config.jsonc, as far as a string in it is at stake: how     *)
(* src/util/config.rs writes one (escape_json_string), removes comments    *)
(* around it (strip_json_comments), and how serde_json reads it.           *)
(*                                                                         *)
(* A text is a sequence of characters.  "n" and "u" are ordinary ones that *)
(* mean a line break and a control character behind a backslash (\u0001).  *)
(***************************************************************************)
EXTENDS Naturals, Sequences

Chars == {"letter", "blank", "quote", "backslash", "slash", "star", "n", "u", "newline",
          "control"}

NotAString == <<"not a string">>

(***************************************************************************)
(* escape_json_string                                                      *)
(***************************************************************************)
EscapedNoBackslash(c) ==        \* mutant: a backslash is written as it is
    CASE c = "quote" -> <<"backslash", "quote">>
      [] c = "newline" -> <<"backslash", "n">>
      [] OTHER -> <<c>>

Escaped(c) == CASE c \in {"quote", "backslash"} -> <<"backslash", c>>
                [] c = "newline" -> <<"backslash", "n">>
                [] OTHER -> <<c>>

Literal(value) ==
    LET written[i \in 0..Len(value)] ==
            IF i = 0 THEN <<>> ELSE written[i - 1] \o Escaped(value[i])
    IN  written[Len(value)]

(* One entry of the file: a comment, which may hold anything but a line     *)
(* break, and the string.                                                   *)
Quoted(literal) == <<"quote">> \o literal \o <<"quote">>
EntryOf(literal) == <<"slash", "slash", "quote", "star", "newline">> \o Quoted(literal)
                        \o <<"slash", "star", "quote", "star", "star", "slash", "newline">>

(***************************************************************************)
(* strip_json_comments: what is kept of a text, from its i-th character    *)
(* on, when the scan gets there in a mode.                                 *)
(***************************************************************************)
Modes == {"code", "string", "escaped", "line", "block", "star"}

BehindSlash(text, i, c) == text[i] = "slash" /\ i < Len(text) /\ text[i + 1] = c

ModeAfter(mode, c) ==
    CASE mode = "code" -> IF c = "quote" THEN "string" ELSE "code"
      [] mode = "string" -> CASE c = "backslash" -> "escaped"
                              [] c = "quote" -> "code"
                              [] OTHER -> "string"
      [] mode = "escaped" -> "string"
      [] mode = "line" -> IF c = "newline" THEN "code" ELSE "line"
      [] mode = "block" -> IF c = "star" THEN "star" ELSE "block"
      [] mode = "star" -> CASE c = "slash" -> "code"
                            [] c = "star" -> "star"
                            [] OTHER -> "block"

Kept(mode, c) == mode \in {"code", "string", "escaped"} \/ (mode = "line" /\ c = "newline")

Stripped(text) ==
    LET from[i \in 1..Len(text) + 1] == [mode \in Modes |->
            CASE i > Len(text) -> <<>>
              [] i <= Len(text) /\ mode = "code" /\ BehindSlash(text, i, "slash") -> from[i + 2]["line"]
              [] i <= Len(text) /\ mode = "code" /\ BehindSlash(text, i, "star") -> from[i + 2]["block"]
              [] OTHER -> (IF Kept(mode, text[i]) THEN <<text[i]>> ELSE <<>>)
                              \o from[i + 1][ModeAfter(mode, text[i])]]
    IN  from[1]["code"]

(***************************************************************************)
(* serde_json on what is left: white space, one string, white space.  A    *)
(* string holds no raw line break or control character, and a backslash    *)
(* only in front of a character it has a meaning with.                     *)
(***************************************************************************)
Space == {"blank", "newline"}

Unescaped == [quote |-> "quote", backslash |-> "backslash", slash |-> "slash",
              n |-> "newline", u |-> "control"]

ReadString(text) ==
    LET Behind(c, rest) == IF rest = NotAString THEN rest ELSE <<c>> \o rest
        body[i \in 1..Len(text) + 1] ==
            IF i > Len(text) THEN NotAString
            ELSE CASE text[i] \in {"newline", "control"} -> NotAString
                   [] text[i] = "quote" ->
                         IF \A j \in i + 1..Len(text) : text[j] \in Space THEN <<>> ELSE NotAString
                   [] text[i] = "backslash" ->
                         IF i < Len(text) /\ text[i + 1] \in DOMAIN Unescaped
                           THEN Behind(Unescaped[text[i + 1]], body[i + 2])
                           ELSE NotAString
                   [] OTHER -> Behind(text[i], body[i + 1])
        start == {i \in DOMAIN text : text[i] \notin Space}
        first == CHOOSE i \in start : \A j \in start : i <= j
    IN  IF start # {} /\ text[first] = "quote" THEN body[first + 1] ELSE NotAString

(* What the string of an entry means to the next start.                     *)
Meaning(literal) == ReadString(Stripped(EntryOf(literal)))

(* version.trim().is_empty()                                                *)
IsBlank(value) == \A i \in DOMAIN value : value[i] \in Space

HasControl(value) == \E i \in DOMAIN value : value[i] = "control"
=============================================================================
