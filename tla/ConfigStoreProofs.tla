--------------------------- MODULE ConfigStoreProofs ---------------------------
(***************************************************************************)
(* Theorems about ConfigStore: what is written of a string is read again   *)
(* as that string, for strings of any length, and so the program runs with *)
(* what the user wrote last, whatever starts, errors and kills came first. *)
(***************************************************************************)
EXTENDS ConfigStore, SequenceTheorems, FiniteSetTheorems, WellFoundedInduction, TLAPS

(***************************************************************************)
(* Induction, from a least counterexample                                  *)
(***************************************************************************)

(* A set of natural numbers has a least one.                                *)
LEMMA LeastNat ==
    ASSUME NEW T \in SUBSET Nat, T # {}
    PROVE  \E n \in T : \A m \in T : n <= m
<1> DEFINE R == StrictSubsetOrdering(Nat)
           F == FiniteSubsetsOf(Nat)
           I == {1..n : n \in T}
<1>1. IsWellFoundedOn(R, F)
  BY FS_StrictSubsetOrderingWellFounded
<1>2. ASSUME NEW n \in T PROVE 1..n \in F
  <2>1. 1 \in Int /\ n \in Int /\ 1..n \subseteq Nat
    OBVIOUS
  <2>2. IsFiniteSet(1..n)
    BY <2>1, FS_Interval
  <2> QED
    BY <2>1, <2>2 DEF FiniteSubsetsOf
<1>3. I \subseteq F /\ I # {}
  BY <1>2
<1>4. PICK x \in I : \A y \in I : <<y, x>> \notin R
  <2> HIDE DEF R, F, I
  <2> QED
    BY <1>1, <1>3, WFMin
<1>5. PICK n \in T : x = 1..n
  OBVIOUS
<1>6. ASSUME NEW m \in T, m < n PROVE FALSE
  <2>1. n \in 1..n /\ n \notin 1..m /\ 1..m \subseteq 1..n
    BY <1>6
  <2>2. <<1..m, x>> \in R
    BY <1>5, <2>1 DEF StrictSubsetOrdering
  <2> QED
    BY <1>4, <2>2
<1> QED
  BY <1>6

(* A set that holds 0, and with a number the next, holds them all.          *)
LEMMA Upwards ==
    ASSUME NEW S, 0 \in S, \A k \in Nat : k \in S => k + 1 \in S
    PROVE  \A k \in Nat : k \in S
<1> DEFINE T == Nat \ S
<1>1. ASSUME T # {} PROVE FALSE
  <2>1. T \in SUBSET Nat
    OBVIOUS
  <2>2. PICK n \in T : \A m \in T : n <= m
    <3> HIDE DEF T
    <3> QED
      BY <1>1, <2>1, LeastNat
  <2>3. n # 0 /\ n - 1 \in Nat /\ n - 1 \notin T
    BY <2>2
  <2>4. (n - 1) + 1 \in S
    BY <2>3
  <2> QED
    BY <2>2, <2>4
<1> QED
  BY <1>1

(* A set that holds a number when it holds those up to n behind it, holds   *)
(* them all.                                                                *)
LEMMA Downwards ==
    ASSUME NEW n \in Nat, NEW S,
           \A k \in 1..n : (\A j \in (k + 1)..n : j \in S) => k \in S
    PROVE  \A k \in 1..n : k \in S
<1> DEFINE T == {n - k : k \in {k \in 1..n : k \notin S}}
<1>1. ASSUME T # {} PROVE FALSE
  <2>1. T \in SUBSET Nat
    OBVIOUS
  <2>2. PICK d \in T : \A m \in T : d <= m
    <3> HIDE DEF T
    <3> QED
      BY <1>1, <2>1, LeastNat
  <2>3. PICK k \in 1..n : k \notin S /\ d = n - k
    BY <2>2
  <2>4. ASSUME NEW j \in (k + 1)..n, j \notin S PROVE FALSE
    <3>1. n - j \in T
      BY <2>3, <2>4
    <3>2. n - k <= n - j
      BY <2>2, <2>3, <3>1
    <3> QED
      BY <2>3, <2>4, <3>2
  <2> QED
    BY <2>3, <2>4
<1> QED
  BY <1>1

(* The parts of a concatenation.                                            *)
LEMMA ConcatParts ==
    ASSUME NEW S, NEW a \in Seq(S), NEW b \in Seq(S)
    PROVE  /\ Len(a) \in Nat /\ Len(b) \in Nat
           /\ a \o b \in Seq(S) /\ Len(a \o b) = Len(a) + Len(b)
           /\ \A j \in 1..Len(a) : (a \o b)[j] = a[j]
           /\ \A j \in 1..Len(b) : (a \o b)[Len(a) + j] = b[j]
<1>1. Len(a) \in Nat /\ Len(b) \in Nat
  BY LenProperties
<1> QED
  BY <1>1, ConcatProperties

(***************************************************************************)
(* escape_json_string                                                      *)
(***************************************************************************)
Written(value) ==
    CHOOSE g : g = [i \in 0..Len(value) |->
                       IF i = 0 THEN <<>> ELSE g[i - 1] \o Escaped(value[i])]

(* A character is written as one, or as two of which the first is a         *)
(* backslash.                                                               *)
LEMMA EscapedShape ==
    ASSUME NEW c \in Chars
    PROVE  /\ Escaped(c) \in Seq(Chars) /\ Len(Escaped(c)) \in {1, 2}
           /\ c \in {"quote", "backslash", "newline"} =>
                  /\ Len(Escaped(c)) = 2 /\ Escaped(c)[1] = "backslash"
                  /\ Escaped(c)[2] = IF c = "newline" THEN "n" ELSE c
           /\ c \notin {"quote", "backslash", "newline"} => Escaped(c) = <<c>>
<1>1. CASE c \in {"quote", "backslash"}
  <2>1. Escaped(c) = <<"backslash", c>>
    BY <1>1 DEF Escaped
  <2>2. "backslash" \in Chars
    BY DEF Chars
  <2> QED
    BY <1>1, <2>1, <2>2
<1>2. CASE c = "newline"
  <2>1. Escaped(c) = <<"backslash", "n">>
    BY <1>2 DEF Escaped
  <2>2. "backslash" \in Chars /\ "n" \in Chars
    BY DEF Chars
  <2>3. Escaped(c) \in Seq(Chars)
    BY <2>1, <2>2
  <2>4. Len(Escaped(c)) = 2 /\ Escaped(c)[1] = "backslash" /\ Escaped(c)[2] = "n"
    BY <2>1
  <2> HIDE DEF Chars
  <2> QED
    BY <1>2, <2>3, <2>4
<1>3. CASE c \notin {"quote", "backslash", "newline"}
  <2>1. Escaped(c) = <<c>>
    BY <1>3 DEF Escaped
  <2> QED
    BY <1>3, <2>1
<1> QED
  BY <1>1, <1>2, <1>3

(* The recursion that writes a string is well defined.                      *)
LEMMA WrittenExists ==
    ASSUME NEW value, NEW n \in Nat
    PROVE  \E g : g = [i \in 0..n |-> IF i = 0 THEN <<>> ELSE g[i - 1] \o Escaped(value[i])]
<1> DEFINE P(k) == \E g : g = [i \in 0..k |-> IF i = 0 THEN <<>> ELSE g[i - 1] \o Escaped(value[i])]
           S == {k \in Nat : P(k)}
<1>1. P(0)
  <2> DEFINE g0 == [i \in 0..0 |-> <<>>]
  <2>1. g0 = [i \in 0..0 |-> IF i = 0 THEN <<>> ELSE g0[i - 1] \o Escaped(value[i])]
    OBVIOUS
  <2> QED
    BY <2>1
<1>2. ASSUME NEW k \in Nat, P(k) PROVE P(k + 1)
  <2>1. PICK g : g = [i \in 0..k |-> IF i = 0 THEN <<>> ELSE g[i - 1] \o Escaped(value[i])]
    BY <1>2
  <2> DEFINE h == [i \in 0..(k + 1) |-> IF i = k + 1 THEN g[k] \o Escaped(value[k + 1]) ELSE g[i]]
  <2>2. \A i \in 0..(k + 1) : h[i] = IF i = 0 THEN <<>> ELSE h[i - 1] \o Escaped(value[i])
    BY <2>1
  <2>3. h = [i \in 0..(k + 1) |-> IF i = 0 THEN <<>> ELSE h[i - 1] \o Escaped(value[i])]
    BY <2>2
  <2> QED
    BY <2>3
<1> HIDE DEF P
<1>3. 0 \in S /\ \A k \in Nat : k \in S => k + 1 \in S
  BY <1>1, <1>2
<1> HIDE DEF S
<1>4. n \in S
  BY <1>3, Upwards
<1> QED
  BY <1>4 DEF S, P

(* It writes the characters one behind the other.                           *)
LEMMA WrittenSteps ==
    ASSUME NEW value \in Seq(Chars)
    PROVE  /\ Literal(value) = Written(value)[Len(value)]
           /\ Written(value)[0] = <<>>
           /\ \A i \in 1..Len(value) :
                 Written(value)[i] = Written(value)[i - 1] \o Escaped(value[i])
           /\ \A i \in 0..Len(value) : Written(value)[i] \in Seq(Chars)
<1> DEFINE w == Written(value)
           n == Len(value)
<1>1. n \in Nat
  BY LenProperties
<1>2. w = [i \in 0..n |-> IF i = 0 THEN <<>> ELSE w[i - 1] \o Escaped(value[i])]
  BY <1>1, WrittenExists DEF Written
<1>3. Literal(value) = w[n]
  BY DEF Literal, Written
<1>4. w[0] = <<>> /\ \A i \in 1..n : w[i] = w[i - 1] \o Escaped(value[i])
  <2> HIDE DEF w, n
  <2>1. \A i \in 0..n : w[i] = IF i = 0 THEN <<>> ELSE w[i - 1] \o Escaped(value[i])
    BY <1>2
  <2>2. 0 \in 0..n /\ \A i \in 1..n : i \in 0..n /\ i # 0
    BY <1>1
  <2> QED
    BY <2>1, <2>2
<1>5. \A i \in 1..n : value[i] \in Chars
  BY LenProperties, ElementOfSeq
<1> DEFINE S == {k \in Nat : k <= n => w[k] \in Seq(Chars)}
<1> HIDE DEF w, n
<1>6. 0 \in S
  BY <1>4, EmptySeq
<1>7. ASSUME NEW k \in Nat, k \in S PROVE k + 1 \in S
  <2>1. ASSUME k + 1 <= n PROVE w[k + 1] \in Seq(Chars)
    <3>1. k + 1 \in 1..n /\ w[k] \in Seq(Chars) /\ (k + 1) - 1 = k
      BY <1>1, <1>7, <2>1
    <3>2. w[k + 1] = w[k] \o Escaped(value[k + 1]) /\ Escaped(value[k + 1]) \in Seq(Chars)
      BY <1>4, <1>5, <3>1, EscapedShape
    <3> QED
      BY <3>1, <3>2, ConcatProperties
  <2> QED
    BY <2>1
<1> HIDE DEF S
<1>8. \A k \in Nat : k \in S
  BY <1>6, <1>7, Upwards
<1>9. \A i \in 0..n : w[i] \in Seq(Chars)
  BY <1>1, <1>8 DEF S
<1> QED
  BY <1>3, <1>4, <1>9 DEF w, n

(* What is written of the first characters begins the literal.              *)
LEMMA WrittenBegins ==
    ASSUME NEW value \in Seq(Chars), NEW k \in 0..Len(value)
    PROVE  /\ Len(Written(value)[k]) \in Nat
           /\ Len(Written(value)[k]) <= Len(Literal(value))
           /\ \A j \in 1..Len(Written(value)[k]) : Literal(value)[j] = Written(value)[k][j]
<1> DEFINE w == Written(value)
           n == Len(value)
           Begins(m) == /\ Len(w[k]) <= Len(w[m])
                        /\ \A j \in 1..Len(w[k]) : w[m][j] = w[k][j]
           S == {d \in Nat : k + d <= n => Begins(k + d)}
<1>1. n \in Nat /\ k \in Nat /\ k <= n
  BY LenProperties
<1>2. /\ Literal(value) = w[n]
      /\ \A i \in 1..n : w[i] = w[i - 1] \o Escaped(value[i])
      /\ \A i \in 0..n : w[i] \in Seq(Chars)
  BY WrittenSteps
<1>3. \A i \in 1..n : value[i] \in Chars
  BY LenProperties, ElementOfSeq
<1> HIDE DEF w, n
<1>4. Len(w[k]) \in Nat
  BY <1>1, <1>2, LenProperties
<1>5. 0 \in S
  BY <1>1, <1>4
<1>6. ASSUME NEW d \in Nat, d \in S PROVE d + 1 \in S
  <2>1. ASSUME k + (d + 1) <= n PROVE Begins(k + (d + 1))
    <3> DEFINE m == k + d
    <3>1. m \in 0..n /\ m + 1 \in 1..n /\ (m + 1) - 1 = m /\ k + (d + 1) = m + 1
      BY <1>1, <2>1
    <3>2. Begins(m)
      BY <1>1, <1>6, <2>1
    <3> HIDE DEF m
    <3>3. w[m + 1] = w[m] \o Escaped(value[m + 1]) /\ w[m] \in Seq(Chars)
          /\ Escaped(value[m + 1]) \in Seq(Chars)
      BY <1>2, <1>3, <3>1, EscapedShape
    <3>4. /\ Len(w[m]) \in Nat /\ Len(w[m]) <= Len(w[m + 1])
          /\ \A j \in 1..Len(w[m]) : w[m + 1][j] = w[m][j]
      <4> DEFINE a == w[m]
                 b == Escaped(value[m + 1])
      <4>1. w[m + 1] = a \o b /\ a \in Seq(Chars) /\ b \in Seq(Chars)
        BY <3>3
      <4> HIDE DEF a, b
      <4>2. /\ Len(a) \in Nat /\ Len(b) \in Nat /\ Len(a \o b) = Len(a) + Len(b)
            /\ \A j \in 1..Len(a) : (a \o b)[j] = a[j]
        BY <4>1, ConcatParts
      <4>3. /\ Len(a) \in Nat /\ Len(a) <= Len(a \o b)
            /\ \A j \in 1..Len(a) : (a \o b)[j] = a[j]
        BY <4>2
      <4> QED
        BY <4>1, <4>3 DEF a
    <3>5. Len(w[m + 1]) \in Nat
      BY <1>2, <3>1, LenProperties
    <3> QED
      BY <1>4, <3>1, <3>2, <3>4, <3>5
  <2> QED
    BY <2>1
<1> HIDE DEF S
<1>7. \A d \in Nat : d \in S
  BY <1>5, <1>6, Upwards
<1>8. n - k \in Nat /\ k + (n - k) = n
  BY <1>1
<1>9. Begins(n)
  BY <1>7, <1>8 DEF S
<1> QED
  BY <1>2, <1>4, <1>9 DEF w

(* A piece of a literal leaves the scan inside the string.                  *)
ModesOf(a, m) ==
    /\ m \in [0..Len(a) -> {"string", "escaped"}]
    /\ m[0] = "string" /\ m[Len(a)] = "string"
    /\ \A j \in 1..Len(a) : m[j] = ModeAfter(m[j - 1], a[j])

(* What one more character is written as does so again.                     *)
LEMMA ModesGrow ==
    ASSUME NEW a \in Seq(Chars), NEW m, ModesOf(a, m), NEW c \in Chars
    PROVE  \E h : ModesOf(a \o Escaped(c), h)
<1> DEFINE b == Escaped(c)
           l == Len(a)
           h == [j \in 0..(Len(a) + Len(b)) |->
                    IF j <= Len(a) THEN m[j] ELSE IF j = Len(a) + Len(b) THEN "string" ELSE "escaped"]
<1> HIDE DEF b
<1>1. /\ b \in Seq(Chars) /\ Len(b) \in {1, 2}
      /\ Len(b) = 1 => c \notin {"quote", "backslash", "newline"} /\ b[1] = c
      /\ Len(b) = 2 => b[1] = "backslash"
  <2>1. /\ b \in Seq(Chars) /\ Len(b) \in {1, 2}
        /\ c \in {"quote", "backslash", "newline"} => Len(b) = 2 /\ b[1] = "backslash"
        /\ c \notin {"quote", "backslash", "newline"} => b = <<c>>
    BY EscapedShape DEF b
  <2>2. c \notin {"quote", "backslash", "newline"} => Len(b) = 1 /\ b[1] = c
    BY <2>1
  <2>3. c \in {"quote", "backslash", "newline"} \/ c \notin {"quote", "backslash", "newline"}
    OBVIOUS
  <2>4. Len(b) = 1 => c \notin {"quote", "backslash", "newline"} /\ b[1] = c
    BY <2>1, <2>2
  <2>5. Len(b) = 2 => b[1] = "backslash"
    BY <2>1, <2>2, <2>3
  <2> QED
    BY <2>1, <2>4, <2>5
<1>2. /\ Len(a) \in Nat /\ Len(b) \in Nat
      /\ Len(a \o b) = Len(a) + Len(b)
      /\ \A j \in 1..Len(a) : (a \o b)[j] = a[j]
      /\ \A j \in 1..Len(b) : (a \o b)[Len(a) + j] = b[j]
  BY <1>1, ConcatParts
<1>3. h \in [0..Len(a \o b) -> {"string", "escaped"}]
  BY <1>2 DEF ModesOf
<1>4. h[0] = "string" /\ h[Len(a \o b)] = "string"
  BY <1>1, <1>2 DEF ModesOf
<1>5. ASSUME NEW j \in 1..Len(a \o b)
      PROVE  h[j] = ModeAfter(h[j - 1], (a \o b)[j])
  <2>1. CASE j <= Len(a)
    <3>1. j \in 1..Len(a) /\ h[j] = m[j] /\ h[j - 1] = m[j - 1]
      BY <1>2, <2>1
    <3> QED
      BY <1>2, <3>1 DEF ModesOf
  <2>2. CASE j = Len(a) + 1
    <3>1. h[j - 1] = "string" /\ (a \o b)[j] = b[1]
      BY <1>1, <1>2, <2>2 DEF ModesOf
    <3>2. CASE Len(b) = 1
      <4>1. h[j] = "string"
        BY <1>2, <2>2, <3>2
      <4> QED
        BY <1>1, <3>1, <3>2, <4>1 DEF ModeAfter
    <3>3. CASE Len(b) = 2
      <4>1. h[j] = "escaped"
        BY <1>2, <2>2, <3>3
      <4> QED
        BY <1>1, <3>1, <3>3, <4>1 DEF ModeAfter
    <3> QED
      BY <1>1, <3>2, <3>3
  <2>3. CASE j = Len(a) + 2
    <3>1. h[j] = "string" /\ h[j - 1] = "escaped"
      BY <1>1, <1>2, <2>3
    <3> QED
      BY <3>1 DEF ModeAfter
  <2>4. j <= Len(a) \/ j = Len(a) + 1 \/ j = Len(a) + 2
    BY <1>1, <1>2
  <2> QED
    BY <2>1, <2>2, <2>3, <2>4
<1> QED
  BY <1>3, <1>4, <1>5 DEF ModesOf, b

(* So does a whole one.                                                     *)
LEMMA LiteralModes ==
    ASSUME NEW value \in Seq(Chars)
    PROVE  Literal(value) \in Seq(Chars) /\ \E m : ModesOf(Literal(value), m)
<1> DEFINE w == Written(value)
           n == Len(value)
           P(k) == \E m : ModesOf(w[k], m)
           S == {k \in Nat : k <= n => P(k)}
<1>1. n \in Nat /\ \A i \in 1..n : value[i] \in Chars
  BY LenProperties, ElementOfSeq
<1>2. /\ Literal(value) = w[n] /\ w[0] = <<>>
      /\ \A i \in 1..n : w[i] = w[i - 1] \o Escaped(value[i])
      /\ \A i \in 0..n : w[i] \in Seq(Chars)
  BY WrittenSteps
<1> HIDE DEF w, n
<1>3. P(0)
  <2> DEFINE m0 == [j \in 0..0 |-> "string"]
  <2>1. Len(w[0]) = 0
    BY <1>2, EmptySeq
  <2>2. ModesOf(w[0], m0)
    BY <2>1 DEF ModesOf
  <2> QED
    BY <2>2
<1>4. ASSUME NEW k \in Nat, k \in S PROVE k + 1 \in S
  <2>1. ASSUME k + 1 <= n PROVE P(k + 1)
    <3>1. k + 1 \in 1..n /\ k \in 0..n /\ (k + 1) - 1 = k /\ P(k)
      BY <1>1, <1>4, <2>1
    <3>2. w[k + 1] = w[k] \o Escaped(value[k + 1]) /\ w[k] \in Seq(Chars) /\ value[k + 1] \in Chars
      BY <1>1, <1>2, <3>1
    <3>3. PICK m : ModesOf(w[k], m)
      BY <3>1
    <3> QED
      BY <3>2, <3>3, ModesGrow
  <2> HIDE DEF P
  <2> QED
    BY <2>1
<1>5. 0 \in S
  BY <1>3
<1> HIDE DEF P, S
<1>6. \A k \in Nat : k \in S
  BY <1>4, <1>5, Upwards
<1>7. P(n)
  BY <1>1, <1>6 DEF S
<1> QED
  BY <1>1, <1>2, <1>7 DEF P

(***************************************************************************)
(* strip_json_comments                                                     *)
(***************************************************************************)
StripAt(g, text, i) == [mode \in Modes |->
    CASE i > Len(text) -> <<>>
      [] i <= Len(text) /\ mode = "code" /\ BehindSlash(text, i, "slash") -> g[i + 2]["line"]
      [] i <= Len(text) /\ mode = "code" /\ BehindSlash(text, i, "star") -> g[i + 2]["block"]
      [] OTHER -> (IF Kept(mode, text[i]) THEN <<text[i]>> ELSE <<>>)
                      \o g[i + 1][ModeAfter(mode, text[i])]]
Scan(text) == CHOOSE g : g = [i \in 1..Len(text) + 1 |-> StripAt(g, text, i)]

(* The scan looks at nothing but what it makes of the rest.                 *)
LEMMA StripLooksOn ==
    ASSUME NEW text, Len(text) \in Nat, NEW i \in 1..(Len(text) + 1), NEW g, NEW h,
           \A j \in (i + 1)..(Len(text) + 1) : g[j] = h[j]
    PROVE  StripAt(g, text, i) = StripAt(h, text, i)
<1>1. CASE i > Len(text)
  BY <1>1 DEF StripAt
<1>2. CASE i <= Len(text)
  <2>1. g[i + 1] = h[i + 1] /\ (i < Len(text) => g[i + 2] = h[i + 2])
    BY <1>2
  <2>2. CASE i < Len(text)
    BY <1>2, <2>1, <2>2 DEF StripAt
  <2>3. CASE ~(i < Len(text))
    <3>1. ~BehindSlash(text, i, "slash") /\ ~BehindSlash(text, i, "star")
      BY <2>3 DEF BehindSlash
    <3> QED
      BY <1>2, <2>1, <3>1 DEF StripAt
  <2> QED
    BY <2>2, <2>3
<1> QED
  BY <1>1, <1>2

(* The recursion that scans a text is well defined.                         *)
LEMMA ScanExists ==
    ASSUME NEW text, Len(text) \in Nat
    PROVE  Scan(text) = [i \in 1..Len(text) + 1 |-> StripAt(Scan(text), text, i)]
<1> DEFINE N == Len(text) + 1
           P(k) == \E g : \A i \in k..N : g[i] = StripAt(g, text, i)
           S == {d \in Nat : d < N => P(N - d)}
<1>1. N \in Nat \ {0}
  OBVIOUS
<1>2. ASSUME NEW k \in 1..N, NEW g, \A i \in (k + 1)..N : g[i] = StripAt(g, text, i)
      PROVE  P(k)
  <2> DEFINE h == [i \in k..N |-> IF i = k THEN StripAt(g, text, k) ELSE g[i]]
  <2>1. h[k] = StripAt(g, text, k) /\ \A i \in (k + 1)..N : h[i] = g[i] /\ i \in 1..N
    BY <1>1, <1>2
  <2> HIDE DEF h
  <2>2. StripAt(h, text, k) = StripAt(g, text, k)
    BY <1>1, <2>1, StripLooksOn
  <2>3. ASSUME NEW i \in (k + 1)..N PROVE StripAt(h, text, i) = StripAt(g, text, i)
    <3>1. i \in 1..N /\ \A j \in (i + 1)..N : h[j] = g[j]
      BY <1>1, <2>1
    <3> QED
      BY <3>1, StripLooksOn
  <2>4. \A i \in k..N : h[i] = StripAt(h, text, i)
    <3>1. ASSUME NEW i \in k..N PROVE i = k \/ i \in (k + 1)..N
      BY <1>1
    <3> QED
      BY <1>2, <2>1, <2>2, <2>3, <3>1
  <2> QED
    BY <2>4
<1>3. 0 \in S
  <2>1. \A i \in (N + 1)..N : <<>>[i] = StripAt(<<>>, text, i)
    BY <1>1
  <2>2. P(N)
    BY <1>1, <1>2, <2>1
  <2> HIDE DEF P
  <2> QED
    BY <1>1, <2>2
<1>4. ASSUME NEW d \in Nat, d \in S PROVE d + 1 \in S
  <2>1. ASSUME d + 1 < N PROVE P(N - (d + 1))
    <3> DEFINE k == N - (d + 1)
    <3>1. k \in 1..N /\ k + 1 = N - d /\ d < N
      BY <1>1, <2>1
    <3>2. P(k + 1)
      <4> HIDE DEF P, k
      <4> QED
        BY <1>4, <3>1
    <3> HIDE DEF k
    <3>3. PICK g : \A i \in (k + 1)..N : g[i] = StripAt(g, text, i)
      BY <3>2
    <3>4. P(k)
      BY <1>2, <3>1, <3>3
    <3> QED
      BY <3>4 DEF k
  <2> HIDE DEF P
  <2> QED
    BY <2>1
<1> HIDE DEF P, S
<1>5. \A d \in Nat : d \in S
  BY <1>3, <1>4, Upwards
<1>6. P(1)
  <2>1. N - 1 \in Nat /\ N - 1 < N /\ N - (N - 1) = 1
    BY <1>1
  <2>2. N - 1 \in S
    BY <1>5, <2>1
  <2> QED
    BY <2>1, <2>2 DEF S
<1>7. PICK g : \A i \in 1..N : g[i] = StripAt(g, text, i)
  BY <1>6 DEF P
<1> DEFINE f == [i \in 1..N |-> g[i]]
<1>8. \A i \in 1..N : StripAt(f, text, i) = StripAt(g, text, i)
  <2>1. ASSUME NEW i \in 1..N PROVE StripAt(f, text, i) = StripAt(g, text, i)
    <3>1. \A j \in (i + 1)..N : f[j] = g[j]
      BY <1>1
    <3> HIDE DEF f
    <3> QED
      BY <3>1, StripLooksOn
  <2> QED
    BY <2>1
<1>9. f = [i \in 1..N |-> StripAt(f, text, i)]
  BY <1>7, <1>8
<1> HIDE DEF f
<1> QED
  BY <1>9 DEF Scan

(* No comment begins at a character in a mode.                              *)
Plain(text, i, mode) == \/ mode # "code" \/ text[i] # "slash" \/ i = Len(text)
                        \/ text[i + 1] \notin {"slash", "star"}

(* What a step of it makes of a character.                                  *)
LEMMA ScanSteps ==
    ASSUME NEW text, Len(text) \in Nat, NEW i \in 1..(Len(text) + 1), NEW mode \in Modes
    PROVE  /\ i > Len(text) => Scan(text)[i][mode] = <<>>
           /\ i <= Len(text) /\ mode = "code" /\ BehindSlash(text, i, "slash") =>
                  Scan(text)[i][mode] = Scan(text)[i + 2]["line"]
           /\ i <= Len(text) /\ mode = "code" /\ BehindSlash(text, i, "star") =>
                  Scan(text)[i][mode] = Scan(text)[i + 2]["block"]
           /\ i <= Len(text) /\ Plain(text, i, mode) =>
                  Scan(text)[i][mode] = (IF Kept(mode, text[i]) THEN <<text[i]>> ELSE <<>>)
                                            \o Scan(text)[i + 1][ModeAfter(mode, text[i])]
<1> DEFINE g == Scan(text)
           v == StripAt(g, text, i)[mode]
           rest == (IF Kept(mode, text[i]) THEN <<text[i]>> ELSE <<>>)
                       \o g[i + 1][ModeAfter(mode, text[i])]
<1>1. g[i][mode] = v
  BY ScanExists
<1>2. CASE i > Len(text)
  <2>1. v = <<>>
    BY <1>2 DEF StripAt
  <2> HIDE DEF g, v, rest
  <2>2. ~(i <= Len(text))
    BY <1>2
  <2> QED
    BY <1>1, <2>1, <2>2 DEF g
<1>3. CASE i <= Len(text) /\ mode = "code" /\ BehindSlash(text, i, "slash")
  <2>2. /\ ~BehindSlash(text, i, "star") /\ ~Plain(text, i, mode)
        /\ ~(i > Len(text))
    BY <1>3 DEF BehindSlash, Plain
  <2>1. v = g[i + 2]["line"]
    BY <1>3, <2>2 DEF StripAt
  <2> HIDE DEF g, v, rest
  <2> QED
    BY <1>1, <1>3, <2>1, <2>2 DEF g
<1>4. CASE i <= Len(text) /\ mode = "code" /\ BehindSlash(text, i, "star")
  <2>1. /\ ~BehindSlash(text, i, "slash") /\ ~Plain(text, i, mode)
        /\ ~(i > Len(text))
    BY <1>4 DEF BehindSlash, Plain
  <2>2. v = g[i + 2]["block"]
    BY <1>4, <2>1 DEF StripAt
  <2> HIDE DEF g, v, rest
  <2> QED
    BY <1>1, <1>4, <2>1, <2>2 DEF g
<1>5. CASE i <= Len(text) /\ Plain(text, i, mode)
  <2>1. /\ ~(i > Len(text))
        /\ ~(mode = "code" /\ BehindSlash(text, i, "slash"))
        /\ ~(mode = "code" /\ BehindSlash(text, i, "star"))
    BY <1>5 DEF BehindSlash, Plain
  <2>2. v = rest
    BY <1>5, <2>1 DEF StripAt
  <2> HIDE DEF v
  <2>3. Scan(text)[i][mode] = rest
    BY <1>1, <2>2
  <2> HIDE DEF rest, g
  <2> QED
    BY <2>1, <2>3, <1>5 DEF rest, g
<1>6. CASE ~(i > Len(text)) /\ ~(i <= Len(text))
  BY <1>6
<1> QED
  BY <1>2, <1>3, <1>4, <1>5, <1>6

(* What is kept is a text again.                                            *)
LEMMA ScanIsText ==
    ASSUME NEW text \in Seq(Chars), NEW k \in 1..(Len(text) + 1), NEW mode \in Modes
    PROVE  Scan(text)[k][mode] \in Seq(Chars)
<1> DEFINE N == Len(text) + 1
           g == Scan(text)
           S == {i \in Nat : \A m \in Modes : g[i][m] \in Seq(Chars)}
<1>1. Len(text) \in Nat /\ N \in Nat
  BY LenProperties
<1>2. ASSUME NEW i \in 1..N, \A j \in (i + 1)..N : j \in S
      PROVE  i \in S
  <2>1. ASSUME NEW m \in Modes PROVE g[i][m] \in Seq(Chars)
    <3>1. CASE i > Len(text)
      <4>1. g[i][m] = <<>>
        BY <1>1, <3>1, ScanSteps
      <4> QED
        BY <4>1, EmptySeq
    <3>2. CASE i <= Len(text) /\ m = "code" /\ BehindSlash(text, i, "slash")
      <4>1. g[i][m] = g[i + 2]["line"]
        BY <1>1, <3>2, ScanSteps
      <4>2. i + 2 \in (i + 1)..N /\ "line" \in Modes
        BY <1>1, <3>2 DEF BehindSlash, Modes
      <4> HIDE DEF N, g
      <4> QED
        BY <1>2, <4>1, <4>2
    <3>3. CASE i <= Len(text) /\ m = "code" /\ BehindSlash(text, i, "star")
      <4>1. g[i][m] = g[i + 2]["block"]
        BY <1>1, <3>3, ScanSteps
      <4>2. i + 2 \in (i + 1)..N /\ "block" \in Modes
        BY <1>1, <3>3 DEF BehindSlash, Modes
      <4> HIDE DEF N, g
      <4> QED
        BY <1>2, <4>1, <4>2
    <3>4. CASE i <= Len(text) /\ Plain(text, i, m)
      <4> DEFINE head == IF Kept(m, text[i]) THEN <<text[i]>> ELSE <<>>
                 tail == g[i + 1][ModeAfter(m, text[i])]
      <4>1. g[i][m] = head \o tail
        BY <1>1, <3>4, ScanSteps
      <4>2. i + 1 \in (i + 1)..N /\ text[i] \in Chars
        BY <1>1, <3>4, ElementOfSeq
      <4>3. ModeAfter(m, text[i]) \in Modes
        BY DEF ModeAfter, Modes
      <4>4. tail \in Seq(Chars)
        <5> HIDE DEF N, g
        <5> QED
          BY <1>2, <4>2, <4>3
      <4>5. head \in Seq(Chars)
        BY <4>2, EmptySeq
      <4> HIDE DEF head, tail
      <4> QED
        BY <4>1, <4>4, <4>5, ConcatProperties
    <3>5. m = "code" /\ ~Plain(text, i, m) /\ i <= Len(text) =>
             BehindSlash(text, i, "slash") \/ BehindSlash(text, i, "star")
      BY <1>1 DEF Plain, BehindSlash
    <3>6. m # "code" => Plain(text, i, m)
      BY DEF Plain
    <3>7. i > Len(text) \/ i <= Len(text)
      BY <1>1
    <3> QED
      BY <3>1, <3>2, <3>3, <3>4, <3>5, <3>6, <3>7
  <2> QED
    BY <2>1
<1> HIDE DEF S
<1>3. \A i \in 1..N : i \in S
  <2> HIDE DEF N
  <2> QED
    BY <1>1, <1>2, Downwards
<1> QED
  BY <1>3 DEF S

(* A text without its comments is a text.                                   *)
LEMMA StrippedIsText ==
    ASSUME NEW text \in Seq(Chars)
    PROVE  Stripped(text) = Scan(text)[1]["code"] /\ Stripped(text) \in Seq(Chars)
<1>1. Stripped(text) = Scan(text)[1]["code"]
  BY DEF Stripped, Scan, StripAt
<1>2. Len(text) \in Nat /\ 1 \in 1..(Len(text) + 1) /\ "code" \in Modes
  BY LenProperties DEF Modes
<1> QED
  BY <1>1, <1>2, ScanIsText

(* An entry, character by character.                                        *)
LEMMA EntryShape ==
    ASSUME NEW lit \in Seq(Chars)
    PROVE  /\ Len(lit) \in Nat
           /\ EntryOf(lit) \in Seq(Chars)
           /\ Len(EntryOf(lit)) = Len(lit) + 14
           /\ EntryOf(lit)[1] = "slash" /\ EntryOf(lit)[2] = "slash"
           /\ EntryOf(lit)[3] = "quote" /\ EntryOf(lit)[4] = "star"
           /\ EntryOf(lit)[5] = "newline" /\ EntryOf(lit)[6] = "quote"
           /\ \A k \in 1..Len(lit) : EntryOf(lit)[6 + k] = lit[k]
           /\ EntryOf(lit)[Len(lit) + 7] = "quote"
           /\ EntryOf(lit)[Len(lit) + 8] = "slash" /\ EntryOf(lit)[Len(lit) + 9] = "star"
           /\ EntryOf(lit)[Len(lit) + 10] = "quote" /\ EntryOf(lit)[Len(lit) + 11] = "star"
           /\ EntryOf(lit)[Len(lit) + 12] = "star" /\ EntryOf(lit)[Len(lit) + 13] = "slash"
           /\ EntryOf(lit)[Len(lit) + 14] = "newline"
<1> DEFINE p == <<"slash", "slash", "quote", "star", "newline">>
           q == <<"quote">>
           s == <<"slash", "star", "quote", "star", "star", "slash", "newline">>
           a == q \o lit
           b == a \o q
           c == p \o b
           L == Len(lit)
<1>1. p \in Seq(Chars) /\ q \in Seq(Chars) /\ s \in Seq(Chars)
  BY DEF Chars
<1>2. EntryOf(lit) = c \o s
  BY DEF EntryOf, Quoted
<1>3. /\ Len(p) = 5 /\ Len(q) = 1 /\ Len(s) = 7
      /\ p[1] = "slash" /\ p[2] = "slash" /\ p[3] = "quote" /\ p[4] = "star" /\ p[5] = "newline"
      /\ q[1] = "quote"
      /\ s[1] = "slash" /\ s[2] = "star" /\ s[3] = "quote" /\ s[4] = "star" /\ s[5] = "star"
      /\ s[6] = "slash" /\ s[7] = "newline"
  OBVIOUS
<1>4. L \in Nat
  BY LenProperties
<1> HIDE DEF p, q, s
<1>5. /\ a \in Seq(Chars) /\ Len(a) = L + 1
      /\ a[1] = "quote" /\ \A k \in 1..L : a[1 + k] = lit[k]
  <2>1. /\ a \in Seq(Chars) /\ Len(a) = Len(q) + L
        /\ \A j \in 1..Len(q) : a[j] = q[j]
        /\ \A j \in 1..L : a[Len(q) + j] = lit[j]
    BY <1>1, ConcatParts
  <2> HIDE DEF a, L
  <2> QED
    BY <1>3, <1>4, <2>1
<1> HIDE DEF a
<1>6. /\ b \in Seq(Chars) /\ Len(b) = L + 2
      /\ b[1] = "quote" /\ \A k \in 1..L : b[1 + k] = lit[k]
      /\ b[L + 2] = "quote"
  <2>1. /\ b \in Seq(Chars) /\ Len(b) = Len(a) + Len(q)
        /\ \A j \in 1..Len(a) : b[j] = a[j]
        /\ \A j \in 1..Len(q) : b[Len(a) + j] = q[j]
    <3>1. a \in Seq(Chars) /\ q \in Seq(Chars)
      BY <1>1, <1>5
    <3> QED
      BY <3>1, ConcatParts
  <2>2. 1 \in 1..Len(q) /\ Len(a) + 1 = L + 2 /\ 1 \in 1..Len(a)
    BY <1>3, <1>4, <1>5
  <2>3. \A k \in 1..L : 1 + k \in 1..Len(a)
    BY <1>4, <1>5
  <2> HIDE DEF b
  <2> QED
    BY <1>3, <1>5, <2>1, <2>2, <2>3
<1> HIDE DEF b
<1>7. /\ c \in Seq(Chars) /\ Len(c) = L + 7
      /\ \A j \in 1..5 : c[j] = p[j]
      /\ \A j \in 1..(L + 2) : c[5 + j] = b[j]
  <2>1. /\ c \in Seq(Chars) /\ Len(c) = Len(p) + Len(b)
        /\ \A j \in 1..Len(p) : c[j] = p[j]
        /\ \A j \in 1..Len(b) : c[Len(p) + j] = b[j]
    <3>1. p \in Seq(Chars) /\ b \in Seq(Chars)
      BY <1>1, <1>6
    <3> QED
      BY <3>1, ConcatParts
  <2> HIDE DEF c
  <2>2. Len(p) = 5 /\ Len(b) = L + 2 /\ 5 + (L + 2) = L + 7
    BY <1>3, <1>4, <1>6
  <2> QED
    BY <2>1, <2>2
<1> HIDE DEF c
<1>8. /\ EntryOf(lit) \in Seq(Chars) /\ Len(EntryOf(lit)) = L + 14
      /\ \A j \in 1..(L + 7) : EntryOf(lit)[j] = c[j]
      /\ \A j \in 1..7 : EntryOf(lit)[(L + 7) + j] = s[j]
  <2>1. /\ c \o s \in Seq(Chars) /\ Len(c \o s) = Len(c) + Len(s)
        /\ \A j \in 1..Len(c) : (c \o s)[j] = c[j]
        /\ \A j \in 1..Len(s) : (c \o s)[Len(c) + j] = s[j]
    <3>1. c \in Seq(Chars) /\ s \in Seq(Chars)
      BY <1>1, <1>7
    <3> QED
      BY <3>1, ConcatParts
  <2> DEFINE e == c \o s
  <2>2. /\ e \in Seq(Chars) /\ Len(e) = Len(c) + Len(s)
        /\ \A j \in 1..Len(c) : e[j] = c[j]
        /\ \A j \in 1..Len(s) : e[Len(c) + j] = s[j]
    BY <2>1
  <2>3. EntryOf(lit) = e
    BY <1>2
  <2>4. Len(c) = L + 7 /\ Len(s) = 7 /\ (L + 7) + 7 = L + 14
    BY <1>3, <1>4, <1>7
  <2> HIDE DEF e
  <2> QED
    BY <2>2, <2>3, <2>4
<1>9. /\ EntryOf(lit)[1] = "slash" /\ EntryOf(lit)[2] = "slash" /\ EntryOf(lit)[3] = "quote"
      /\ EntryOf(lit)[4] = "star" /\ EntryOf(lit)[5] = "newline"
  BY <1>3, <1>4, <1>7, <1>8
<1>10. \A j \in 1..(L + 2) : EntryOf(lit)[5 + j] = b[j]
  <2>1. ASSUME NEW j \in 1..(L + 2) PROVE EntryOf(lit)[5 + j] = b[j]
    <3>1. 5 + j \in 1..(L + 7)
      BY <1>4
    <3>2. c[5 + j] = b[j]
      BY <1>7
    <3>3. EntryOf(lit)[5 + j] = c[5 + j]
      BY <1>8, <3>1
    <3> QED
      BY <3>2, <3>3
  <2> QED
    BY <2>1
<1>11. EntryOf(lit)[6] = "quote" /\ EntryOf(lit)[L + 7] = "quote"
  <2>1. 1 \in 1..(L + 2) /\ L + 2 \in 1..(L + 2) /\ 5 + (L + 2) = L + 7
    BY <1>4
  <2> QED
    BY <1>6, <1>10, <2>1
<1>12. \A k \in 1..L : EntryOf(lit)[6 + k] = lit[k]
  <2>1. ASSUME NEW k \in 1..L PROVE EntryOf(lit)[6 + k] = lit[k]
    <3>1. 1 + k \in 1..(L + 2) /\ 5 + (1 + k) = 6 + k
      BY <1>4
    <3> QED
      BY <1>6, <1>10, <3>1
  <2> QED
    BY <2>1
<1>13. /\ EntryOf(lit)[L + 8] = "slash" /\ EntryOf(lit)[L + 9] = "star"
       /\ EntryOf(lit)[L + 10] = "quote" /\ EntryOf(lit)[L + 11] = "star"
       /\ EntryOf(lit)[L + 12] = "star" /\ EntryOf(lit)[L + 13] = "slash"
       /\ EntryOf(lit)[L + 14] = "newline"
  <2>1. /\ (L + 7) + 1 = L + 8 /\ (L + 7) + 2 = L + 9 /\ (L + 7) + 3 = L + 10
        /\ (L + 7) + 4 = L + 11 /\ (L + 7) + 5 = L + 12 /\ (L + 7) + 6 = L + 13
        /\ (L + 7) + 7 = L + 14
    BY <1>4
  <2>2. \A j \in {1, 2, 3, 4, 5, 6, 7} : EntryOf(lit)[(L + 7) + j] = s[j]
    BY <1>8
  <2> QED
    BY <1>3, <2>1, <2>2
<1> QED
  BY <1>4, <1>8, <1>9, <1>11, <1>12, <1>13

(* One character more of a beginning.                                       *)
LEMMA NextCharacter ==
    ASSUME NEW S, NEW s \in Seq(S), NEW k \in 0..Len(s), k < Len(s),
           NEW rest \in Seq(S)
    PROVE  /\ SubSeq(s, 1, k) \o (<<s[k + 1]>> \o rest) = SubSeq(s, 1, k + 1) \o rest
           /\ SubSeq(s, 1, k) \in Seq(S)
<1>1. Len(s) \in Nat /\ k + 1 \in 1..Len(s) /\ 1 \in 1..Len(s) /\ k + 1 \in 1..Len(s)
  BY LenProperties
<1>2. SubSeq(s, 1, k + 1) = SubSeq(s, 1, (k + 1) - 1) \o <<s[k + 1]>>
  BY <1>1, SubSeqRecursiveSecond
<1>3. (k + 1) - 1 = k
  BY <1>1
<1>4. SubSeq(s, 1, k) \in Seq(S)
  <2>1. \A i \in 1..k : s[i] \in S
    BY <1>1, ElementOfSeq
  <2> QED
    BY <1>1, <2>1, SubSeqProperties
<1>5. <<s[k + 1]>> \in Seq(S)
  BY <1>1, ElementOfSeq
<1>6. (SubSeq(s, 1, k) \o <<s[k + 1]>>) \o rest = SubSeq(s, 1, k) \o (<<s[k + 1]>> \o rest)
  <2> DEFINE a == SubSeq(s, 1, k)
             b == <<s[k + 1]>>
  <2>1. a \in Seq(S) /\ b \in Seq(S)
    BY <1>4, <1>5
  <2> HIDE DEF a, b
  <2>2. (a \o b) \o rest = a \o (b \o rest)
    BY <2>1, ConcatAssociative
  <2> QED
    BY <2>2 DEF a, b
<1> QED
  BY <1>2, <1>3, <1>4, <1>6

(* What is kept of a character when no comment begins at it.                *)
LEMMA ScanPlain ==
    ASSUME NEW text \in Seq(Chars), NEW i \in 1..Len(text), NEW mode \in Modes,
           Plain(text, i, mode)
    PROVE  /\ Kept(mode, text[i]) =>
                  Scan(text)[i][mode] = <<text[i]>> \o Scan(text)[i + 1][ModeAfter(mode, text[i])]
           /\ ~Kept(mode, text[i]) =>
                  Scan(text)[i][mode] = Scan(text)[i + 1][ModeAfter(mode, text[i])]
<1> DEFINE rest == Scan(text)[i + 1][ModeAfter(mode, text[i])]
<1>1. Len(text) \in Nat /\ i \in 1..(Len(text) + 1) /\ i + 1 \in 1..(Len(text) + 1) /\ i <= Len(text)
  BY LenProperties
<1>2. Scan(text)[i][mode] = (IF Kept(mode, text[i]) THEN <<text[i]>> ELSE <<>>) \o rest
  BY <1>1, ScanSteps
<1>3. ModeAfter(mode, text[i]) \in Modes
  BY DEF ModeAfter, Modes
<1>4. rest \in Seq(Chars)
  BY <1>1, <1>3, ScanIsText
<1> HIDE DEF rest
<1>5. <<>> \o rest = rest
  BY <1>4, ConcatEmptySeq
<1> QED
  BY <1>2, <1>5 DEF rest

(* The comments of an entry go, and nothing else: not in the literal either, *)
(* whatever slashes and stars it holds.                                     *)
LEMMA CommentsGo ==
    ASSUME NEW lit \in Seq(Chars), NEW m, ModesOf(lit, m)
    PROVE  Stripped(EntryOf(lit)) =
               <<"newline">> \o (<<"quote">> \o (lit \o (<<"quote">> \o <<"newline">>)))
<1> DEFINE T == EntryOf(lit)
           g == Scan(T)
           L == Len(lit)
           tail == <<"quote">> \o <<"newline">>
<1>1. /\ L \in Nat /\ T \in Seq(Chars) /\ Len(T) = L + 14
      /\ T[1] = "slash" /\ T[2] = "slash" /\ T[3] = "quote" /\ T[4] = "star"
      /\ T[5] = "newline" /\ T[6] = "quote"
      /\ \A k \in 1..L : T[6 + k] = lit[k]
      /\ T[L + 7] = "quote" /\ T[L + 8] = "slash" /\ T[L + 9] = "star"
      /\ T[L + 10] = "quote" /\ T[L + 11] = "star" /\ T[L + 12] = "star"
      /\ T[L + 13] = "slash" /\ T[L + 14] = "newline"
  BY EntryShape
<1>2. Stripped(T) = g[1]["code"]
  BY <1>1, StrippedIsText
<1> HIDE DEF T
<1>3. /\ \A i \in 1..(L + 15), mode \in Modes : g[i][mode] \in Seq(Chars)
      /\ \A i \in 1..(L + 14), mode \in Modes :
            /\ Plain(T, i, mode) /\ Kept(mode, T[i]) =>
                  g[i][mode] = <<T[i]>> \o g[i + 1][ModeAfter(mode, T[i])]
            /\ Plain(T, i, mode) /\ ~Kept(mode, T[i]) =>
                  g[i][mode] = g[i + 1][ModeAfter(mode, T[i])]
      /\ \A i \in 1..(L + 14) :
            /\ BehindSlash(T, i, "slash") => g[i]["code"] = g[i + 2]["line"]
            /\ BehindSlash(T, i, "star") => g[i]["code"] = g[i + 2]["block"]
      /\ \A mode \in Modes : g[L + 15][mode] = <<>>
  <2>1. Len(T) + 1 = L + 15 /\ "code" \in Modes
    BY <1>1 DEF Modes
  <2>2. ASSUME NEW i \in 1..(L + 15), NEW mode \in Modes PROVE g[i][mode] \in Seq(Chars)
    BY <1>1, <2>1, ScanIsText
  <2>3. ASSUME NEW i \in 1..(L + 14), NEW mode \in Modes, Plain(T, i, mode)
        PROVE  /\ Kept(mode, T[i]) => g[i][mode] = <<T[i]>> \o g[i + 1][ModeAfter(mode, T[i])]
               /\ ~Kept(mode, T[i]) => g[i][mode] = g[i + 1][ModeAfter(mode, T[i])]
    BY <1>1, <2>1, <2>3, ScanPlain
  <2>4. ASSUME NEW i \in 1..(L + 14)
        PROVE  /\ BehindSlash(T, i, "slash") => g[i]["code"] = g[i + 2]["line"]
               /\ BehindSlash(T, i, "star") => g[i]["code"] = g[i + 2]["block"]
    <3>1. i \in 1..(Len(T) + 1) /\ i <= Len(T) /\ Len(T) \in Nat
      BY <1>1
    <3> QED
      BY <2>1, <3>1, ScanSteps
  <2>5. ASSUME NEW mode \in Modes PROVE g[L + 15][mode] = <<>>
    <3>1. L + 15 \in 1..(Len(T) + 1) /\ L + 15 > Len(T) /\ Len(T) \in Nat
      BY <1>1
    <3> QED
      BY <3>1, ScanSteps
  <2> HIDE DEF g
  <2> QED
    BY <2>2, <2>3, <2>4, <2>5
<1> HIDE DEF g
<1>a. ASSUME NEW i \in 1..(L + 14), NEW mode \in Modes, Plain(T, i, mode), Kept(mode, T[i])
      PROVE  g[i][mode] = <<T[i]>> \o g[i + 1][ModeAfter(mode, T[i])]
  BY <1>3, <1>a
<1>b. ASSUME NEW i \in 1..(L + 14), NEW mode \in Modes, Plain(T, i, mode), ~Kept(mode, T[i])
      PROVE  g[i][mode] = g[i + 1][ModeAfter(mode, T[i])]
  BY <1>3, <1>b
<1>c. /\ ModeAfter("line", "quote") = "line" /\ ModeAfter("line", "star") = "line"
      /\ ModeAfter("line", "newline") = "code" /\ ModeAfter("code", "quote") = "string"
      /\ ModeAfter("string", "quote") = "code" /\ ModeAfter("block", "quote") = "block"
      /\ ModeAfter("block", "star") = "star" /\ ModeAfter("star", "star") = "star"
      /\ ModeAfter("star", "slash") = "code" /\ ModeAfter("code", "newline") = "code"
  <2>1. ModeAfter("line", "quote") = "line"
    BY DEF ModeAfter
  <2>2. ModeAfter("line", "star") = "line"
    BY DEF ModeAfter
  <2>3. ModeAfter("line", "newline") = "code"
    BY DEF ModeAfter
  <2>4. ModeAfter("code", "quote") = "string"
    BY DEF ModeAfter
  <2>5. ModeAfter("string", "quote") = "code"
    BY DEF ModeAfter
  <2>6. ModeAfter("block", "quote") = "block"
    BY DEF ModeAfter
  <2>7. ModeAfter("block", "star") = "star"
    BY DEF ModeAfter
  <2>8. ModeAfter("star", "star") = "star"
    BY DEF ModeAfter
  <2>9. ModeAfter("star", "slash") = "code"
    BY DEF ModeAfter
  <2>10. ModeAfter("code", "newline") = "code"
    BY DEF ModeAfter
  <2> QED
    BY <2>1, <2>2, <2>3, <2>4, <2>5, <2>6, <2>7, <2>8, <2>9, <2>10
<1>d. /\ ~Kept("line", "quote") /\ ~Kept("line", "star") /\ Kept("line", "newline")
      /\ \A c : Kept("code", c) /\ Kept("string", c) /\ Kept("escaped", c)
      /\ \A c : ~Kept("block", c) /\ ~Kept("star", c)
  BY DEF Kept
<1>e. /\ Modes = {"code", "string", "escaped", "line", "block", "star"}
      /\ \A i : /\ Plain(T, i, "string") /\ Plain(T, i, "escaped") /\ Plain(T, i, "line")
                /\ Plain(T, i, "block") /\ Plain(T, i, "star")
                /\ T[i] # "slash" => Plain(T, i, "code")
  BY DEF Modes, Plain
<1>4. g[1]["code"] = <<"newline">> \o g[6]["code"]
  <2>1. g[1]["code"] = g[3]["line"]
    <3>1. 1 \in 1..(L + 14) /\ BehindSlash(T, 1, "slash") /\ 1 + 2 = 3
      BY <1>1 DEF BehindSlash
    <3> QED
      BY <1>3, <3>1
  <2>2. g[3]["line"] = g[4]["line"]
    <3>1. 3 \in 1..(L + 14) /\ "line" \in Modes /\ 3 + 1 = 4
      BY <1>1, <1>e
    <3>2. g[3]["line"] = g[3 + 1][ModeAfter("line", T[3])]
      BY <1>1, <1>b, <1>d, <1>e, <3>1
    <3> QED
      BY <1>1, <1>c, <3>1, <3>2
  <2>3. g[4]["line"] = g[5]["line"]
    <3>1. 4 \in 1..(L + 14) /\ "line" \in Modes /\ 4 + 1 = 5
      BY <1>1, <1>e
    <3>2. g[4]["line"] = g[4 + 1][ModeAfter("line", T[4])]
      BY <1>1, <1>b, <1>d, <1>e, <3>1
    <3> QED
      BY <1>1, <1>c, <3>1, <3>2
  <2>4. g[5]["line"] = <<"newline">> \o g[6]["code"]
    <3>1. 5 \in 1..(L + 14) /\ "line" \in Modes /\ 5 + 1 = 6
      BY <1>1, <1>e
    <3>2. g[5]["line"] = <<T[5]>> \o g[5 + 1][ModeAfter("line", T[5])]
      BY <1>1, <1>a, <1>d, <1>e, <3>1
    <3> QED
      BY <1>1, <1>c, <3>1, <3>2
  <2> QED
    BY <2>1, <2>2, <2>3, <2>4
<1>5. g[6]["code"] = <<"quote">> \o g[7]["string"]
  <2>1. g[6]["code"] = <<"quote">> \o g[7]["string"]
    <3>1. 6 \in 1..(L + 14) /\ "code" \in Modes /\ 6 + 1 = 7
      BY <1>1, <1>e
    <3>2. g[6]["code"] = <<T[6]>> \o g[6 + 1][ModeAfter("code", T[6])]
      BY <1>1, <1>a, <1>d, <1>e, <3>1
    <3> QED
      BY <1>1, <1>c, <3>1, <3>2
  <2> QED
    BY <2>1
<1>6. g[L + 7]["string"] = tail
  <2>1. g[L + 7]["string"] = <<"quote">> \o g[L + 8]["code"]
    <3>1. L + 7 \in 1..(L + 14) /\ "string" \in Modes /\ (L + 7) + 1 = L + 8
      BY <1>1, <1>e
    <3>2. g[L + 7]["string"] = <<T[L + 7]>> \o g[(L + 7) + 1][ModeAfter("string", T[L + 7])]
      BY <1>1, <1>a, <1>d, <1>e, <3>1
    <3> QED
      BY <1>1, <1>c, <3>1, <3>2
  <2>2. g[L + 8]["code"] = g[L + 10]["block"]
    <3>1. L + 8 \in 1..(L + 14) /\ BehindSlash(T, L + 8, "star") /\ (L + 8) + 2 = L + 10
      BY <1>1 DEF BehindSlash
    <3> QED
      BY <1>3, <3>1
  <2>3. g[L + 10]["block"] = g[L + 11]["block"]
    <3>1. L + 10 \in 1..(L + 14) /\ "block" \in Modes /\ (L + 10) + 1 = L + 11
      BY <1>1, <1>e
    <3>2. g[L + 10]["block"] = g[(L + 10) + 1][ModeAfter("block", T[L + 10])]
      BY <1>1, <1>b, <1>d, <1>e, <3>1
    <3> QED
      BY <1>1, <1>c, <3>1, <3>2
  <2>4. g[L + 11]["block"] = g[L + 12]["star"]
    <3>1. L + 11 \in 1..(L + 14) /\ "block" \in Modes /\ (L + 11) + 1 = L + 12
      BY <1>1, <1>e
    <3>2. g[L + 11]["block"] = g[(L + 11) + 1][ModeAfter("block", T[L + 11])]
      BY <1>1, <1>b, <1>d, <1>e, <3>1
    <3> QED
      BY <1>1, <1>c, <3>1, <3>2
  <2>5. g[L + 12]["star"] = g[L + 13]["star"]
    <3>1. L + 12 \in 1..(L + 14) /\ "star" \in Modes /\ (L + 12) + 1 = L + 13
      BY <1>1, <1>e
    <3>2. g[L + 12]["star"] = g[(L + 12) + 1][ModeAfter("star", T[L + 12])]
      BY <1>1, <1>b, <1>d, <1>e, <3>1
    <3> QED
      BY <1>1, <1>c, <3>1, <3>2
  <2>6. g[L + 13]["star"] = g[L + 14]["code"]
    <3>1. L + 13 \in 1..(L + 14) /\ "star" \in Modes /\ (L + 13) + 1 = L + 14
      BY <1>1, <1>e
    <3>2. g[L + 13]["star"] = g[(L + 13) + 1][ModeAfter("star", T[L + 13])]
      BY <1>1, <1>b, <1>d, <1>e, <3>1
    <3> QED
      BY <1>1, <1>c, <3>1, <3>2
  <2>7. g[L + 14]["code"] = <<"newline">> \o g[L + 15]["code"]
    <3>1. L + 14 \in 1..(L + 14) /\ "code" \in Modes /\ (L + 14) + 1 = L + 15
      BY <1>1, <1>e
    <3>2. g[L + 14]["code"] = <<T[L + 14]>> \o g[(L + 14) + 1][ModeAfter("code", T[L + 14])]
      BY <1>1, <1>a, <1>d, <1>e, <3>1
    <3> QED
      BY <1>1, <1>c, <3>1, <3>2
  <2>8. g[L + 15]["code"] = <<>>
    BY <1>3, <1>e
  <2>9. <<"newline">> \o <<>> = <<"newline">>
    <3>1. <<"newline">> \in Seq(Chars)
      BY DEF Chars
    <3> QED
      BY <3>1, ConcatEmptySeq
  <2> QED
    BY <2>1, <2>2, <2>3, <2>4, <2>5, <2>6, <2>7, <2>8, <2>9
<1>7. g[7]["string"] = lit \o tail
  <2> DEFINE Q(j) == g[7]["string"] = SubSeq(lit, 1, j) \o g[7 + j][m[j]]
             S == {j \in Nat : j <= L => Q(j)}
  <2>1. \A j \in 0..L : m[j] \in {"string", "escaped"}
    BY DEF ModesOf
  <2>2. m[0] = "string" /\ m[L] = "string" /\ \A j \in 1..L : m[j] = ModeAfter(m[j - 1], lit[j])
    BY DEF ModesOf
  <2> HIDE DEF L
  <2>3. Q(0)
    <3>1. SubSeq(lit, 1, 0) = <<>>
      BY SubSeqEmpty
    <3>2. 7 \in 1..(L + 15) /\ "string" \in Modes
      BY <1>1 DEF Modes
    <3>3. g[7]["string"] \in Seq(Chars)
      BY <1>3, <3>2
    <3>4. <<>> \o g[7]["string"] = g[7]["string"]
      BY <3>3, ConcatEmptySeq
    <3>5. 7 + 0 = 7 /\ m[0] = "string"
      BY <2>2
    <3> QED
      BY <3>1, <3>4, <3>5
  <2>4. ASSUME NEW j \in Nat, j \in S PROVE j + 1 \in S
    <3>1. ASSUME j + 1 <= L PROVE Q(j + 1)
      <4> DEFINE rest == g[7 + (j + 1)][m[j + 1]]
      <4>1. /\ j \in 0..L /\ j < L /\ j + 1 \in 1..L /\ j + 1 \in 0..L
            /\ 6 + (j + 1) = 7 + j /\ 7 + j \in 1..(L + 14) /\ (7 + j) + 1 = 7 + (j + 1)
            /\ 7 + (j + 1) \in 1..(L + 15) /\ (j + 1) - 1 = j
        BY <1>1, <3>1
      <4>2. m[j] \in {"string", "escaped"} /\ m[j + 1] \in {"string", "escaped"}
            /\ m[j + 1] = ModeAfter(m[j], lit[j + 1])
        BY <2>1, <2>2, <4>1
      <4>3. T[7 + j] = lit[j + 1]
        BY <1>1, <4>1
      <4>4. m[j] \in Modes /\ m[j + 1] \in Modes /\ Plain(T, 7 + j, m[j]) /\ Kept(m[j], T[7 + j])
        BY <4>2 DEF Modes, Plain, Kept
      <4>5. g[7 + j][m[j]] = <<lit[j + 1]>> \o rest
        BY <1>a, <4>1, <4>2, <4>3, <4>4
      <4>6. rest \in Seq(Chars)
        BY <1>3, <4>1, <4>4
      <4> HIDE DEF rest
      <4>7. SubSeq(lit, 1, j) \o (<<lit[j + 1]>> \o rest) = SubSeq(lit, 1, j + 1) \o rest
        <5> DEFINE l == Len(lit)
        <5>1. j \in 0..l /\ j < l
          BY <4>1 DEF L
        <5> QED
          BY <4>6, <5>1, NextCharacter
      <4>8. Q(j)
        <5> HIDE DEF Q
        <5> QED
          BY <2>4, <4>1
      <4> QED
        BY <4>5, <4>7, <4>8 DEF rest
    <3> HIDE DEF Q
    <3> QED
      BY <3>1
  <2>5. 0 \in S
    BY <2>3
  <2> HIDE DEF Q, S
  <2>6. \A j \in Nat : j \in S
    BY <2>4, <2>5, Upwards
  <2>7. Q(L)
    BY <1>1, <2>6 DEF S
  <2>8. SubSeq(lit, 1, L) = lit
    BY SubSeqFull DEF L
  <2>9. 7 + L = L + 7
    BY <1>1
  <2> QED
    BY <1>6, <2>2, <2>7, <2>8, <2>9 DEF Q
<1> QED
  BY <1>2, <1>4, <1>5, <1>7 DEF T

(***************************************************************************)
(* serde_json                                                              *)
(***************************************************************************)
Then(c, rest) == IF rest = NotAString THEN rest ELSE <<c>> \o rest

Ends(text, i) == \A j \in i + 1..Len(text) : text[j] \in Space

BodyAt(g, text, i) ==
    IF i > Len(text) THEN NotAString
    ELSE CASE text[i] \in {"newline", "control"} -> NotAString
           [] text[i] = "quote" -> IF Ends(text, i) THEN <<>> ELSE NotAString
           [] text[i] = "backslash" ->
                 IF i < Len(text) /\ text[i + 1] \in DOMAIN Unescaped
                   THEN Then(Unescaped[text[i + 1]], g[i + 2])
                   ELSE NotAString
           [] OTHER -> Then(text[i], g[i + 1])

Body(text) == CHOOSE g : g = [i \in 1..Len(text) + 1 |-> BodyAt(g, text, i)]

(* The reader looks at nothing but what it makes of the rest.               *)
LEMMA BodyLooksOn ==
    ASSUME NEW text, Len(text) \in Nat, NEW i \in 1..(Len(text) + 1), NEW g, NEW h,
           \A j \in (i + 1)..(Len(text) + 1) : g[j] = h[j]
    PROVE  BodyAt(g, text, i) = BodyAt(h, text, i)
<1>1. CASE i > Len(text)
  BY <1>1 DEF BodyAt
<1>2. CASE i <= Len(text)
  <2>1. g[i + 1] = h[i + 1] /\ (i < Len(text) => g[i + 2] = h[i + 2])
    BY <1>2
  <2> QED
    BY <1>2, <2>1 DEF BodyAt
<1> QED
  BY <1>1, <1>2

(* The recursion that reads a string is well defined.                       *)
LEMMA BodyExists ==
    ASSUME NEW text, Len(text) \in Nat
    PROVE  Body(text) = [i \in 1..Len(text) + 1 |-> BodyAt(Body(text), text, i)]
<1> DEFINE N == Len(text) + 1
           P(k) == \E g : \A i \in k..N : g[i] = BodyAt(g, text, i)
           S == {d \in Nat : d < N => P(N - d)}
<1>1. N \in Nat \ {0}
  OBVIOUS
<1>2. ASSUME NEW k \in 1..N, NEW g, \A i \in (k + 1)..N : g[i] = BodyAt(g, text, i)
      PROVE  P(k)
  <2> DEFINE h == [i \in k..N |-> IF i = k THEN BodyAt(g, text, k) ELSE g[i]]
  <2>1. h[k] = BodyAt(g, text, k) /\ \A i \in (k + 1)..N : h[i] = g[i] /\ i \in 1..N
    BY <1>1, <1>2
  <2> HIDE DEF h
  <2>2. BodyAt(h, text, k) = BodyAt(g, text, k)
    BY <1>1, <2>1, BodyLooksOn
  <2>3. ASSUME NEW i \in (k + 1)..N PROVE BodyAt(h, text, i) = BodyAt(g, text, i)
    <3>1. i \in 1..N /\ \A j \in (i + 1)..N : h[j] = g[j]
      BY <1>1, <2>1
    <3> QED
      BY <3>1, BodyLooksOn
  <2>4. \A i \in k..N : h[i] = BodyAt(h, text, i)
    <3>1. ASSUME NEW i \in k..N PROVE i = k \/ i \in (k + 1)..N
      BY <1>1
    <3> QED
      BY <1>2, <2>1, <2>2, <2>3, <3>1
  <2> QED
    BY <2>4
<1>3. 0 \in S
  <2>1. \A i \in (N + 1)..N : <<>>[i] = BodyAt(<<>>, text, i)
    BY <1>1
  <2>2. P(N)
    BY <1>1, <1>2, <2>1
  <2> HIDE DEF P
  <2> QED
    BY <1>1, <2>2
<1>4. ASSUME NEW d \in Nat, d \in S PROVE d + 1 \in S
  <2>1. ASSUME d + 1 < N PROVE P(N - (d + 1))
    <3> DEFINE k == N - (d + 1)
    <3>1. k \in 1..N /\ k + 1 = N - d /\ d < N
      BY <1>1, <2>1
    <3>2. P(k + 1)
      <4> HIDE DEF P, k
      <4> QED
        BY <1>4, <3>1
    <3> HIDE DEF k
    <3>3. PICK g : \A i \in (k + 1)..N : g[i] = BodyAt(g, text, i)
      BY <3>2
    <3>4. P(k)
      BY <1>2, <3>1, <3>3
    <3> QED
      BY <3>4 DEF k
  <2> HIDE DEF P
  <2> QED
    BY <2>1
<1> HIDE DEF P, S
<1>5. \A d \in Nat : d \in S
  BY <1>3, <1>4, Upwards
<1>6. P(1)
  <2>1. N - 1 \in Nat /\ N - 1 < N /\ N - (N - 1) = 1
    BY <1>1
  <2>2. N - 1 \in S
    BY <1>5, <2>1
  <2> QED
    BY <2>1, <2>2 DEF S
<1>7. PICK g : \A i \in 1..N : g[i] = BodyAt(g, text, i)
  BY <1>6 DEF P
<1> DEFINE f == [i \in 1..N |-> g[i]]
<1>8. \A i \in 1..N : BodyAt(f, text, i) = BodyAt(g, text, i)
  <2>1. ASSUME NEW i \in 1..N PROVE BodyAt(f, text, i) = BodyAt(g, text, i)
    <3>1. \A j \in (i + 1)..N : f[j] = g[j]
      BY <1>1
    <3> HIDE DEF f
    <3> QED
      BY <3>1, BodyLooksOn
  <2> QED
    BY <2>1
<1>9. f = [i \in 1..N |-> BodyAt(f, text, i)]
  BY <1>7, <1>8
<1> HIDE DEF f
<1> QED
  BY <1>9 DEF Body

(* What a step of it makes of a character.                                  *)
LEMMA BodySteps ==
    ASSUME NEW text, Len(text) \in Nat, NEW i \in 1..(Len(text) + 1)
    PROVE  /\ i > Len(text) => Body(text)[i] = NotAString
           /\ i <= Len(text) /\ text[i] \in {"newline", "control"} => Body(text)[i] = NotAString
           /\ i <= Len(text) /\ text[i] = "quote" =>
                 Body(text)[i] = IF Ends(text, i) THEN <<>> ELSE NotAString
           /\ i <= Len(text) /\ text[i] = "backslash" =>
                 Body(text)[i] = IF i < Len(text) /\ text[i + 1] \in DOMAIN Unescaped
                                   THEN Then(Unescaped[text[i + 1]], Body(text)[i + 2])
                                   ELSE NotAString
           /\ i <= Len(text) /\ text[i] \notin {"newline", "control", "quote", "backslash"} =>
                 Body(text)[i] = Then(text[i], Body(text)[i + 1])
<1> DEFINE g == Body(text)
<1>1. g[i] = BodyAt(g, text, i)
  BY BodyExists
<1> HIDE DEF g
<1>2. i > Len(text) => BodyAt(g, text, i) = NotAString
  BY DEF BodyAt
<1>3. i <= Len(text) /\ text[i] \in {"newline", "control"} => BodyAt(g, text, i) = NotAString
  BY DEF BodyAt
<1>4. i <= Len(text) /\ text[i] = "quote" =>
         BodyAt(g, text, i) = IF Ends(text, i) THEN <<>> ELSE NotAString
  BY DEF BodyAt
<1>5. i <= Len(text) /\ text[i] = "backslash" =>
         BodyAt(g, text, i) = IF i < Len(text) /\ text[i + 1] \in DOMAIN Unescaped
                                THEN Then(Unescaped[text[i + 1]], g[i + 2])
                                ELSE NotAString
  BY DEF BodyAt
<1>6. i <= Len(text) /\ text[i] \notin {"newline", "control", "quote", "backslash"} =>
         BodyAt(g, text, i) = Then(text[i], g[i + 1])
  BY DEF BodyAt
<1> QED
  BY <1>1, <1>2, <1>3, <1>4, <1>5, <1>6 DEF g

(* What reading a string can come to.                                       *)
Readings == Seq(Chars) \cup {NotAString}

(* What marks a failure is no text.                                         *)
LEMMA FailureIsNoText == NotAString \notin Seq(Chars)
<1>1. SUFFICES ASSUME NotAString \in Seq(Chars) PROVE FALSE
  OBVIOUS
<1>2. Len(NotAString) = 1 /\ NotAString[1] = "not a string"
  BY DEF NotAString
<1>3. 1 \in 1..Len(NotAString)
  <2>1. 1 \in 1..1
    OBVIOUS
  <2> QED
    BY <1>2, <2>1
<1>4. NotAString[1] \in Chars
  BY <1>1, <1>3, ElementOfSeq
<1> QED
  BY <1>2, <1>4 DEF Chars

(* What is read is a text, or a failure.                                    *)
LEMMA BodyIsText ==
    ASSUME NEW text \in Seq(Chars), NEW k \in 1..(Len(text) + 1)
    PROVE  Body(text)[k] \in Readings
<1> DEFINE N == Len(text) + 1
           g == Body(text)
           S == {i \in Nat : g[i] \in Readings}
<1>1. Len(text) \in Nat /\ N \in Nat
  BY LenProperties
<1>2. \A c \in Chars, rest \in Readings : Then(c, rest) \in Readings
  <2>1. ASSUME NEW c \in Chars, NEW rest \in Seq(Chars) PROVE <<c>> \o rest \in Seq(Chars)
    <3> DEFINE b == <<c>>
    <3>1. b \in Seq(Chars)
      OBVIOUS
    <3> HIDE DEF b
    <3>2. b \o rest \in Seq(Chars)
      BY <3>1, ConcatProperties
    <3> QED
      BY <3>2 DEF b
  <2> QED
    BY <2>1 DEF Then, Readings
<1>3. \A c \in DOMAIN Unescaped : Unescaped[c] \in Chars
  BY DEF Unescaped, Chars
<1>4. <<>> \in Readings /\ NotAString \in Readings
  BY EmptySeq DEF Readings
<1>5. ASSUME NEW i \in 1..N, \A j \in (i + 1)..N : j \in S
      PROVE  i \in S
  <2>1. \A j \in (i + 1)..N : g[j] \in Readings
    BY <1>5
  <2> SUFFICES g[i] \in Readings
    OBVIOUS
  <2> HIDE DEF S
  <2>2. i \in 1..(Len(text) + 1)
    OBVIOUS
  <2>3. CASE i > Len(text)
    <3>1. g[i] = NotAString
      BY <1>1, <2>2, <2>3, BodySteps
    <3> HIDE DEF g
    <3> QED
      BY <1>4, <3>1
  <2>4. CASE i <= Len(text) /\ text[i] \in {"newline", "control"}
    <3>1. g[i] = NotAString
      BY <1>1, <2>2, <2>4, BodySteps
    <3> HIDE DEF g
    <3> QED
      BY <1>4, <3>1
  <2>5. CASE i <= Len(text) /\ text[i] = "quote"
    <3>1. g[i] = IF Ends(text, i) THEN <<>> ELSE NotAString
      BY <1>1, <2>2, <2>5, BodySteps
    <3> HIDE DEF g
    <3> QED
      BY <1>4, <3>1
  <2>6. CASE i <= Len(text) /\ text[i] = "backslash"
    <3>1. g[i] = IF i < Len(text) /\ text[i + 1] \in DOMAIN Unescaped
                   THEN Then(Unescaped[text[i + 1]], g[i + 2]) ELSE NotAString
      BY <1>1, <2>2, <2>6, BodySteps
    <3> HIDE DEF g
    <3>2. i < Len(text) => i + 2 \in (i + 1)..N
      BY <1>1, <2>6
    <3>3. CASE i < Len(text) /\ text[i + 1] \in DOMAIN Unescaped
      <4>1. Unescaped[text[i + 1]] \in Chars /\ g[i + 2] \in Readings
        BY <1>3, <2>1, <3>2, <3>3
      <4> QED
        BY <1>2, <3>1, <3>3, <4>1
    <3>4. CASE ~(i < Len(text) /\ text[i + 1] \in DOMAIN Unescaped)
      BY <1>4, <3>1, <3>4
    <3> QED
      BY <3>3, <3>4
  <2>7. CASE i <= Len(text) /\ text[i] \notin {"newline", "control", "quote", "backslash"}
    <3>1. g[i] = Then(text[i], g[i + 1])
      BY <1>1, <2>2, <2>7, BodySteps
    <3> HIDE DEF g
    <3>2. i + 1 \in (i + 1)..N /\ text[i] \in Chars
      BY <1>1, <2>7, ElementOfSeq
    <3>3. g[i + 1] \in Readings
      BY <2>1, <3>2
    <3> QED
      BY <1>2, <3>1, <3>2, <3>3
  <2>8. i <= Len(text) \/ i > Len(text)
    BY <1>1
  <2> HIDE DEF g
  <2> QED
    BY <2>3, <2>4, <2>5, <2>6, <2>7, <2>8
<1> HIDE DEF S
<1>6. \A i \in 1..N : i \in S
  <2> HIDE DEF N
  <2> QED
    BY <1>1, <1>5, Downwards
<1> QED
  BY <1>6 DEF S

FirstOf(text) ==
    LET start == {i \in DOMAIN text : text[i] \notin Space}
    IN  CHOOSE i \in start : \A j \in start : i <= j

(* A string is read from behind its quote, and is a text or a failure.      *)
LEMMA ReadIsText ==
    ASSUME NEW text \in Seq(Chars)
    PROVE  /\ ReadString(text) \in Readings
           /\ Len(text) > 1 /\ text[1] = "newline" /\ text[2] = "quote" =>
                  ReadString(text) = Body(text)[3]
<1> DEFINE start == {i \in DOMAIN text : text[i] \notin Space}
           first == CHOOSE i \in start : \A j \in start : i <= j
<1>1. ReadString(text) = IF start # {} /\ text[first] = "quote" THEN Body(text)[first + 1] ELSE NotAString
  BY DEF ReadString, Body, BodyAt, Then, Ends
<1>2. Len(text) \in Nat /\ DOMAIN text = 1..Len(text)
  BY LenProperties
<1>3. start # {} => first \in 1..Len(text) /\ first \in start /\ \A j \in start : first <= j
  <2>1. ASSUME start # {} PROVE first \in start /\ \A j \in start : first <= j
    <3>1. start \in SUBSET Nat
      BY <1>2
    <3> HIDE DEF start
    <3>2. \E i \in start : \A j \in start : i <= j
      BY <2>1, <3>1, LeastNat
    <3> QED
      BY <3>2
  <2> HIDE DEF first
  <2> QED
    BY <1>2, <2>1
<1> HIDE DEF first
<1>4. ReadString(text) \in Readings
  <2>1. CASE start # {} /\ text[first] = "quote"
    <3>1. first + 1 \in 1..(Len(text) + 1)
      BY <1>2, <1>3, <2>1
    <3> HIDE DEF start
    <3> QED
      BY <1>1, <2>1, <3>1, BodyIsText
  <2>2. CASE ~(start # {} /\ text[first] = "quote")
    BY <1>1, <2>2 DEF Readings
  <2> QED
    BY <2>1, <2>2
<1>5. ASSUME Len(text) > 1, text[1] = "newline", text[2] = "quote"
      PROVE  ReadString(text) = Body(text)[3]
  <2>1. 1 \notin start /\ 2 \in start
    BY <1>2, <1>5 DEF Space
  <2>2. first \in 1..Len(text) /\ first # 1 /\ first <= 2
    BY <1>3, <2>1
  <2>3. first = 2 /\ first + 1 = 3
    BY <1>2, <2>2
  <2> HIDE DEF start
  <2> QED
    BY <1>1, <1>5, <2>1, <2>3
<1> QED
  BY <1>4, <1>5

(* What is left of an entry, character by character.                        *)
LEMMA StringShape ==
    ASSUME NEW lit \in Seq(Chars), NEW R,
           R = <<"newline">> \o (<<"quote">> \o (lit \o (<<"quote">> \o <<"newline">>)))
    PROVE  /\ Len(lit) \in Nat /\ R \in Seq(Chars) /\ Len(R) = Len(lit) + 4
           /\ R[1] = "newline" /\ R[2] = "quote"
           /\ \A k \in 1..Len(lit) : R[2 + k] = lit[k]
           /\ R[Len(lit) + 3] = "quote" /\ R[Len(lit) + 4] = "newline"
<1> DEFINE q == <<"quote">>
           e == <<"newline">>
           t == q \o e
           a == lit \o t
           b == q \o a
           L == Len(lit)
<1>1. /\ q \in Seq(Chars) /\ Len(q) = 1 /\ q[1] = "quote"
      /\ e \in Seq(Chars) /\ Len(e) = 1 /\ e[1] = "newline"
  BY DEF Chars
<1>2. L \in Nat
  BY LenProperties
<1> HIDE DEF q, e
<1>3. t \in Seq(Chars) /\ Len(t) = 2 /\ t[1] = "quote" /\ t[2] = "newline"
  <2>1. /\ t \in Seq(Chars) /\ Len(t) = Len(q) + Len(e)
        /\ \A j \in 1..Len(q) : t[j] = q[j]
        /\ \A j \in 1..Len(e) : t[Len(q) + j] = e[j]
    BY <1>1, ConcatParts
  <2> HIDE DEF t
  <2>2. 1 \in 1..1 /\ 1 + 1 = 2
    OBVIOUS
  <2> QED
    BY <1>1, <2>1, <2>2
<1> HIDE DEF t
<1>4. /\ a \in Seq(Chars) /\ Len(a) = L + 2
      /\ \A j \in 1..L : a[j] = lit[j]
      /\ a[L + 1] = "quote" /\ a[L + 2] = "newline"
  <2>1. /\ a \in Seq(Chars) /\ Len(a) = L + Len(t)
        /\ \A j \in 1..L : a[j] = lit[j]
        /\ \A j \in 1..Len(t) : a[L + j] = t[j]
    <3>1. t \in Seq(Chars)
      BY <1>3
    <3> QED
      BY <3>1, ConcatParts
  <2> HIDE DEF a, L
  <2>2. 1 \in 1..2 /\ 2 \in 1..2
    OBVIOUS
  <2> QED
    BY <1>2, <1>3, <2>1, <2>2
<1> HIDE DEF a
<1>5. /\ b \in Seq(Chars) /\ Len(b) = L + 3 /\ b[1] = "quote"
      /\ \A j \in 1..(L + 2) : b[1 + j] = a[j]
  <2>1. /\ b \in Seq(Chars) /\ Len(b) = Len(q) + Len(a)
        /\ \A j \in 1..Len(q) : b[j] = q[j]
        /\ \A j \in 1..Len(a) : b[Len(q) + j] = a[j]
    <3>1. q \in Seq(Chars) /\ a \in Seq(Chars)
      BY <1>1, <1>4
    <3> QED
      BY <3>1, ConcatParts
  <2> HIDE DEF b, L
  <2>2. 1 \in 1..1 /\ 1 + (L + 2) = L + 3
    BY <1>2
  <2> QED
    BY <1>1, <1>4, <2>1, <2>2
<1> HIDE DEF b
<1>6. /\ R \in Seq(Chars) /\ Len(R) = L + 4 /\ R[1] = "newline"
      /\ \A j \in 1..(L + 3) : R[1 + j] = b[j]
  <2>0. R = e \o b
    BY DEF e, b, a, t, q
  <2>1. /\ R \in Seq(Chars) /\ Len(R) = Len(e) + Len(b)
        /\ \A j \in 1..Len(e) : R[j] = e[j]
        /\ \A j \in 1..Len(b) : R[Len(e) + j] = b[j]
    <3>1. e \in Seq(Chars) /\ b \in Seq(Chars)
      BY <1>1, <1>5
    <3>2. /\ e \o b \in Seq(Chars) /\ Len(e \o b) = Len(e) + Len(b)
          /\ \A j \in 1..Len(e) : (e \o b)[j] = e[j]
          /\ \A j \in 1..Len(b) : (e \o b)[Len(e) + j] = b[j]
      BY <3>1, ConcatParts
    <3> QED
      BY <2>0, <3>2
  <2> HIDE DEF L
  <2>2. 1 \in 1..1 /\ 1 + (L + 3) = L + 4
    BY <1>2
  <2> QED
    BY <1>1, <1>5, <2>1, <2>2
<1>7. \A j \in 1..(L + 2) : R[2 + j] = a[j]
  <2>1. ASSUME NEW j \in 1..(L + 2) PROVE R[2 + j] = a[j]
    <3>1. 1 + j \in 1..(L + 3) /\ 1 + (1 + j) = 2 + j
      BY <1>2
    <3>2. R[1 + (1 + j)] = b[1 + j] /\ b[1 + j] = a[j]
      BY <1>5, <1>6, <3>1
    <3> QED
      BY <3>1, <3>2
  <2> QED
    BY <2>1
<1>8. R[2] = "quote"
  <2>1. 1 \in 1..(L + 3) /\ 1 + 1 = 2
    BY <1>2
  <2> QED
    BY <1>5, <1>6, <2>1
<1>9. R[L + 3] = "quote" /\ R[L + 4] = "newline"
  <2>1. L + 1 \in 1..(L + 2) /\ 2 + (L + 1) = L + 3 /\ L + 2 \in 1..(L + 2) /\ 2 + (L + 2) = L + 4
    BY <1>2
  <2> QED
    BY <1>4, <1>7, <2>1
<1>10. \A k \in 1..L : R[2 + k] = lit[k]
  <2>1. ASSUME NEW k \in 1..L PROVE R[2 + k] = lit[k]
    <3>1. k \in 1..(L + 2)
      BY <1>2
    <3> QED
      BY <1>4, <1>7, <3>1
  <2> QED
    BY <2>1
<1> QED
  BY <1>2, <1>6, <1>8, <1>9, <1>10

(* How a character goes into a literal.                                     *)
LEMMA LiteralStep ==
    ASSUME NEW value \in Seq(Chars), NEW k \in 0..Len(value), k < Len(value)
    PROVE  /\ Len(Written(value)[k]) \in Nat
           /\ Len(Written(value)[k + 1]) = Len(Written(value)[k]) + Len(Escaped(value[k + 1]))
           /\ Len(Written(value)[k + 1]) <= Len(Literal(value))
           /\ \A j \in 1..Len(Escaped(value[k + 1])) :
                 Literal(value)[Len(Written(value)[k]) + j] = Escaped(value[k + 1])[j]
<1> DEFINE w == Written(value)
           c == value[k + 1]
           x == Escaped(c)
           l == Literal(value)
<1>1. k + 1 \in 1..Len(value) /\ k + 1 \in 0..Len(value) /\ (k + 1) - 1 = k /\ Len(value) \in Nat
  BY LenProperties
<1>2. c \in Chars
  BY <1>1, ElementOfSeq
<1>3. x \in Seq(Chars) /\ Len(x) \in {1, 2}
  BY <1>2, EscapedShape
<1>4. w[k] \in Seq(Chars) /\ w[k + 1] = w[k] \o x
  BY <1>1, WrittenSteps
<1>5. /\ Len(w[k + 1]) \in Nat /\ Len(w[k + 1]) <= Len(l)
      /\ \A j \in 1..Len(w[k + 1]) : l[j] = w[k + 1][j]
  BY <1>1, WrittenBegins
<1> DEFINE a == w[k]
           b == w[k + 1]
<1>6. a \in Seq(Chars) /\ b = a \o x
  BY <1>4
<1> HIDE DEF x, a, w, b, l
<1>7. /\ Len(a) \in Nat /\ Len(x) \in Nat /\ Len(b) = Len(a) + Len(x)
      /\ \A j \in 1..Len(x) : b[Len(a) + j] = x[j]
  <2>1. /\ Len(a) \in Nat /\ Len(x) \in Nat /\ Len(a \o x) = Len(a) + Len(x)
        /\ \A j \in 1..Len(x) : (a \o x)[Len(a) + j] = x[j]
    BY <1>3, <1>6, ConcatParts
  <2> QED
    BY <1>6, <2>1
<1>8. \A j \in 1..Len(x) : l[Len(a) + j] = x[j]
  <2>1. ASSUME NEW j \in 1..Len(x) PROVE l[Len(a) + j] = x[j]
    <3>1. Len(a) + j \in 1..Len(b)
      BY <1>7
    <3>2. l[Len(a) + j] = b[Len(a) + j]
      BY <1>5, <3>1 DEF b
    <3> QED
      BY <1>7, <3>2
  <2> QED
    BY <2>1
<1> QED
  BY <1>5, <1>7, <1>8 DEF a, b, w, x, l

(* What is written of a string is read as that string, and of one with a    *)
(* control character as none (escape_json_string, strip_json_comments).     *)
THEOREM ReadBack ==
    ASSUME NEW value \in Seq(Chars)
    PROVE  Meaning(Literal(value)) = IF HasControl(value) THEN NotAString ELSE value
<1> DEFINE l == Literal(value)
           R == Stripped(EntryOf(l))
           g == Body(R)
           w == Written(value)
           n == Len(value)
           at(k) == g[3 + Len(w[k])]
           Clean(k) == \A i \in 1..k : value[i] # "control"
           Q(k) == IF Clean(k)
                     THEN g[3] = IF at(k) = NotAString THEN NotAString ELSE SubSeq(value, 1, k) \o at(k)
                     ELSE g[3] = NotAString
           S == {k \in Nat : k <= n => Q(k)}
<1>1. n \in Nat /\ \A i \in 1..n : value[i] \in Chars
  BY LenProperties, ElementOfSeq
<1>2. l \in Seq(Chars) /\ \E m : ModesOf(l, m)
  BY LiteralModes
<1>3. R = <<"newline">> \o (<<"quote">> \o (l \o (<<"quote">> \o <<"newline">>)))
  <2> HIDE DEF l, R
  <2>1. PICK m : ModesOf(l, m)
    BY <1>2
  <2> QED
    BY <1>2, <2>1, CommentsGo DEF R
<1>4. l = w[n] /\ w[0] = <<>>
  BY WrittenSteps
<1> HIDE DEF l, R
<1>5. /\ Len(l) \in Nat /\ R \in Seq(Chars) /\ Len(R) = Len(l) + 4
      /\ R[1] = "newline" /\ R[2] = "quote"
      /\ \A k \in 1..Len(l) : R[2 + k] = l[k]
      /\ R[Len(l) + 3] = "quote" /\ R[Len(l) + 4] = "newline"
  BY <1>2, <1>3, StringShape
<1>6. Meaning(l) = g[3]
  <2>1. Len(R) > 1
    BY <1>5
  <2> QED
    BY <1>5, <2>1, ReadIsText DEF Meaning, R
<1>7. \A i \in 1..(Len(R) + 1) : g[i] \in Readings
  BY <1>5, BodyIsText
<1>8. at(n) = <<>>
  <2>1. 3 + Len(w[n]) = Len(l) + 3
    BY <1>4, <1>5
  <2>2. Len(l) + 3 \in 1..(Len(R) + 1) /\ Len(l) + 3 <= Len(R) /\ Len(R) \in Nat
    BY <1>5
  <2>3. Ends(R, Len(l) + 3)
    <3>1. \A j \in (Len(l) + 3) + 1..Len(R) : j = Len(l) + 4
      BY <1>5
    <3> QED
      BY <1>5, <3>1 DEF Ends, Space
  <2>4. g[Len(l) + 3] = <<>>
    BY <1>5, <2>2, <2>3, BodySteps
  <2> QED
    BY <2>1, <2>4
<1>9. ASSUME NEW k \in 0..n, k < n
      PROVE  /\ at(k) = IF value[k + 1] = "control" THEN NotAString ELSE Then(value[k + 1], at(k + 1))
             /\ at(k + 1) \in Readings
  <2> DEFINE c == value[k + 1]
             x == Escaped(c)
             p == 3 + Len(w[k])
  <2>1. /\ Len(w[k]) \in Nat /\ Len(w[k + 1]) = Len(w[k]) + Len(x) /\ Len(w[k + 1]) <= Len(l)
        /\ \A j \in 1..Len(x) : l[Len(w[k]) + j] = x[j]
    BY <1>9, LiteralStep DEF l
  <2>2. c \in Chars
    BY <1>1, <1>9
  <2>3. /\ Len(x) \in {1, 2}
        /\ c \in {"quote", "backslash", "newline"} =>
              Len(x) = 2 /\ x[1] = "backslash" /\ x[2] = IF c = "newline" THEN "n" ELSE c
        /\ c \notin {"quote", "backslash", "newline"} => x = <<c>>
    BY <2>2, EscapedShape
  <2>4. c \notin {"quote", "backslash", "newline"} => Len(x) = 1 /\ x[1] = c
    BY <2>3
  <2> HIDE DEF x, c, w, g, n
  <2>5. \A j \in 1..Len(x) : R[(p - 1) + j] = x[j]
    <3>1. ASSUME NEW j \in 1..Len(x) PROVE R[(p - 1) + j] = x[j]
      <4>1. Len(w[k]) + j \in 1..Len(l) /\ 2 + (Len(w[k]) + j) = (p - 1) + j
        BY <1>5, <2>1, <2>3
      <4>2. R[2 + (Len(w[k]) + j)] = l[Len(w[k]) + j] /\ l[Len(w[k]) + j] = x[j]
        BY <1>5, <2>1, <4>1
      <4> QED
        BY <4>1, <4>2
    <3> QED
      BY <3>1
  <2>6. R[p] = x[1] /\ (Len(x) = 2 => R[p + 1] = x[2])
    <3>1. p \in Nat
      BY <2>1
    <3> HIDE DEF p
    <3>2. (p - 1) + 1 = p /\ (p - 1) + 2 = p + 1
      BY <3>1
    <3>3. 1 \in 1..Len(x) /\ (Len(x) = 2 => 2 \in 1..Len(x))
      BY <2>3
    <3> QED
      BY <2>5, <3>2, <3>3
  <2>7. /\ p \in 1..(Len(R) + 1) /\ p < Len(R) /\ Len(R) \in Nat
        /\ 3 + Len(w[k + 1]) = p + Len(x) /\ 3 + Len(w[k + 1]) \in 1..(Len(R) + 1)
    BY <1>5, <2>1, <2>3
  <2>8. at(k + 1) \in Readings
    BY <1>7, <2>7
  <2>9. at(k) = g[p]
    OBVIOUS
  <2> HIDE DEF p
  <2>10. CASE c \in {"quote", "backslash", "newline"}
    <3>1. R[p] = "backslash" /\ R[p + 1] \in DOMAIN Unescaped /\ Unescaped[R[p + 1]] = c
      BY <2>3, <2>6, <2>10 DEF Unescaped
    <3>2. g[p] = IF p < Len(R) /\ R[p + 1] \in DOMAIN Unescaped
                   THEN Then(Unescaped[R[p + 1]], g[p + 2]) ELSE NotAString
      <4>1. R[p] = "backslash" /\ p \in 1..(Len(R) + 1) /\ p <= Len(R) /\ Len(R) \in Nat
        BY <2>7, <3>1
      <4> QED
        BY <4>1, BodySteps DEF g
    <3>3. p + 2 = 3 + Len(w[k + 1]) /\ c # "control"
      BY <2>3, <2>7, <2>10
    <3> QED
      BY <2>7, <2>8, <2>9, <3>1, <3>2, <3>3 DEF c
  <2>11. CASE c = "control"
    <3>1. R[p] = "control"
      BY <2>4, <2>6, <2>11
    <3>2. g[p] = NotAString
      <4>1. R[p] = "control" /\ p \in 1..(Len(R) + 1) /\ p <= Len(R) /\ Len(R) \in Nat
        BY <2>7, <3>1
      <4> QED
        BY <4>1, BodySteps DEF g
    <3> QED
      BY <2>8, <2>9, <2>11, <3>2 DEF c
  <2>12. CASE c \notin {"quote", "backslash", "newline", "control"}
    <3>1. R[p] = c /\ R[p] \notin {"newline", "control", "quote", "backslash"}
      BY <2>4, <2>6, <2>12
    <3>2. g[p] = Then(c, g[p + 1])
      <4>1. p \in 1..(Len(R) + 1) /\ p <= Len(R) /\ Len(R) \in Nat
        BY <2>7
      <4>2. g[p] = Then(R[p], g[p + 1])
        BY <3>1, <4>1, BodySteps DEF g
      <4> QED
        BY <3>1, <4>2
    <3>3. p + 1 = 3 + Len(w[k + 1]) /\ c # "control"
      BY <2>4, <2>7, <2>12
    <3> QED
      BY <2>8, <2>9, <3>2, <3>3 DEF c
  <2> QED
    BY <2>10, <2>11, <2>12
<1>10. at(0) = g[3] /\ g[3] \in Readings
  <2>1. Len(w[0]) = 0 /\ 3 + 0 = 3
    BY <1>4
  <2>2. 3 \in 1..(Len(R) + 1)
    BY <1>5
  <2> HIDE DEF g, w
  <2> QED
    BY <1>7, <2>1, <2>2
<1>11. Q(0)
  <2>1. SubSeq(value, 1, 0) = <<>>
    BY SubSeqEmpty
  <2> HIDE DEF at, g
  <2>2. g[3] # NotAString => <<>> \o g[3] = g[3]
    BY <1>10, ConcatEmptySeq DEF Readings
  <2>3. Clean(0)
    OBVIOUS
  <2> QED
    BY <1>10, <2>1, <2>2, <2>3
<1>12. ASSUME NEW k \in Nat, k \in S PROVE k + 1 \in S
  <2>1. ASSUME k + 1 <= n PROVE Q(k + 1)
    <3>1. k \in 0..n /\ k < n /\ k + 1 \in 1..n
      BY <1>1, <2>1
    <3>2. Q(k)
      <4> HIDE DEF Q
      <4> QED
        BY <1>12, <3>1
    <3>3. Clean(k + 1) <=> Clean(k) /\ value[k + 1] # "control"
      <4>1. \A i \in 1..(k + 1) : i \in 1..k \/ i = k + 1
        OBVIOUS
      <4>2. k + 1 \in 1..(k + 1) /\ \A i \in 1..k : i \in 1..(k + 1)
        OBVIOUS
      <4> QED
        BY <4>1, <4>2
    <3>4. /\ at(k) = IF value[k + 1] = "control" THEN NotAString ELSE Then(value[k + 1], at(k + 1))
          /\ at(k + 1) \in Readings
      <4> HIDE DEF at
      <4> QED
        BY <1>9, <3>1
    <3> DEFINE rest == at(k + 1)
               c == value[k + 1]
    <3>5. ASSUME rest # NotAString
          PROVE  /\ SubSeq(value, 1, k) \o (<<c>> \o rest) = SubSeq(value, 1, k + 1) \o rest
                 /\ <<c>> \o rest # NotAString
      <4>1. rest \in Seq(Chars)
        BY <3>4, <3>5 DEF Readings
      <4> HIDE DEF rest
      <4>2. k \in 0..Len(value) /\ k < Len(value)
        BY <3>1
      <4>3. SubSeq(value, 1, k) \o (<<c>> \o rest) = SubSeq(value, 1, k + 1) \o rest
        BY <4>1, <4>2, NextCharacter
      <4>4. <<c>> \in Seq(Chars)
        BY <1>1, <3>1
      <4> HIDE DEF c
      <4>5. <<c>> \o rest \in Seq(Chars)
        <5> DEFINE b == <<c>>
        <5>1. b \in Seq(Chars)
          BY <4>4
        <5> HIDE DEF b
        <5>2. b \o rest \in Seq(Chars)
          BY <4>1, <5>1, ConcatProperties
        <5> QED
          BY <5>2 DEF b
      <4> QED
        BY <4>3, <4>5, FailureIsNoText DEF c
    <3> HIDE DEF at, Clean
    <3> QED
      BY <3>2, <3>3, <3>4, <3>5 DEF Then
  <2> HIDE DEF Q
  <2> QED
    BY <2>1
<1>13. 0 \in S
  BY <1>11
<1> HIDE DEF Q, S
<1>14. \A k \in Nat : k \in S
  BY <1>12, <1>13, Upwards
<1>15. Q(n)
  BY <1>1, <1>14 DEF S
<1>16. HasControl(value) <=> ~Clean(n)
  BY LenProperties DEF HasControl
<1>17. SubSeq(value, 1, n) \o <<>> = value
  BY SubSeqFull, ConcatEmptySeq
<1>18. <<>> # NotAString
  BY DEF NotAString
<1> HIDE DEF Clean, at, g, n
<1> QED
  BY <1>6, <1>8, <1>15, <1>16, <1>17, <1>18 DEF Q, l

(* What a literal means is a text, or nothing.                              *)
LEMMA MeaningIsText == ASSUME NEW lit \in Seq(Chars) PROVE Meaning(lit) \in Readings
<1>1. EntryOf(lit) \in Seq(Chars)
  BY EntryShape
<1>2. Stripped(EntryOf(lit)) \in Seq(Chars)
  BY <1>1, StrippedIsText
<1> QED
  BY <1>2, ReadIsText DEF Meaning

(***************************************************************************)
(* load and save                                                           *)
(***************************************************************************)

(* The save mode is limited once.                                           *)
LEMMA CappedMode ==
    ASSUME NEW m \in Nat
    PROVE  Capped(m) \in Nat /\ Capped(Capped(m)) = Capped(m) /\ (m <= 2 => Capped(m) = m)
BY DEF Capped

(* A file holds settings, or is unreadable.                                 *)
LEMMA ParsedSettings ==
    /\ Parsed(Absent) = Default /\ Parsed(Torn) = Unreadable
    /\ \A f \in FileTexts : Parsed(f) \in Settings \cup {Unreadable}
<1>1. Parsed(Absent) = Default
  BY MarksAssumption DEF Parsed
<1>2. Parsed(Torn) = Unreadable
  BY MarksAssumption DEF Parsed
<1>3. ASSUME NEW f \in FileTexts PROVE Parsed(f) \in Settings \cup {Unreadable}
  <2> DEFINE v == StringOrDefault(f.version, "version")
             b == StringOrDefault(f.bind_addr, "bind_addr")
             p == OrDefault(f.protocol, "protocol")
             o == OrDefault(f.port, "port")
             s == OrDefault(f.savemode, "savemode")
             read == [version |-> v, protocol |-> p, port |-> o, bind_addr |-> b, savemode |-> s]
  <2>1. f # Absent /\ f # Torn
    BY MarksAssumption
  <2>2. v \in Readings /\ b \in Readings
    <3>1. f.version \in Seq(Chars) \cup {Missing} /\ f.bind_addr \in Seq(Chars) \cup {Missing}
      BY DEF FileTexts
    <3>2. Default.version \in Seq(Chars) /\ Default.bind_addr \in Seq(Chars)
      BY DefaultAssumption DEF Settings
    <3> QED
      BY <3>1, <3>2, MeaningIsText DEF StringOrDefault, Readings
  <2>3. p \in Protocols /\ o \in Ports /\ s \in Nat
    <3>1. /\ f.protocol \in Protocols \cup {Missing} /\ f.port \in Ports \cup {Missing}
          /\ f.savemode \in Nat \cup {Missing}
      BY DEF FileTexts
    <3>2. Default.protocol \in Protocols /\ Default.port \in Ports /\ Default.savemode \in Nat
      BY DefaultAssumption DEF Settings
    <3> QED
      BY <3>1, <3>2 DEF OrDefault
  <2>4. Parsed(f) = IF NotAString \in {read.version, read.bind_addr} THEN Unreadable ELSE read
    BY <2>1 DEF Parsed
  <2> HIDE DEF v, b, p, o, s
  <2>5. CASE v = NotAString \/ b = NotAString
    BY <2>4, <2>5
  <2>6. CASE v # NotAString /\ b # NotAString
    BY <2>2, <2>3, <2>4, <2>6 DEF Settings, Readings
  <2> QED
    BY <2>5, <2>6
<1> QED
  BY <1>1, <1>2, <1>3

(* What is completed of settings, key by key.                               *)
LEMMA NormalizedIs ==
    ASSUME NEW c \in Settings
    PROVE  Normalized(c) = [version   |-> IF IsBlank(c.version) THEN LatestVersion ELSE c.version,
                            protocol  |-> IF c.protocol = 0 THEN LatestProtocol ELSE c.protocol,
                            port      |-> c.port, bind_addr |-> c.bind_addr,
                            savemode  |-> Capped(c.savemode)]
<1> DEFINE v == IF IsBlank(c.version) THEN LatestVersion ELSE c.version
           p == IF c.protocol = 0 THEN LatestProtocol ELSE c.protocol
           s == Capped(c.savemode)
<1>1. Normalized(c) = [[[c EXCEPT !.version = v] EXCEPT !.protocol = p] EXCEPT !.savemode = s]
  BY DEF Normalized, Settings
<1> HIDE DEF v, p, s
<1> DEFINE Rec(v1, p1, s1) ==
               [version |-> v1, protocol |-> p1, port |-> c.port, bind_addr |-> c.bind_addr,
                savemode |-> s1]
           c1 == [c EXCEPT !.version = v]
           c2 == [c1 EXCEPT !.protocol = p]
<1>2. c = Rec(c.version, c.protocol, c.savemode)
  BY DEF Settings
<1>3. c1 = Rec(v, c.protocol, c.savemode)
  BY <1>2
<1> HIDE DEF c1
<1>4. c2 = Rec(v, p, c.savemode)
  BY <1>3
<1> HIDE DEF c2
<1>5. [c2 EXCEPT !.savemode = s] = Rec(v, p, s)
  BY <1>4
<1> QED
  BY <1>1, <1>5 DEF c1, c2, v, p, s

(* normalize_supported_version changes nothing twice, and no default.       *)
LEMMA NormalizedSettings ==
    /\ Normalized(Default) = Default
    /\ \A c \in Settings :
          /\ Normalized(c) \in Settings /\ Normalized(Normalized(c)) = Normalized(c)
          /\ Normalized(c).port = c.port /\ Normalized(c).bind_addr = c.bind_addr
          /\ Normalized(c).protocol = IF c.protocol = 0 THEN LatestProtocol ELSE c.protocol
          /\ Normalized(c).version = IF IsBlank(c.version) THEN LatestVersion ELSE c.version
          /\ Normalized(c).savemode = Capped(c.savemode)
<1>1. ASSUME NEW c \in Settings
      PROVE  /\ Normalized(c) = [version   |-> IF IsBlank(c.version) THEN LatestVersion ELSE c.version,
                                 protocol  |-> IF c.protocol = 0 THEN LatestProtocol ELSE c.protocol,
                                 port      |-> c.port, bind_addr |-> c.bind_addr,
                                 savemode  |-> Capped(c.savemode)]
             /\ Normalized(c) \in Settings
  <2>1. /\ c.version \in Seq(Chars) /\ c.protocol \in Protocols /\ c.port \in Ports
        /\ c.bind_addr \in Seq(Chars) /\ c.savemode \in Nat
    BY DEF Settings
  <2>2. Normalized(c) = [version   |-> IF IsBlank(c.version) THEN LatestVersion ELSE c.version,
                         protocol  |-> IF c.protocol = 0 THEN LatestProtocol ELSE c.protocol,
                         port      |-> c.port, bind_addr |-> c.bind_addr,
                         savemode  |-> Capped(c.savemode)]
    BY NormalizedIs
  <2>3. Capped(c.savemode) \in Nat
    BY <2>1, CappedMode
  <2> QED
    BY <2>1, <2>2, <2>3, LatestAssumption DEF Settings
<1>2. ASSUME NEW c \in Settings PROVE Normalized(Normalized(c)) = Normalized(c)
  <2> DEFINE d == Normalized(c)
  <2>1. /\ d \in Settings /\ ~IsBlank(d.version) /\ d.protocol # 0
        /\ Capped(d.savemode) = d.savemode
    <3>1. c.savemode \in Nat
      BY DEF Settings
    <3> QED
      BY <1>1, <3>1, CappedMode, LatestAssumption
  <2>2. d = [version |-> d.version, protocol |-> d.protocol, port |-> d.port,
             bind_addr |-> d.bind_addr, savemode |-> d.savemode]
    BY <2>1 DEF Settings
  <2> HIDE DEF d
  <2>3. Normalized(d) = d
    BY <1>1, <2>1, <2>2
  <2> QED
    BY <2>3 DEF d
<1>3. Normalized(Default) = Default
  <2>1. /\ Default \in Settings /\ ~IsBlank(Default.version) /\ Default.protocol # 0
        /\ Capped(Default.savemode) = Default.savemode
    BY DefaultAssumption, CappedMode DEF Settings
  <2>2. Default = [version |-> Default.version, protocol |-> Default.protocol,
                   port |-> Default.port, bind_addr |-> Default.bind_addr,
                   savemode |-> Default.savemode]
    BY <2>1 DEF Settings
  <2> QED
    BY <1>1, <2>1, <2>2
<1> QED
  BY <1>1, <1>2, <1>3

(* What is saved of settings, key by key.                                   *)
LEMMA FormattedIs ==
    ASSUME NEW c \in Settings
    PROVE  Formatted(c) = [version |-> Literal(c.version), protocol |-> c.protocol,
                           port |-> c.port, bind_addr |-> Literal(c.bind_addr),
                           savemode |-> Capped(c.savemode)]
<1> DEFINE v == Literal(c.version)
           b == Literal(c.bind_addr)
           s == Capped(c.savemode)
<1>1. Formatted(c) = [[[c EXCEPT !.version = v] EXCEPT !.bind_addr = b] EXCEPT !.savemode = s]
  BY DEF Formatted, Settings
<1> HIDE DEF v, b, s
<1> DEFINE Rec(v1, b1, s1) ==
               [version |-> v1, protocol |-> c.protocol, port |-> c.port, bind_addr |-> b1,
                savemode |-> s1]
           c1 == [c EXCEPT !.version = v]
           c2 == [c1 EXCEPT !.bind_addr = b]
<1>2. c = Rec(c.version, c.bind_addr, c.savemode)
  BY DEF Settings
<1>3. c1 = Rec(v, c.bind_addr, c.savemode)
  BY <1>2
<1> HIDE DEF c1
<1>4. c2 = Rec(v, b, c.savemode)
  BY <1>3
<1> HIDE DEF c2
<1>5. [c2 EXCEPT !.savemode = s] = Rec(v, b, s)
  BY <1>4
<1> QED
  BY <1>1, <1>5 DEF c1, c2, v, b, s

(* What is saved is read again as it was, but for control characters.       *)
LEMMA FormattedSettings ==
    ASSUME NEW c \in Settings, Capped(c.savemode) = c.savemode
    PROVE  /\ Formatted(c) \in FileTexts
           /\ Parsed(Formatted(c)) = IF HasControl(c.version) \/ HasControl(c.bind_addr)
                                       THEN Unreadable ELSE c
<1> DEFINE v == Literal(c.version)
           b == Literal(c.bind_addr)
           f == Formatted(c)
<1>1. /\ c.version \in Seq(Chars) /\ c.protocol \in Protocols /\ c.port \in Ports
      /\ c.bind_addr \in Seq(Chars) /\ c.savemode \in Nat
      /\ c = [version |-> c.version, protocol |-> c.protocol, port |-> c.port,
              bind_addr |-> c.bind_addr, savemode |-> c.savemode]
  BY DEF Settings
<1>2. v \in Seq(Chars) /\ b \in Seq(Chars)
  BY <1>1, LiteralModes
<1>3. /\ Meaning(v) = IF HasControl(c.version) THEN NotAString ELSE c.version
      /\ Meaning(b) = IF HasControl(c.bind_addr) THEN NotAString ELSE c.bind_addr
  BY <1>1, ReadBack
<1>4. f = [version |-> v, protocol |-> c.protocol, port |-> c.port, bind_addr |-> b,
           savemode |-> c.savemode]
  BY FormattedIs
<1> HIDE DEF v, b
<1>5. f \in FileTexts
  BY <1>1, <1>2, <1>4 DEF FileTexts
<1>6. f # Absent /\ f # Torn
  BY <1>5, MarksAssumption
<1>7. /\ StringOrDefault(f.version, "version") = Meaning(v)
      /\ StringOrDefault(f.bind_addr, "bind_addr") = Meaning(b)
      /\ OrDefault(f.protocol, "protocol") = c.protocol
      /\ OrDefault(f.port, "port") = c.port
      /\ OrDefault(f.savemode, "savemode") = c.savemode
  <2>1. /\ v # Missing /\ b # Missing /\ c.protocol # Missing /\ c.port # Missing
        /\ c.savemode # Missing
    BY <1>1, <1>2, MarksAssumption
  <2> QED
    BY <1>4, <2>1 DEF StringOrDefault, OrDefault
<1> DEFINE read == [version |-> Meaning(v), protocol |-> c.protocol, port |-> c.port,
                    bind_addr |-> Meaning(b), savemode |-> c.savemode]
<1>8. Parsed(f) = IF NotAString \in {read.version, read.bind_addr} THEN Unreadable ELSE read
  <2> HIDE DEF f
  <2> QED
    BY <1>6, <1>7 DEF Parsed
<1>9. c.version # NotAString /\ c.bind_addr # NotAString
  BY <1>1, FailureIsNoText
<1>10. CASE HasControl(c.version) \/ HasControl(c.bind_addr)
  BY <1>3, <1>5, <1>8, <1>10
<1>11. CASE ~HasControl(c.version) /\ ~HasControl(c.bind_addr)
  <2>1. read = c
    BY <1>1, <1>3, <1>11
  <2>2. NotAString \notin {read.version, read.bind_addr}
    BY <1>9, <2>1
  <2> HIDE DEF read
  <2> QED
    BY <1>5, <1>8, <1>11, <2>1, <2>2
<1> QED
  BY <1>10, <1>11

(***************************************************************************)
(* The invariant: the file is the user's, torn, or what the program made   *)
(* of the user's; and behind load the configuration is that of the user.   *)
(***************************************************************************)
Asked == Normalized(Parsed(wanted))

FileInv == \/ file \in {wanted, Torn}
           \/ Parsed(wanted) # Unreadable /\ file = Formatted(Asked)

ConfigInv == /\ pc \in {"create", "write", "bind", "running"} =>
                   Parsed(wanted) # Unreadable /\ config = Asked
             /\ pc \in {"bind", "running"} => file = Formatted(config) \/ Parsed(file) = config

RefusedInv == /\ pc # "down" => refused = ""
              /\ refused = "unreadable" => Parsed(file) = Unreadable
              /\ refused = "address" => Parsed(wanted).bind_addr \notin Addresses

StoreInv == TypeOK /\ FileInv /\ ConfigInv /\ RefusedInv

(* Of the user's text, as far as it can be read.                            *)
LEMMA AskedSettings ==
    ASSUME TypeOK
    PROVE  /\ Parsed(file) \in Settings \cup {Unreadable}
           /\ Parsed(wanted) \in Settings \cup {Unreadable}
           /\ Parsed(wanted) # Unreadable =>
                 /\ Parsed(wanted) \in Settings /\ Asked \in Settings
                 /\ Normalized(Asked) = Asked /\ Capped(Asked.savemode) = Asked.savemode
                 /\ Formatted(Asked) \in FileTexts
                 /\ Parsed(Formatted(Asked)) \in {Asked, Unreadable}
                 /\ Asked.bind_addr = Parsed(wanted).bind_addr
<1>1. Default \in Settings
  BY DefaultAssumption
<1>2. Parsed(file) \in Settings \cup {Unreadable} /\ Parsed(wanted) \in Settings \cup {Unreadable}
  BY <1>1, ParsedSettings DEF TypeOK
<1>3. ASSUME Parsed(wanted) # Unreadable
      PROVE  /\ Parsed(wanted) \in Settings /\ Asked \in Settings
             /\ Normalized(Asked) = Asked /\ Capped(Asked.savemode) = Asked.savemode
             /\ Formatted(Asked) \in FileTexts
             /\ Parsed(Formatted(Asked)) \in {Asked, Unreadable}
             /\ Asked.bind_addr = Parsed(wanted).bind_addr
  <2>1. Parsed(wanted) \in Settings
    BY <1>2, <1>3
  <2>2. /\ Asked \in Settings /\ Normalized(Asked) = Asked
        /\ Asked.bind_addr = Parsed(wanted).bind_addr
        /\ Asked.savemode = Capped(Parsed(wanted).savemode)
    BY <2>1, NormalizedSettings DEF Asked
  <2>3. Parsed(wanted).savemode \in Nat
    BY <2>1 DEF Settings
  <2>4. Capped(Asked.savemode) = Asked.savemode
    BY <2>2, <2>3, CappedMode
  <2>5. /\ Formatted(Asked) \in FileTexts
        /\ Parsed(Formatted(Asked)) = IF HasControl(Asked.version) \/ HasControl(Asked.bind_addr)
                                        THEN Unreadable ELSE Asked
    BY <2>2, <2>4, FormattedSettings
  <2> QED
    BY <2>1, <2>2, <2>4, <2>5
<1> QED
  BY <1>2, <1>3

(* It holds at first, with a file of the user's or none.                     *)
LEMMA StoreInit == Init => StoreInv
<1> SUFFICES ASSUME Init PROVE StoreInv
  OBVIOUS
<1>1. file \in FileTexts \cup {Absent} /\ wanted = file
  BY TextsAssumption DEF Init
<1>2. TypeOK
  BY <1>1, DefaultAssumption DEF Init, TypeOK
<1> QED
  BY <1>1, <1>2 DEF Init, StoreInv, FileInv, ConfigInv, RefusedInv

(* Every action keeps it.                                                   *)
LEMMA StoreStep == StoreInv /\ [Next]_vars => StoreInv'
<1> SUFFICES ASSUME StoreInv, [Next]_vars PROVE StoreInv'
  OBVIOUS
<1>0. TypeOK /\ FileInv /\ ConfigInv /\ RefusedInv
  BY DEF StoreInv
<1>1. CASE Start
  BY <1>0, <1>1 DEF Start, StoreInv, TypeOK, FileInv, ConfigInv, RefusedInv, Asked
<1>2. CASE Load
  <2>1. pc = "load" /\ refused = "" /\ UNCHANGED <<file, wanted>>
    BY <1>0, <1>2 DEF Load, RefusedInv
  <2>2. CASE file = Absent
    <3>1. Parsed(file) = Default /\ Default \in Settings /\ Default # Unreadable
      BY <2>2, ParsedSettings, DefaultAssumption, MarksAssumption
    <3>2. config' = Default /\ pc' = "create" /\ refused' = refused
      BY <1>2, <2>2, <3>1 DEF Load
    <3>3. file = wanted
      BY <1>0, <2>2, AskedSettings, MarksAssumption DEF FileInv
    <3>4. Asked = Default
      BY <3>1, <3>3, NormalizedSettings DEF Asked
    <3> QED
      BY <1>0, <2>1, <3>1, <3>2, <3>3, <3>4
      DEF StoreInv, TypeOK, FileInv, ConfigInv, RefusedInv, Asked
  <2>3. CASE file # Absent /\ Parsed(file) = Unreadable
    <3>1. pc' = "down" /\ refused' = "unreadable" /\ config' = config
      BY <1>2, <2>3 DEF Load, Refuse
    <3> QED
      BY <1>0, <2>1, <2>3, <3>1 DEF StoreInv, TypeOK, FileInv, ConfigInv, RefusedInv, Asked
  <2>4. CASE file # Absent /\ Parsed(file) # Unreadable
    <3>1. /\ config' = Normalized(Parsed(file)) /\ refused' = refused
          /\ pc' = IF config' = Parsed(file) THEN "bind" ELSE "create"
      BY <1>2, <2>4 DEF Load
    <3>2. Parsed(wanted) # Unreadable /\ config' = Asked
      <4>1. CASE file = wanted
        BY <2>4, <3>1, <4>1 DEF Asked
      <4>2. CASE Parsed(wanted) # Unreadable /\ file = Formatted(Asked)
        <5>1. Parsed(file) = Asked /\ Normalized(Asked) = Asked
          BY <1>0, <2>4, <4>2, AskedSettings
        <5> QED
          BY <3>1, <4>2, <5>1
      <4>3. file # Torn
        BY <2>4, ParsedSettings
      <4> QED
        BY <1>0, <4>1, <4>2, <4>3 DEF FileInv
    <3>3. Asked \in Settings
      BY <1>0, <3>2, AskedSettings
    <3> HIDE DEF Asked
    <3>4. TypeOK'
      BY <1>0, <2>1, <3>1, <3>2, <3>3 DEF TypeOK
    <3>5. FileInv' /\ RefusedInv'
      BY <1>0, <2>1, <3>1 DEF FileInv, RefusedInv, Asked
    <3>6. Asked' = Asked
      BY <2>1 DEF Asked
    <3>7. ConfigInv'
      BY <2>1, <3>1, <3>2, <3>6 DEF ConfigInv
    <3> QED
      BY <3>4, <3>5, <3>7 DEF StoreInv
  <2> QED
    BY <2>2, <2>3, <2>4
<1>3. CASE Create
  BY <1>0, <1>3 DEF Create, StoreInv, TypeOK, FileInv, ConfigInv, RefusedInv, Asked
<1>4. CASE Write
  <2>1. /\ file' = Formatted(config) /\ pc' = "bind" /\ pc = "write"
        /\ UNCHANGED <<config, wanted, refused>>
    BY <1>4 DEF Write
  <2>2. Parsed(wanted) # Unreadable /\ config = Asked /\ Formatted(Asked) \in FileTexts /\ Asked' = Asked
    <3>1. Parsed(wanted) # Unreadable /\ config = Asked
      BY <1>0, <2>1 DEF ConfigInv
    <3>2. Formatted(Asked) \in FileTexts
      BY <1>0, <3>1, AskedSettings
    <3> QED
      BY <2>1, <3>1, <3>2 DEF Asked
  <2>3. TypeOK'
    BY <1>0, <2>1, <2>2 DEF TypeOK
  <2>4. FileInv' /\ ConfigInv'
    BY <2>1, <2>2 DEF FileInv, ConfigInv
  <2>5. RefusedInv'
    BY <1>0, <2>1 DEF RefusedInv
  <2> QED
    BY <2>3, <2>4, <2>5 DEF StoreInv
<1>5. CASE DiskFails
  BY <1>0, <1>5 DEF DiskFails, Refuse, StoreInv, TypeOK, FileInv, ConfigInv, RefusedInv, Asked
<1>6. CASE Bind
  <2>1. /\ pc = "bind" /\ refused = "" /\ UNCHANGED <<file, config, wanted>>
        /\ config = Asked /\ Parsed(wanted) # Unreadable
    BY <1>0, <1>6 DEF Bind, ConfigInv, RefusedInv
  <2>2. config.bind_addr = Parsed(wanted).bind_addr
    BY <1>0, <2>1, AskedSettings
  <2> QED
    BY <1>0, <1>6, <2>1, <2>2 DEF Bind, Refuse, StoreInv, TypeOK, FileInv, ConfigInv, RefusedInv, Asked
<1>7. CASE Stop
  BY <1>0, <1>7 DEF Stop, StoreInv, TypeOK, FileInv, ConfigInv, RefusedInv, Asked
<1>8. CASE Edit
  <2>1. /\ file' \in Edits \cup {Absent} /\ wanted' = file' /\ refused' = "" /\ pc = "down"
        /\ UNCHANGED <<pc, config>>
    BY <1>8 DEF Edit
  <2> QED
    BY <1>0, <2>1, TextsAssumption DEF StoreInv, TypeOK, FileInv, ConfigInv, RefusedInv
<1>9. CASE UNCHANGED vars
  BY <1>0, <1>9 DEF vars, StoreInv, TypeOK, FileInv, ConfigInv, RefusedInv, Asked
<1> QED
  BY <1>1, <1>2, <1>3, <1>4, <1>5, <1>6, <1>7, <1>8, <1>9 DEF Next

(* So it holds always.                                                      *)
LEMMA StoreHolds == Spec => []StoreInv
BY StoreInit, StoreStep, PTL DEF Spec

(* Whatever starts, kills and errors came before, the program runs with the *)
(* settings the user wrote last (load, normalize_supported_version).        *)
THEOREM SettingsStayKept == Spec => []SettingsKept
<1>1. ASSUME StoreInv PROVE SettingsKept
  <2>1. SUFFICES ASSUME pc = "running"
                 PROVE  LET w == Parsed(wanted)
                        IN  /\ config.port = w.port /\ config.bind_addr = w.bind_addr
                            /\ config.protocol \in {w.protocol, LatestProtocol}
                            /\ w.protocol # 0 => config.protocol = w.protocol
                            /\ config.version = IF IsBlank(w.version) THEN LatestVersion ELSE w.version
                            /\ config.savemode = Capped(w.savemode)
    BY DEF SettingsKept
  <2>2. Parsed(wanted) # Unreadable /\ config = Normalized(Parsed(wanted))
    BY <1>1, <2>1 DEF StoreInv, ConfigInv, Asked
  <2>3. Parsed(wanted) \in Settings
    BY <1>1, <2>2, AskedSettings DEF StoreInv
  <2> QED
    BY <2>2, <2>3, NormalizedSettings
<1> QED
  BY <1>1, StoreHolds, PTL

(* A start refuses the file only when a save was torn, when the user's text *)
(* is no configuration, or for a control character; and an address only     *)
(* when the user wrote one that is none (load, main).                       *)
THEOREM RefusalsHaveCause == Spec => []RefusalHasCause
<1>1. ASSUME StoreInv PROVE RefusalHasCause
  <2>1. ASSUME refused = "unreadable"
        PROVE  \/ file = Torn \/ Parsed(wanted) = Unreadable
               \/ HasControl(Parsed(wanted).version) \/ HasControl(Parsed(wanted).bind_addr)
    <3>1. Parsed(file) = Unreadable
      BY <1>1, <2>1 DEF StoreInv, RefusedInv
    <3>2. CASE Parsed(wanted) # Unreadable /\ file = Formatted(Asked)
      <4>1. /\ Parsed(wanted) \in Settings /\ Asked \in Settings
            /\ Capped(Asked.savemode) = Asked.savemode
        BY <1>1, <3>2, AskedSettings DEF StoreInv
      <4>2. HasControl(Asked.version) \/ HasControl(Asked.bind_addr)
        <5>1. Asked # Unreadable
          BY <4>1, MarksAssumption
        <5> QED
          BY <3>1, <3>2, <4>1, <5>1, FormattedSettings
      <4>3. /\ Asked.bind_addr = Parsed(wanted).bind_addr
            /\ Asked.version = IF IsBlank(Parsed(wanted).version) THEN LatestVersion
                                                                  ELSE Parsed(wanted).version
        BY <4>1, NormalizedSettings DEF Asked
      <4> QED
        BY <4>2, <4>3, LatestAssumption
    <3> QED
      BY <1>1, <3>1, <3>2 DEF StoreInv, FileInv
  <2> QED
    BY <1>1, <2>1 DEF RefusalHasCause, StoreInv, RefusedInv
<1> QED
  BY <1>1, StoreHolds, PTL

(* The program runs with what the file says, and the next start finds       *)
(* nothing to change in it, but for control characters (save, load); and    *)
(* file and configuration are of their types.                               *)
THEOREM RunsAsTheFileSays == Spec => []RunsAsWritten
<1>1. ASSUME StoreInv PROVE RunsAsWritten
  <2>1. ASSUME pc = "running"
        PROVE  \/ Parsed(file) = config /\ Normalized(config) = config
               \/ HasControl(config.version) \/ HasControl(config.bind_addr)
    <3>1. Parsed(wanted) # Unreadable /\ config = Asked
      BY <1>1, <2>1 DEF StoreInv, ConfigInv
    <3>2. config \in Settings /\ Normalized(config) = config /\ Capped(config.savemode) = config.savemode
      BY <1>1, <3>1, AskedSettings DEF StoreInv
    <3>3. file = Formatted(config) \/ Parsed(file) = config
      BY <1>1, <2>1 DEF StoreInv, ConfigInv
    <3>4. Parsed(Formatted(config)) = IF HasControl(config.version) \/ HasControl(config.bind_addr)
                                        THEN Unreadable ELSE config
      BY <3>2, FormattedSettings
    <3> QED
      BY <3>2, <3>3, <3>4
  <2> QED
    BY <1>1, <2>1 DEF RunsAsWritten, StoreInv
<1> QED
  BY <1>1, StoreHolds, PTL
=============================================================================
