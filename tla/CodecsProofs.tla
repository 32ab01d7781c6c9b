------------------------------ MODULE CodecsProofs ------------------------------
(***************************************************************************)
(* Theorems about Codecs: what is read of a frame set, of a batch of any   *)
(* packets and of a Login, of which the last two may have lost any part of *)
(* their end, and which skins are taken.                                   *)
(***************************************************************************)
EXTENDS Codecs, SequenceTheorems, FiniteSetTheorems, WellFoundedInduction, TLAPS

Bytes == 0..255

(* A byte is a number below 256.                                            *)
LEMMA BytesAre == \A b : b \in Bytes <=> b \in Nat /\ b < 256
BY DEF Bytes

(***************************************************************************)
(* Induction, from a least counterexample                                  *)
(***************************************************************************)

(* A set of natural numbers has a least one.                                *)
LEMMA LeastNat ==
    ASSUME NEW T \in SUBSET Nat, T # {}
    PROVE  \E n \in T : \A m \in T : n <= m
<1> DEFINE R == StrictSubsetOrdering(Nat)
           F == FiniteSubsetsOf(Nat)
           I == {1..n : n \in T}
<1>1. IsWellFoundedOn(R, F)
  BY FS_StrictSubsetOrderingWellFounded
<1>2. ASSUME NEW n \in T PROVE 1..n \in F
  <2>1. 1 \in Int /\ n \in Int /\ 1..n \subseteq Nat
    OBVIOUS
  <2>2. IsFiniteSet(1..n)
    BY <2>1, FS_Interval
  <2> QED
    BY <2>1, <2>2 DEF FiniteSubsetsOf
<1>3. I \subseteq F /\ I # {}
  BY <1>2
<1>4. PICK x \in I : \A y \in I : <<y, x>> \notin R
  <2> HIDE DEF R, F, I
  <2> QED
    BY <1>1, <1>3, WFMin
<1>5. PICK n \in T : x = 1..n
  OBVIOUS
<1>6. ASSUME NEW m \in T, m < n PROVE FALSE
  <2>1. n \in 1..n /\ n \notin 1..m /\ 1..m \subseteq 1..n
    BY <1>6
  <2>2. <<1..m, x>> \in R
    BY <1>5, <2>1 DEF StrictSubsetOrdering
  <2> QED
    BY <1>4, <2>2
<1> QED
  BY <1>6

(* A set that holds 0, and with a number the next, holds them all.          *)
LEMMA Upwards ==
    ASSUME NEW S, 0 \in S, \A k \in Nat : k \in S => k + 1 \in S
    PROVE  \A k \in Nat : k \in S
<1> DEFINE T == Nat \ S
<1>1. ASSUME T # {} PROVE FALSE
  <2>1. T \in SUBSET Nat
    OBVIOUS
  <2>2. PICK n \in T : \A m \in T : n <= m
    <3> HIDE DEF T
    <3> QED
      BY <1>1, <2>1, LeastNat
  <2>3. n # 0 /\ n - 1 \in Nat /\ n - 1 \notin T
    BY <2>2
  <2>4. (n - 1) + 1 \in S
    BY <2>3
  <2> QED
    BY <2>2, <2>4
<1> QED
  BY <1>1

(* The parts of a concatenation.                                            *)
LEMMA ConcatParts ==
    ASSUME NEW S, NEW a \in Seq(S), NEW b \in Seq(S)
    PROVE  /\ Len(a) \in Nat /\ Len(b) \in Nat
           /\ a \o b \in Seq(S) /\ Len(a \o b) = Len(a) + Len(b)
           /\ \A j \in 1..Len(a) : (a \o b)[j] = a[j]
           /\ \A j \in 1..Len(b) : (a \o b)[Len(a) + j] = b[j]
<1>1. Len(a) \in Nat /\ Len(b) \in Nat
  BY LenProperties
<1> QED
  BY <1>1, ConcatProperties

(***************************************************************************)
(* Variable integers                                                       *)
(***************************************************************************)

(* The first values that take three, four and five bytes.                   *)
Three7s == 16384
Four7s == 2097152
Five7s == 268435456

(* They are in order.                                                       *)
LEMMA Limits ==
    /\ Three7s \in Nat /\ Four7s \in Nat /\ Five7s \in Nat /\ Huge \in Nat
    /\ 128 < Three7s /\ Three7s < Four7s /\ Four7s < Five7s /\ Five7s < Huge
BY SMT DEF Huge, Three7s, Four7s, Five7s

(* Division with remainder.                                                 *)
LEMMA Division ==
    ASSUME NEW n \in Nat
    PROVE  /\ n \div 128 \in Nat /\ n % 128 \in Nat /\ n % 128 < 128
           /\ n = 128 * (n \div 128) + (n % 128)
OBVIOUS

(* Seven bits less remain of each.                                          *)
LEMMA SevenBits ==
    ASSUME NEW n \in Nat
    PROVE  /\ n \div 128 \in Nat /\ n \div 128 <= n
           /\ (n < 128 <=> n \div 128 = 0)
           /\ (n < Three7s <=> n \div 128 < 128)
           /\ (n < Four7s <=> n \div 128 < Three7s)
           /\ (n < Five7s <=> n \div 128 < Four7s)
           /\ (n <= Huge => n \div 128 < Five7s)
<1> DEFINE q == n \div 128
           r == n % 128
<1> HIDE DEF q, r
<1>1. q \in Nat /\ r \in Nat /\ r < 128 /\ n = 128 * q + r
  BY Division DEF q, r
<1>2. /\ q \in Nat /\ q <= n /\ (n < 128 <=> q = 0)
      /\ (n < 16384 <=> q < 128) /\ (n < 2097152 <=> q < 16384)
      /\ (n < 268435456 <=> q < 2097152) /\ (n <= 2147483647 => q < 268435456)
  BY SMT, <1>1
<1> QED
  BY SMT, <1>2 DEF q, Three7s, Four7s, Five7s, Huge

(* The values of a variable integer.                                        *)
Values == 0..Huge

(* They are numbers, and so is what is left of one.                         *)
LEMMA ValuesAre ==
    /\ \A n : n \in Values <=> n \in Nat /\ n <= Huge
    /\ \A n \in Values : n \div 128 \in Values
<1>1. \A n : n \in Values <=> n \in Nat /\ n <= Huge
  BY Limits DEF Values
<1>2. ASSUME NEW n \in Values PROVE n \div 128 \in Values
  <2>1. n \div 128 \in Nat /\ n \div 128 <= n /\ n \in Nat /\ n <= Huge
    BY <1>1, SevenBits
  <2> QED
    BY <1>1, <2>1, Limits
<1> QED
  BY <1>1, <1>2

(* The recursion that writes one is well defined.                           *)
LEMMA VarIntWrites ==
    ASSUME NEW v \in Values
    PROVE  VarInt(v) = IF v > 127 THEN <<128 + (v % 128)>> \o VarInt(v \div 128) ELSE <<v>>
<1> DEFINE Digit(n) == <<128 + (n % 128)>>
           One(n) == <<n>>
           Two(n) == Digit(n) \o One(n \div 128)
           Three(n) == Digit(n) \o Two(n \div 128)
           Four(n) == Digit(n) \o Three(n \div 128)
           Five(n) == Digit(n) \o Four(n \div 128)
<1>1. \A n : /\ Two(n) = Digit(n) \o One(n \div 128) /\ Three(n) = Digit(n) \o Two(n \div 128)
             /\ Four(n) = Digit(n) \o Three(n \div 128) /\ Five(n) = Digit(n) \o Four(n \div 128)
             /\ One(n) = <<n>> /\ Digit(n) = <<128 + (n % 128)>>
  OBVIOUS
<1> HIDE DEF Digit, One, Two, Three, Four, Five
<1> DEFINE g == [n \in Values |-> IF n < 128 THEN One(n) ELSE IF n < Three7s THEN Two(n)
                                  ELSE IF n < Four7s THEN Three(n)
                                  ELSE IF n < Five7s THEN Four(n) ELSE Five(n)]
           Is(f) == f = [n \in Values |-> IF n > 127 THEN <<128 + (n % 128)>> \o f[n \div 128] ELSE <<n>>]
           from == CHOOSE f : Is(f)
<1>2. \A n \in Values : g[n] = IF n < 128 THEN One(n) ELSE IF n < Three7s THEN Two(n)
                               ELSE IF n < Four7s THEN Three(n)
                               ELSE IF n < Five7s THEN Four(n) ELSE Five(n)
  OBVIOUS
<1>3. g = [n \in Values |-> g[n]]
  OBVIOUS
<1> HIDE DEF g
<1>4. ASSUME NEW n \in Values
      PROVE  g[n] = IF n > 127 THEN <<128 + (n % 128)>> \o g[n \div 128] ELSE <<n>>
  <2>1. CASE n < 128
    <3>1. g[n] = <<n>> /\ n \in Nat
      BY <1>1, <1>2, <2>1, ValuesAre
    <3> QED
      BY <2>1, <3>1
  <2>2. CASE n >= 128
    <3> DEFINE q == n \div 128
    <3>1. /\ n \in Nat /\ q \in Nat /\ q \in Values /\ q < Five7s
          /\ (n < Three7s <=> q < 128) /\ (n < Four7s <=> q < Three7s) /\ (n < Five7s <=> q < Four7s)
      BY SevenBits, ValuesAre
    <3>2. /\ Two(n) = Digit(n) \o One(q) /\ Three(n) = Digit(n) \o Two(q)
          /\ Four(n) = Digit(n) \o Three(q) /\ Five(n) = Digit(n) \o Four(q)
      BY <1>1
    <3> HIDE DEF q
    <3>a. /\ g[n] = IF n < 128 THEN One(n) ELSE IF n < Three7s THEN Two(n)
                    ELSE IF n < Four7s THEN Three(n)
                    ELSE IF n < Five7s THEN Four(n) ELSE Five(n)
          /\ g[q] = IF q < 128 THEN One(q) ELSE IF q < Three7s THEN Two(q)
                    ELSE IF q < Four7s THEN Three(q)
                    ELSE IF q < Five7s THEN Four(q) ELSE Five(q)
      BY <1>2, <3>1
    <3>b. ~(n < 128)
      BY <2>2, <3>1
    <3>3. g[n] = Digit(n) \o g[q]
      <4>1. CASE n < Three7s
        BY <3>1, <3>2, <3>a, <3>b, <4>1
      <4>2. CASE ~(n < Three7s) /\ n < Four7s
        BY <3>1, <3>2, <3>a, <3>b, <4>2
      <4>3. CASE ~(n < Three7s) /\ ~(n < Four7s) /\ n < Five7s
        BY <3>1, <3>2, <3>a, <3>b, <4>3
      <4>4. CASE ~(n < Three7s) /\ ~(n < Four7s) /\ ~(n < Five7s)
        BY <3>1, <3>2, <3>a, <3>b, <4>4
      <4> QED
        BY <4>1, <4>2, <4>3, <4>4
    <3>4. n > 127 /\ ~(n < 128)
      BY <2>2, <3>1
    <3> QED
      BY <1>1, <3>3, <3>4 DEF q
  <2>3. n \in Nat
    BY ValuesAre
  <2> QED
    BY <2>1, <2>2, <2>3
<1>5. Is(g)
  BY <1>3, <1>4
<1>6. Is(from)
  <2> HIDE DEF Is
  <2> QED
    BY <1>5
<1>7. v \div 128 \in Values
  BY ValuesAre
<1>8. VarInt(v) = from[v] /\ VarInt(v \div 128) = from[v \div 128]
  BY DEF VarInt, Values
<1> HIDE DEF from
<1> QED
  BY <1>6, <1>7, <1>8

(* What a variable integer of a value is: at most five bytes, of which only *)
(* the last is below 128, and 0 for the value 0 alone, and seven bits of    *)
(* the value in each.                                                       *)
Bits(s, i) == IF i <= Len(s) THEN s[i] % 128 ELSE 0
ValueOf(s) ==
    Bits(s, 1) + 128 * (Bits(s, 2) + 128 * (Bits(s, 3) + 128 * (Bits(s, 4) + 128 * Bits(s, 5))))
IsVarInt(s, v) ==
    /\ s \in Seq(Bytes) /\ Len(s) \in 1..5
    /\ \A i \in 1..(Len(s) - 1) : s[i] >= 128
    /\ s[Len(s)] < 128
    /\ v # 0 => s[Len(s)] # 0
    /\ ValueOf(s) = v

(* One byte more.                                                           *)
LEMMA VarIntGrows ==
    ASSUME NEW v \in Nat, v >= 128, NEW s, IsVarInt(s, v \div 128), Len(s) <= 4
    PROVE  /\ IsVarInt(<<128 + (v % 128)>> \o s, v)
           /\ Len(<<128 + (v % 128)>> \o s) = Len(s) + 1
<1> DEFINE b == 128 + (v % 128)
           t == <<b>> \o s
<1>1. b \in Bytes /\ b >= 128 /\ b % 128 = v % 128 /\ v = 128 * (v \div 128) + (v % 128)
  BY Division, BytesAre
<1> HIDE DEF b
<1>2. <<b>> \in Seq(Bytes) /\ Len(<<b>>) = 1 /\ <<b>>[1] = b
  BY <1>1
<1>3. /\ s \in Seq(Bytes) /\ Len(s) \in 1..4
  <2>1. s \in Seq(Bytes) /\ Len(s) \in 1..5
    BY DEF IsVarInt
  <2>2. \A n \in 1..5 : n <= 4 => n \in 1..4
    OBVIOUS
  <2> QED
    BY <2>1, <2>2
<1>4. /\ t \in Seq(Bytes) /\ Len(t) = Len(s) + 1 /\ t[1] = b
      /\ \A j \in 1..Len(s) : t[1 + j] = s[j]
  BY <1>2, <1>3, ConcatParts
<1> HIDE DEF t
<1>5. \A i \in 1..(Len(t) - 1) : t[i] >= 128
  <2>1. ASSUME NEW i \in 1..(Len(t) - 1), i # 1 PROVE t[i] >= 128
    <3>1. i - 1 \in 1..(Len(s) - 1) /\ i - 1 \in 1..Len(s) /\ i = 1 + (i - 1)
      BY <1>3, <1>4, <2>1
    <3>2. t[1 + (i - 1)] = s[i - 1]
      BY <1>4, <3>1
    <3> QED
      BY <3>1, <3>2 DEF IsVarInt
  <2> QED
    BY <1>1, <1>4, <2>1
<1>6. t[Len(t)] < 128 /\ t[Len(t)] # 0
  <2>1. v \div 128 # 0
    OBVIOUS
  <2>2. s[Len(s)] < 128 /\ s[Len(s)] # 0
    BY <2>1 DEF IsVarInt
  <2>3. Len(s) \in 1..Len(s) /\ Len(t) = 1 + Len(s)
    BY <1>3, <1>4
  <2>4. t[Len(t)] = s[Len(s)]
    BY <1>4, <2>3
  <2> QED
    BY <2>2, <2>4
<1>7. Bits(t, 1) = v % 128
  BY <1>1, <1>3, <1>4 DEF Bits
<1>8. ASSUME NEW i \in 1..4 PROVE Bits(t, 1 + i) = Bits(s, i)
  <2>1. 1 + i <= Len(t) <=> i <= Len(s)
    BY <1>3, <1>4
  <2>2. i <= Len(s) => t[1 + i] = s[i]
    BY <1>3, <1>4
  <2> QED
    BY <2>1, <2>2 DEF Bits
<1>9. /\ Bits(t, 2) = Bits(s, 1) /\ Bits(t, 3) = Bits(s, 2)
      /\ Bits(t, 4) = Bits(s, 3) /\ Bits(t, 5) = Bits(s, 4) /\ Bits(s, 5) = 0
  <2>1. Bits(s, 5) = 0
    BY <1>3 DEF Bits
  <2>2. 1 + 1 = 2 /\ 1 + 2 = 3 /\ 1 + 3 = 4 /\ 1 + 4 = 5
    OBVIOUS
  <2> QED
    BY <1>8, <2>1, <2>2
<1>10. \A i \in 1..5 : Bits(s, i) \in Nat
  BY <1>3, BytesAre DEF Bits
<1>11. ValueOf(t) = (v % 128) + 128 * ValueOf(s)
  BY <1>7, <1>9, <1>10 DEF ValueOf
<1>12. ValueOf(t) = v
  BY <1>1, <1>11 DEF IsVarInt
<1> QED
  BY <1>3, <1>4, <1>5, <1>6, <1>12 DEF IsVarInt, t, b

(* What is written of a value.                                              *)
LEMMA VarIntShape ==
    ASSUME NEW v \in Values
    PROVE  IsVarInt(VarInt(v), v)
<1> DEFINE P(w, n) == IsVarInt(VarInt(w), w) /\ Len(VarInt(w)) <= n
<1>1. ASSUME NEW w \in Values, NEW n \in 1..5, w < 128 PROVE P(w, n)
  <2>1. w \in Nat /\ w \in Bytes /\ w % 128 = w
    BY <1>1, ValuesAre, BytesAre
  <2>2. VarInt(w) = <<w>>
    <3>1. ~(w > 127)
      BY <1>1, <2>1
    <3> QED
      BY <3>1, VarIntWrites
  <2>3. Len(<<w>>) = 1 /\ <<w>>[1] = w /\ <<w>> \in Seq(Bytes)
    BY <2>1
  <2> DEFINE s == <<w>>
  <2> HIDE DEF s
  <2>4. /\ Bits(s, 1) = w /\ Bits(s, 2) = 0 /\ Bits(s, 3) = 0 /\ Bits(s, 4) = 0 /\ Bits(s, 5) = 0
    BY <2>1, <2>3 DEF Bits, s
  <2>5. IsVarInt(s, w)
    BY <1>1, <2>1, <2>3, <2>4 DEF IsVarInt, ValueOf, s
  <2> QED
    BY <2>2, <2>3, <2>5 DEF s
<1>2. ASSUME NEW w \in Values, NEW n \in 1..4, ~(w < 128) => P(w \div 128, n) PROVE P(w, n + 1)
  <2>1. CASE w < 128
    <3> HIDE DEF P
    <3>1. n + 1 \in 1..5
      OBVIOUS
    <3> QED
      BY <1>1, <2>1, <3>1
  <2>2. CASE ~(w < 128)
    <3>1. w \in Nat /\ w >= 128
      BY <2>2, ValuesAre
    <3>2. VarInt(w) = <<128 + (w % 128)>> \o VarInt(w \div 128)
      BY <3>1, VarIntWrites
    <3>3. /\ IsVarInt(VarInt(w \div 128), w \div 128) /\ Len(VarInt(w \div 128)) <= n
      BY <1>2, <2>2
    <3>4. Len(VarInt(w \div 128)) \in Nat /\ Len(VarInt(w \div 128)) <= 4
      BY <3>3 DEF IsVarInt
    <3>5. /\ IsVarInt(<<128 + (w % 128)>> \o VarInt(w \div 128), w)
          /\ Len(<<128 + (w % 128)>> \o VarInt(w \div 128)) = Len(VarInt(w \div 128)) + 1
      BY <3>1, <3>3, <3>4, VarIntGrows
    <3> QED
      BY <3>2, <3>3, <3>4, <3>5
  <2> QED
    BY <2>1, <2>2
<1> HIDE DEF P
<1>3. ASSUME NEW w \in Values
      PROVE  /\ w \in Nat /\ w \div 128 \in Values
             /\ (w < Three7s <=> w \div 128 < 128) /\ (w < Four7s <=> w \div 128 < Three7s)
             /\ (w < Five7s <=> w \div 128 < Four7s) /\ w \div 128 < Five7s
  BY SevenBits, ValuesAre
<1>4. ASSUME NEW w \in Values, w < Three7s PROVE P(w, 2)
  <2>1. P(w \div 128, 1)
    BY <1>1, <1>3, <1>4
  <2> QED
    BY <1>2, <2>1
<1>5. ASSUME NEW w \in Values, w < Four7s PROVE P(w, 3)
  <2>1. P(w \div 128, 2)
    BY <1>3, <1>4, <1>5
  <2> QED
    BY <1>2, <2>1
<1>6. ASSUME NEW w \in Values, w < Five7s PROVE P(w, 4)
  <2>1. P(w \div 128, 3)
    BY <1>3, <1>5, <1>6
  <2> QED
    BY <1>2, <2>1
<1>7. P(v, 5)
  <2>1. P(v \div 128, 4)
    BY <1>3, <1>6
  <2> QED
    BY <1>2, <2>1
<1> QED
  BY <1>7 DEF P

(* Bytes at an offset are those of s, as far as the data goes.              *)
Agrees(data, at, s) == \A i \in 1..Len(s) : at + i <= Len(data) => data[at + i] = s[i]
Begins(data, at, s) == at + Len(s) <= Len(data) /\ Agrees(data, at, s)

(* Where a variable integer is all there, it is read as what it is.         *)
LEMMA VarIntReads ==
    ASSUME NEW data \in Seq(Bytes), NEW at \in Nat, NEW v \in Values, Begins(data, at, VarInt(v))
    PROVE  VarIntEnd(data, at) = Len(VarInt(v)) /\ AsVarInt(data, at) = v
<1> DEFINE s == VarInt(v)
           L == Len(s)
           ends == {i \in 1..VarIntBytes : Has(data, at, i) /\ data[at + i] < 128}
<1>1. IsVarInt(s, v)
  BY VarIntShape
<1> HIDE DEF s
<1>2. /\ s \in Seq(Bytes) /\ L \in 1..5 /\ L \in Nat /\ L >= 1 /\ L <= 5 /\ Len(data) \in Nat
      /\ at + L <= Len(data) /\ \A i \in 1..L : data[at + i] = s[i]
  <2>1. s \in Seq(Bytes) /\ L \in 1..5
    BY <1>1 DEF IsVarInt
  <2>2. at + L <= Len(data)
    BY DEF Begins, s
  <2>3. \A i \in 1..L : at + i <= Len(data)
    BY <2>1, <2>2
  <2>4. \A i \in 1..L : data[at + i] = s[i]
    <3>1. Agrees(data, at, s)
      BY DEF Begins, s
    <3> QED
      BY <2>3, <3>1 DEF Agrees
  <2>5. L \in Nat /\ L >= 1 /\ L <= 5
    <3>1. L \in 1..5
      BY <2>1
    <3> HIDE DEF L
    <3> QED
      BY <3>1
  <2>6. Len(data) \in Nat
    OBVIOUS
  <2> QED
    BY <2>1, <2>2, <2>4, <2>5, <2>6
<1>3. \A i \in 1..L : s[i] \in Nat
  BY <1>2, BytesAre
<1>4. L \in ends /\ \A j \in ends : L <= j
  <2>1. L \in 1..VarIntBytes /\ Has(data, at, L)
    BY <1>2 DEF VarIntBytes, Has
  <2>2. data[at + L] < 128
    BY <1>1, <1>2 DEF IsVarInt
  <2>3. ASSUME NEW j \in ends, j < L PROVE FALSE
    <3>1. j \in 1..(L - 1) /\ j \in 1..L
      BY <1>2, <2>3 DEF VarIntBytes
    <3>2. data[at + j] = s[j] /\ s[j] >= 128 /\ s[j] \in Nat
      BY <1>1, <1>2, <1>3, <3>1 DEF IsVarInt
    <3>3. data[at + j] < 128
      BY <2>3
    <3> QED
      BY <3>2, <3>3
  <2> QED
    BY <1>2, <2>1, <2>2, <2>3 DEF VarIntBytes
<1>5. VarIntEnd(data, at) = L
  <2>1. ends # {} /\ VarIntEnd(data, at) = CHOOSE i \in ends : \A j \in ends : i <= j
    BY <1>4 DEF VarIntEnd
  <2>2. \A i \in ends : (\A j \in ends : i <= j) => i = L
    BY <1>2, <1>4 DEF VarIntBytes
  <2> HIDE DEF ends
  <2> QED
    BY <1>4, <2>1, <2>2
<1>6. \A i \in 1..5 : /\ Bits(s, i) \in Nat /\ Bits(s, i) < 128
                      /\ Bits(s, i) = IF i > VarIntEnd(data, at) THEN 0 ELSE data[at + i] % 128
  <2>1. ASSUME NEW i \in 1..5 PROVE /\ Bits(s, i) \in Nat /\ Bits(s, i) < 128
                                    /\ Bits(s, i) = IF i > VarIntEnd(data, at) THEN 0 ELSE data[at + i] % 128
    <3>1. CASE i <= L
      <4>1. i \in 1..L /\ ~(i > VarIntEnd(data, at))
        BY <1>2, <1>5, <3>1
      <4>2. s[i] \in Nat /\ data[at + i] = s[i]
        BY <1>2, <1>3, <4>1
      <4>3. s[i] % 128 \in Nat /\ s[i] % 128 < 128
        BY <4>2, Division
      <4> QED
        BY <3>1, <4>1, <4>2, <4>3 DEF Bits
    <3>2. CASE ~(i <= L)
      <4>1. i > VarIntEnd(data, at)
        BY <1>2, <1>5, <3>2
      <4> QED
        BY <3>2, <4>1 DEF Bits
    <3> QED
      BY <3>1, <3>2
  <2> QED
    BY <2>1
<1> DEFINE low == Bits(s, 1) + 128 * (Bits(s, 2) + 128 * (Bits(s, 3) + 128 * Bits(s, 4)))
           fifth == IF VarIntEnd(data, at) = 5 THEN data[at + 5] % 16 ELSE 0
<1>7. v \in Nat /\ v <= Huge /\ v = ValueOf(s)
  BY <1>1, ValuesAre DEF IsVarInt
<1>8. low \in Nat /\ v = low + Bits(s, 5) * 268435456 /\ Bits(s, 5) \in Nat
  <2> DEFINE a == Bits(s, 1)
             b == Bits(s, 2)
             c == Bits(s, 3)
             d == Bits(s, 4)
             e == Bits(s, 5)
  <2>1. a \in Nat /\ b \in Nat /\ c \in Nat /\ d \in Nat /\ e \in Nat
    BY <1>6
  <2>2. v = a + 128 * (b + 128 * (c + 128 * (d + 128 * e)))
    BY <1>7 DEF ValueOf
  <2> HIDE DEF a, b, c, d, e
  <2>3. /\ a + 128 * (b + 128 * (c + 128 * d)) \in Nat
        /\ v = a + 128 * (b + 128 * (c + 128 * d)) + e * 268435456
    BY SMT, <2>1, <2>2
  <2> QED
    BY SMT, <2>1, <2>3 DEF a, b, c, d, e
<1>9. fifth = Bits(s, 5) /\ fifth < 8
  <2>1. Bits(s, 5) < 8
    <3>1. v < 2147483648
      BY SMT, <1>7 DEF Huge
    <3> HIDE DEF low
    <3> QED
      BY SMT, <1>8, <3>1
  <2>2. CASE L = 5
    <3>1. data[at + 5] = s[5] /\ s[5] \in Nat /\ s[5] < 128 /\ Bits(s, 5) = s[5] % 128
      BY <1>1, <1>2, <1>3, <2>2 DEF IsVarInt, Bits
    <3>2. s[5] % 128 = s[5]
      BY <3>1
    <3>3. s[5] % 16 = s[5]
      BY <2>1, <3>1, <3>2
    <3> QED
      BY <1>5, <2>1, <2>2, <3>1, <3>2, <3>3
  <2>3. CASE L # 5
    <3>1. Bits(s, 5) = 0
      BY <1>2, <2>3 DEF Bits
    <3> QED
      BY <1>5, <2>3, <3>1
  <2> QED
    BY <2>2, <2>3
<1>10. AsVarInt(data, at) = IF fifth >= 8 THEN Huge ELSE low + fifth * 268435456
  <2> DEFINE digit == [i \in 1..4 |-> IF i > VarIntEnd(data, at) THEN 0 ELSE data[at + i] % 128]
  <2>1. digit[1] = Bits(s, 1) /\ digit[2] = Bits(s, 2) /\ digit[3] = Bits(s, 3) /\ digit[4] = Bits(s, 4)
    BY <1>6
  <2>2. AsVarInt(data, at) = IF fifth >= 8 THEN Huge
                             ELSE (digit[1] + 128 * (digit[2] + 128 * (digit[3] + 128 * digit[4])))
                                    + fifth * 268435456
    BY SMT DEF AsVarInt
  <2> HIDE DEF digit
  <2> QED
    BY SMT, <2>1, <2>2
<1> HIDE DEF low, fifth
<1>11. AsVarInt(data, at) = v
  BY SMT, <1>8, <1>9, <1>10
<1> QED
  BY <1>5, <1>11 DEF s

(* Where its end is missing, none is found.                                 *)
LEMMA VarIntCut ==
    ASSUME NEW data \in Seq(Bytes), NEW at \in Nat, NEW v \in Values,
           Agrees(data, at, VarInt(v)), at <= Len(data), Len(data) < at + Len(VarInt(v))
    PROVE  VarIntEnd(data, at) = 0
<1> DEFINE s == VarInt(v)
<1>1. IsVarInt(s, v)
  BY VarIntShape
<1> HIDE DEF s
<1>2. /\ s \in Seq(Bytes) /\ Len(s) \in Nat /\ Len(data) \in Nat
      /\ \A i \in 1..(Len(s) - 1) : s[i] \in Nat /\ s[i] >= 128
  <2>1. s \in Seq(Bytes) /\ Len(s) \in Nat /\ \A i \in 1..(Len(s) - 1) : s[i] >= 128
    BY <1>1 DEF IsVarInt
  <2>2. \A i \in 1..(Len(s) - 1) : s[i] \in Nat
    BY <2>1, BytesAre
  <2> QED
    BY <2>1, <2>2
<1>3. ASSUME NEW i \in 1..VarIntBytes, Has(data, at, i), data[at + i] < 128 PROVE FALSE
  <2>1. i \in Nat /\ i >= 1 /\ at + i <= Len(data)
    BY <1>2, <1>3 DEF Has, VarIntBytes
  <2>2. i \in 1..(Len(s) - 1) /\ i \in 1..Len(s)
    BY <1>2, <2>1 DEF s
  <2>3. data[at + i] = s[i]
    BY <2>1, <2>2 DEF Agrees, s
  <2>4. s[i] \in Nat /\ s[i] >= 128
    BY <1>2, <2>2
  <2> QED
    BY <1>3, <2>3, <2>4
<1> QED
  BY <1>3 DEF VarIntEnd

(* What is read anywhere is a number.                                       *)
LEMMA VarIntTypes ==
    ASSUME NEW data \in Seq(Bytes), NEW at \in Nat
    PROVE  /\ VarIntEnd(data, at) \in Nat /\ AsVarInt(data, at) \in Nat
           /\ VarIntEnd(data, at) # 0 => at + VarIntEnd(data, at) <= Len(data)
<1> DEFINE ends == {i \in 1..VarIntBytes : Has(data, at, i) /\ data[at + i] < 128}
<1>1. Len(data) \in Nat
  OBVIOUS
<1>2. VarIntEnd(data, at) = 0 \/ VarIntEnd(data, at) \in ends
  <2>1. CASE ends = {}
    BY <2>1 DEF VarIntEnd
  <2>2. CASE ends # {}
    <3>1. ends \in SUBSET Nat
      BY DEF VarIntBytes
    <3>2. VarIntEnd(data, at) = CHOOSE i \in ends : \A j \in ends : i <= j
      BY <2>2 DEF VarIntEnd
    <3> HIDE DEF ends
    <3>3. \E i \in ends : \A j \in ends : i <= j
      BY <2>2, <3>1, LeastNat
    <3> QED
      BY <3>2, <3>3
  <2> QED
    BY <2>1, <2>2
<1>3. /\ VarIntEnd(data, at) \in Nat
      /\ VarIntEnd(data, at) # 0 => at + VarIntEnd(data, at) <= Len(data)
                                    /\ VarIntEnd(data, at) >= 1
  BY <1>1, <1>2 DEF Has, VarIntBytes
<1> HIDE DEF ends
<1> DEFINE e == VarIntEnd(data, at)
           digit == [i \in 1..4 |-> IF i > e THEN 0 ELSE data[at + i] % 128]
           fifth == IF e = 5 THEN data[at + 5] % 16 ELSE 0
<1>4. ASSUME NEW i \in 1..5, ~(i > e) PROVE data[at + i] \in Nat
  <2>1. at + i \in 1..Len(data)
    BY <1>1, <1>3, <1>4
  <2> QED
    BY <2>1, BytesAre
<1>5. ASSUME NEW i \in 1..4 PROVE digit[i] \in Nat
  <2>1. CASE i > e
    BY <2>1
  <2>2. CASE ~(i > e)
    <3>1. data[at + i] \in Nat
      BY <1>4, <2>2
    <3>2. data[at + i] % 128 \in Nat
      BY <3>1, Division
    <3> QED
      BY <2>2, <3>2
  <2> QED
    BY <2>1, <2>2
<1>6. fifth \in Nat
  <2>1. ASSUME e = 5 PROVE data[at + 5] % 16 \in Nat
    <3>1. data[at + 5] \in Nat
      BY <1>4, <2>1
    <3> QED
      BY <3>1
  <2> QED
    BY <2>1
<1>7. AsVarInt(data, at) = IF fifth >= 8 THEN Huge
                           ELSE (digit[1] + 128 * (digit[2] + 128 * (digit[3] + 128 * digit[4])))
                                  + fifth * 268435456
  BY SMT DEF AsVarInt
<1> HIDE DEF e, digit, fifth
<1>8. AsVarInt(data, at) \in Nat
  <2>1. digit[1] \in Nat /\ digit[2] \in Nat /\ digit[3] \in Nat /\ digit[4] \in Nat
    BY <1>5
  <2>3. Huge \in Nat
    BY Limits
  <2>4. (digit[1] + 128 * (digit[2] + 128 * (digit[3] + 128 * digit[4]))) + fifth * 268435456 \in Nat
    <3>1. digit[3] + 128 * digit[4] \in Nat
      BY SMT, <2>1
    <3>2. digit[2] + 128 * (digit[3] + 128 * digit[4]) \in Nat
      BY SMT, <2>1, <3>1
    <3>3. digit[1] + 128 * (digit[2] + 128 * (digit[3] + 128 * digit[4])) \in Nat
      BY SMT, <2>1, <3>2
    <3> QED
      BY SMT, <1>6, <3>3
  <2>5. CASE fifth >= 8
    BY SMT, <1>7, <2>3, <2>5
  <2>6. CASE ~(fifth >= 8)
    BY SMT, <1>7, <2>4, <2>6
  <2> QED
    BY <2>5, <2>6
<1> QED
  BY <1>3, <1>8

(***************************************************************************)
(* Pieces joined one behind the other                                      *)
(***************************************************************************)
IsJoined(g, piece, n) == g = [i \in 0..n |-> IF i = 0 THEN <<>> ELSE g[i - 1] \o piece[i]]

(* The recursion that joins them is well defined.                           *)
LEMMA JoinedExists ==
    ASSUME NEW piece, NEW n \in Nat
    PROVE  \E g : IsJoined(g, piece, n)
<1> DEFINE S == {k \in Nat : \E g : IsJoined(g, piece, k)}
<1>1. 0 \in S
  <2> DEFINE g == [i \in 0..0 |-> <<>>]
  <2>1. IsJoined(g, piece, 0)
    BY DEF IsJoined
  <2> HIDE DEF g
  <2> QED
    BY <2>1
<1>2. ASSUME NEW k \in Nat, k \in S PROVE k + 1 \in S
  <2>1. PICK g : IsJoined(g, piece, k)
    BY <1>2
  <2> DEFINE h == [i \in 0..(k + 1) |-> IF i = k + 1 THEN g[k] \o piece[k + 1] ELSE g[i]]
  <2>2. \A i \in 0..(k + 1) : h[i] = IF i = 0 THEN <<>> ELSE h[i - 1] \o piece[i]
    BY <2>1 DEF IsJoined
  <2>3. h = [i \in 0..(k + 1) |-> h[i]]
    OBVIOUS
  <2> HIDE DEF h
  <2>4. IsJoined(h, piece, k + 1)
    BY <2>2, <2>3 DEF IsJoined
  <2> QED
    BY <2>4
<1> HIDE DEF S
<1>3. n \in S
  BY <1>1, <1>2, Upwards
<1> QED
  BY <1>3 DEF S

(* What it joins are sequences, each longer by a piece.                     *)
ArePieces(S, piece, n) == \A i \in 1..n : piece[i] \in Seq(S)
JoinsSequences(S, g, piece, n) ==
    /\ \A i \in 0..n : g[i] \in Seq(S) /\ Len(g[i]) \in Nat
    /\ g[0] = <<>>
    /\ \A i \in 1..n : /\ Len(g[i]) = Len(g[i - 1]) + Len(piece[i])
                       /\ \A k \in 1..Len(g[i - 1]) : g[i][k] = g[i - 1][k]
                       /\ \A k \in 1..Len(piece[i]) : g[i][Len(g[i - 1]) + k] = piece[i][k]

LEMMA JoinedTypes ==
    ASSUME NEW S, NEW n \in Nat, NEW piece, ArePieces(S, piece, n),
           NEW g, IsJoined(g, piece, n)
    PROVE  JoinsSequences(S, g, piece, n)
<1> DEFINE T == {k \in Nat : k <= n => g[k] \in Seq(S)}
<1>1. g[0] = <<>> /\ \A i \in 1..n : g[i] = g[i - 1] \o piece[i]
  <2>1. 0 \in 0..n /\ \A i \in 1..n : i \in 0..n /\ i # 0
    OBVIOUS
  <2> QED
    BY <2>1 DEF IsJoined
<1>2. 0 \in T
  BY <1>1, EmptySeq
<1>3. ASSUME NEW k \in Nat, k \in T PROVE k + 1 \in T
  <2>1. ASSUME k + 1 <= n PROVE g[k + 1] \in Seq(S)
    <3>1. k + 1 \in 1..n /\ (k + 1) - 1 = k /\ k <= n
      BY <2>1
    <3>2. g[k + 1] = g[k] \o piece[k + 1] /\ g[k] \in Seq(S) /\ piece[k + 1] \in Seq(S)
      BY <1>1, <1>3, <3>1 DEF ArePieces
    <3> QED
      BY <3>2, ConcatProperties
  <2> QED
    BY <2>1
<1> HIDE DEF T
<1>4. \A k \in Nat : k \in T
  BY <1>2, <1>3, Upwards
<1>5. \A i \in 0..n : g[i] \in Seq(S) /\ Len(g[i]) \in Nat
  BY <1>4, LenProperties DEF T
<1>6. ASSUME NEW i \in 1..n
      PROVE  /\ Len(g[i]) = Len(g[i - 1]) + Len(piece[i])
             /\ \A k \in 1..Len(g[i - 1]) : g[i][k] = g[i - 1][k]
             /\ \A k \in 1..Len(piece[i]) : g[i][Len(g[i - 1]) + k] = piece[i][k]
  <2>1. i - 1 \in 0..n
    OBVIOUS
  <2> DEFINE a == g[i - 1]
             b == piece[i]
  <2>2. g[i] = a \o b /\ a \in Seq(S) /\ b \in Seq(S)
    BY <1>1, <1>5, <2>1 DEF ArePieces
  <2> HIDE DEF a, b
  <2>3. /\ Len(a \o b) = Len(a) + Len(b)
        /\ \A k \in 1..Len(a) : (a \o b)[k] = a[k]
        /\ \A k \in 1..Len(b) : (a \o b)[Len(a) + k] = b[k]
    BY <2>2, ConcatParts
  <2> QED
    BY <2>2, <2>3 DEF a, b
<1> QED
  BY <1>1, <1>5, <1>6 DEF JoinsSequences

(* What is joined first stays in front.                                     *)
StaysInFront(g, i, n) ==
    \A j \in i..n : Len(g[i]) <= Len(g[j]) /\ \A k \in 1..Len(g[i]) : g[j][k] = g[i][k]

LEMMA JoinedGrows ==
    ASSUME NEW S, NEW n \in Nat, NEW piece, ArePieces(S, piece, n),
           NEW g, IsJoined(g, piece, n), NEW i \in 0..n
    PROVE  StaysInFront(g, i, n)
<1>a. JoinsSequences(S, g, piece, n)
  BY JoinedTypes
<1>0. /\ \A k \in 0..n : g[k] \in Seq(S) /\ Len(g[k]) \in Nat
      /\ \A k \in 1..n : /\ Len(g[k]) = Len(g[k - 1]) + Len(piece[k])
                         /\ \A x \in 1..Len(g[k - 1]) : g[k][x] = g[k - 1][x]
  BY <1>a DEF JoinsSequences
<1> DEFINE T == {d \in Nat : i + d <= n => /\ Len(g[i]) <= Len(g[i + d])
                                           /\ \A k \in 1..Len(g[i]) : g[i + d][k] = g[i][k]}
<1>1. 0 \in T
  <2>1. i + 0 = i /\ Len(g[i]) \in Nat
    BY <1>0
  <2> QED
    BY <2>1
<1>2. ASSUME NEW d \in Nat, d \in T PROVE d + 1 \in T
  <2>1. ASSUME i + (d + 1) <= n
        PROVE  /\ Len(g[i]) <= Len(g[i + (d + 1)])
               /\ \A k \in 1..Len(g[i]) : g[i + (d + 1)][k] = g[i][k]
    <3> DEFINE j == i + (d + 1)
    <3>1. j \in 1..n /\ j - 1 = i + d /\ i + d \in 0..n /\ i + d <= n
      BY <2>1
    <3> HIDE DEF j
    <3>2. /\ Len(g[j]) = Len(g[i + d]) + Len(piece[j])
          /\ \A k \in 1..Len(g[i + d]) : g[j][k] = g[i + d][k]
      <4>1. /\ Len(g[j]) = Len(g[j - 1]) + Len(piece[j])
            /\ \A k \in 1..Len(g[j - 1]) : g[j][k] = g[j - 1][k]
        BY <1>0, <3>1
      <4> QED
        BY <3>1, <4>1
    <3>5. Len(piece[j]) \in Nat
      BY <3>1, LenProperties DEF ArePieces
    <3>3. /\ Len(g[i]) <= Len(g[i + d]) /\ Len(g[i]) \in Nat /\ Len(g[i + d]) \in Nat
          /\ \A k \in 1..Len(g[i]) : g[i + d][k] = g[i][k]
      BY <1>2, <3>1, <1>0
    <3>4. \A k \in 1..Len(g[i]) : k \in 1..Len(g[i + d])
      BY <3>3
    <3>6. Len(g[i]) <= Len(g[j])
      <4> DEFINE a == Len(g[i])
                 b == Len(g[i + d])
                 c == Len(piece[j])
      <4>1. a \in Nat /\ b \in Nat /\ c \in Nat /\ a <= b /\ Len(g[j]) = b + c
        BY <3>2, <3>3, <3>5
      <4> HIDE DEF a, b, c
      <4> QED
        BY <4>1 DEF a
    <3>7. \A k \in 1..Len(g[i]) : g[j][k] = g[i][k]
      BY <3>2, <3>3, <3>4
    <3> QED
      BY <3>6, <3>7 DEF j
  <2> QED
    BY <2>1
<1> HIDE DEF T
<1>3. \A d \in Nat : d \in T
  BY <1>1, <1>2, Upwards
<1> SUFFICES ASSUME NEW j \in i..n
             PROVE  Len(g[i]) <= Len(g[j]) /\ \A k \in 1..Len(g[i]) : g[j][k] = g[i][k]
  BY DEF StaysInFront
<1>4. j - i \in Nat /\ i + (j - i) = j /\ j <= n
  OBVIOUS
<1> QED
  BY <1>3, <1>4 DEF T

(* What is joined depends on the pieces joined only.                        *)
SameParts(part, piece, m) == \A i \in 1..m : part[i] = piece[i]

LEMMA JoinedSame ==
    ASSUME NEW n \in Nat, NEW m \in 0..n, NEW piece, NEW part, SameParts(part, piece, m),
           NEW g, IsJoined(g, piece, n), NEW h, IsJoined(h, part, m)
    PROVE  h[m] = g[m]
<1> DEFINE T == {k \in Nat : k <= m => h[k] = g[k]}
<1>1. 0 \in T
  BY DEF IsJoined
<1>2. ASSUME NEW k \in Nat, k \in T PROVE k + 1 \in T
  <2>1. ASSUME k + 1 <= m PROVE h[k + 1] = g[k + 1]
    <3>1. k + 1 \in 0..m /\ k + 1 \in 0..n /\ k + 1 # 0 /\ (k + 1) - 1 = k /\ k <= m /\ k + 1 \in 1..m
      BY <2>1
    <3>2. h[k + 1] = h[k] \o part[k + 1]
      BY <3>1 DEF IsJoined
    <3>3. g[k + 1] = g[k] \o piece[k + 1]
      BY <3>1 DEF IsJoined
    <3>4. h[k] = g[k] /\ part[k + 1] = piece[k + 1]
      BY <1>2, <3>1 DEF SameParts
    <3> QED
      BY <3>2, <3>3, <3>4
  <2> QED
    BY <2>1
<1> HIDE DEF T
<1>3. \A k \in Nat : k \in T
  BY <1>1, <1>2, Upwards
<1> QED
  BY <1>3 DEF T

(***************************************************************************)
(* build_batch                                                             *)
(***************************************************************************)
Packets == Seq(Seq(Bytes))
Small(packets) == \A i \in 1..Len(packets) : Len(packets[i]) <= Huge
Pieces(packets) == [i \in 1..Len(packets) |-> PacketBytes(packets[i])]

(* A packet is its length and its bytes.                                    *)
LEMMA PacketParts ==
    ASSUME NEW packet \in Seq(Bytes), Len(packet) <= Huge
    PROVE  /\ Len(packet) \in Values
           /\ VarInt(Len(packet)) \in Seq(Bytes) /\ Len(VarInt(Len(packet))) \in Nat \ {0}
           /\ PacketBytes(packet) \in Seq(Bytes)
           /\ Len(PacketBytes(packet)) = Len(VarInt(Len(packet))) + Len(packet)
           /\ \A k \in 1..Len(VarInt(Len(packet))) : PacketBytes(packet)[k] = VarInt(Len(packet))[k]
           /\ \A k \in 1..Len(packet) : PacketBytes(packet)[Len(VarInt(Len(packet))) + k] = packet[k]
<1> DEFINE s == VarInt(Len(packet))
<1>1. Len(packet) \in Values
  BY ValuesAre
<1>2. s \in Seq(Bytes) /\ Len(s) \in 1..5
  BY <1>1, VarIntShape DEF IsVarInt
<1>3. PacketBytes(packet) = s \o packet
  BY DEF PacketBytes
<1> HIDE DEF s
<1>4. /\ s \o packet \in Seq(Bytes) /\ Len(s \o packet) = Len(s) + Len(packet)
      /\ \A k \in 1..Len(s) : (s \o packet)[k] = s[k]
      /\ \A k \in 1..Len(packet) : (s \o packet)[Len(s) + k] = packet[k]
  BY <1>2, ConcatParts
<1>5. \A n \in 1..5 : n \in Nat \ {0}
  OBVIOUS
<1>6. Len(s) \in Nat \ {0}
  BY <1>2, <1>5
<1> QED
  BY <1>1, <1>2, <1>3, <1>4, <1>6 DEF s

(* A batch is its packets, one behind the other.                            *)
LEMMA BatchJoined ==
    ASSUME NEW packets \in Packets
    PROVE  \E g : IsJoined(g, Pieces(packets), Len(packets)) /\ BatchBytes(packets) = g[Len(packets)]
<1> DEFINE n == Len(packets)
           Is(f) == f = [i \in 0..n |-> IF i = 0 THEN <<>> ELSE f[i - 1] \o PacketBytes(packets[i])]
           upTo == CHOOSE f : Is(f)
<1>1. n \in Nat
  BY DEF Packets
<1>2. ASSUME NEW f PROVE Is(f) <=> IsJoined(f, Pieces(packets), n)
  <2>1. \A i \in 0..n : i # 0 => Pieces(packets)[i] = PacketBytes(packets[i])
    BY <1>1 DEF Pieces
  <2>2. [i \in 0..n |-> IF i = 0 THEN <<>> ELSE f[i - 1] \o PacketBytes(packets[i])]
          = [i \in 0..n |-> IF i = 0 THEN <<>> ELSE f[i - 1] \o Pieces(packets)[i]]
    BY <2>1
  <2> QED
    BY <2>2 DEF IsJoined
<1>3. BatchBytes(packets) = upTo[n]
  BY DEF BatchBytes
<1> HIDE DEF Is
<1>4. PICK g : IsJoined(g, Pieces(packets), n)
  BY <1>1, JoinedExists
<1>5. Is(upTo)
  BY <1>2, <1>4
<1>6. IsJoined(upTo, Pieces(packets), n)
  BY <1>2, <1>5
<1> HIDE DEF upTo
<1> QED
  BY <1>3, <1>6

(* Its pieces are bytes.                                                    *)
LEMMA PiecesAre ==
    ASSUME NEW packets \in Packets, Small(packets)
    PROVE  /\ \A i \in 1..Len(packets) : /\ packets[i] \in Seq(Bytes) /\ Len(packets[i]) <= Huge
                                         /\ Pieces(packets)[i] = PacketBytes(packets[i])
                                         /\ Pieces(packets)[i] \in Seq(Bytes)
           /\ ArePieces(Bytes, Pieces(packets), Len(packets))
<1> SUFFICES ASSUME NEW i \in 1..Len(packets)
             PROVE  /\ packets[i] \in Seq(Bytes) /\ Len(packets[i]) <= Huge
                    /\ Pieces(packets)[i] = PacketBytes(packets[i])
                    /\ Pieces(packets)[i] \in Seq(Bytes)
  BY DEF ArePieces
<1>1. packets[i] \in Seq(Bytes) /\ Len(packets[i]) <= Huge
  BY DEF Packets, Small
<1>2. PacketBytes(packets[i]) \in Seq(Bytes)
  BY <1>1, PacketParts
<1> QED
  BY <1>1, <1>2 DEF Pieces

(***************************************************************************)
(* parse_batch                                                             *)
(***************************************************************************)

(* A recursion that goes on further behind, or stops, is well defined.      *)
GoesOn(next, N) ==
    \A at \in 0..N : next[at] \in Nat /\ (next[at] # 0 => at < next[at] /\ next[at] <= N)
IsChain(f, next, part, N) ==
    f = [at \in 0..N |-> IF next[at] = 0 THEN part[at] ELSE part[at] \o f[next[at]]]

LEMMA ChainExists ==
    ASSUME NEW N \in Nat, NEW next, NEW part, GoesOn(next, N)
    PROVE  \E f : IsChain(f, next, part, N)
<1> DEFINE Value(f, at) == IF next[at] = 0 THEN part[at] ELSE part[at] \o f[next[at]]
           From(k, f) == \A at \in k..N : f[at] = Value(f, at)
           S == {d \in Nat : d <= N => \E f : From(N - d, f)}
<1>0. \A at \in 0..N : next[at] \in Nat /\ (next[at] # 0 => at < next[at] /\ next[at] <= N)
  BY DEF GoesOn
<1>1. ASSUME NEW k \in 0..N, NEW f, \A at \in (k + 1)..N : f[at] = Value(f, at)
      PROVE  \E h : From(k, h)
  <2> DEFINE h == [at \in k..N |-> IF at = k THEN Value(f, k) ELSE f[at]]
  <2>1. ASSUME NEW at \in k..N PROVE Value(h, at) = Value(f, at)
    <3>1. at \in 0..N
      OBVIOUS
    <3>2. next[at] # 0 => next[at] \in k..N /\ next[at] # k
      BY <1>0, <3>1
    <3>3. next[at] # 0 => h[next[at]] = f[next[at]]
      BY <3>2
    <3> QED
      BY <3>3
  <2>2. \A at \in k..N : h[at] = Value(f, at)
    <3>1. ASSUME NEW at \in k..N PROVE h[at] = Value(f, at)
      <4>1. CASE at = k
        BY <4>1
      <4>2. CASE at # k
        <5>1. at \in (k + 1)..N
          BY <4>2
        <5>2. h[at] = f[at]
          BY <4>2
        <5> HIDE DEF h, Value
        <5> QED
          BY <1>1, <5>1, <5>2
      <4> QED
        BY <4>1, <4>2
    <3> QED
      BY <3>1
  <2> HIDE DEF h, Value
  <2>3. From(k, h)
    BY <2>1, <2>2
  <2> QED
    BY <2>3
<1>2. 0 \in S
  <2>1. \A at \in (N + 1)..N : <<>>[at] = Value(<<>>, at)
    OBVIOUS
  <2> HIDE DEF Value, From
  <2>2. N \in 0..N /\ N - 0 = N
    OBVIOUS
  <2>3. \E f : From(N, f)
    BY <1>1, <2>1, <2>2
  <2> QED
    BY <2>2, <2>3
<1>3. ASSUME NEW d \in Nat, d \in S PROVE d + 1 \in S
  <2>1. ASSUME d + 1 <= N PROVE \E f : From(N - (d + 1), f)
    <3> DEFINE k == N - (d + 1)
    <3>1. k \in 0..N /\ k + 1 = N - d /\ d <= N
      BY <2>1
    <3>2. PICK f : From(N - d, f)
      <4> HIDE DEF From
      <4> QED
        BY <1>3, <3>1
    <3>3. \A at \in (k + 1)..N : f[at] = Value(f, at)
      <4> HIDE DEF Value, k
      <4> QED
        BY <3>1, <3>2
    <3> HIDE DEF Value, From, k
    <3>4. \E h : From(k, h)
      BY <1>1, <3>1, <3>3
    <3> QED
      BY <3>4 DEF k
  <2> HIDE DEF From
  <2> QED
    BY <2>1
<1> HIDE DEF S
<1>4. N \in S
  BY <1>2, <1>3, Upwards
<1>5. PICK g : From(0, g)
  <2>1. N - N = 0 /\ N <= N
    OBVIOUS
  <2> HIDE DEF From
  <2> QED
    BY <1>4, <2>1 DEF S
<1> DEFINE f == [at \in 0..N |-> g[at]]
<1>6. ASSUME NEW at \in 0..N PROVE Value(f, at) = Value(g, at)
  <2>1. next[at] # 0 => f[next[at]] = g[next[at]]
    BY <1>0
  <2> QED
    BY <2>1
<1>7. \A at \in 0..N : g[at] = Value(g, at)
  BY <1>5
<1>8. f = [at \in 0..N |-> Value(f, at)]
  <2> HIDE DEF Value
  <2> QED
    BY <1>6, <1>7
<1> HIDE DEF f
<1> QED
  BY <1>8 DEF IsChain

(* Where the reading stops, what is read of a packet, and where it goes on. *)
StopsAt(data, at) ==
    VarIntEnd(data, at) = 0 \/ ~IsWhole(data, at + VarIntEnd(data, at), AsVarInt(data, at))
PacketAt(data, at) == Slice(data, at + VarIntEnd(data, at), AsVarInt(data, at))
After(data, at) == (at + VarIntEnd(data, at)) + AsVarInt(data, at)
IsRead(f, data) ==
    f = [at \in 0..Len(data) |->
            IF StopsAt(data, at) THEN <<>> ELSE <<PacketAt(data, at)>> \o f[After(data, at)]]

(* The recursion that reads any bytes is well defined.                      *)
LEMMA ParseReads ==
    ASSUME NEW data \in Seq(Bytes)
    PROVE  \E f : IsRead(f, data) /\ ParseBatch(data) = f[0]
<1> DEFINE next == [at \in 0..Len(data) |-> IF StopsAt(data, at) THEN 0 ELSE After(data, at)]
           part == [at \in 0..Len(data) |->
                       IF StopsAt(data, at) THEN <<>> ELSE <<PacketAt(data, at)>>]
           Is(f) == f = [at \in 0..Len(data) |->
                            IF VarIntEnd(data, at) = 0
                                 \/ ~IsWhole(data, at + VarIntEnd(data, at), AsVarInt(data, at)) THEN <<>>
                            ELSE <<Slice(data, at + VarIntEnd(data, at), AsVarInt(data, at))>>
                                   \o f[(at + VarIntEnd(data, at)) + AsVarInt(data, at)]]
           read == CHOOSE f : Is(f)
<1>1. Len(data) \in Nat
  OBVIOUS
<1>2. ASSUME NEW at \in 0..Len(data), ~StopsAt(data, at)
      PROVE  After(data, at) \in Nat /\ at < After(data, at) /\ After(data, at) <= Len(data)
  <2>1. at \in Nat
    OBVIOUS
  <2>2. VarIntEnd(data, at) \in Nat /\ AsVarInt(data, at) \in Nat
    BY <2>1, VarIntTypes
  <2>3. /\ VarIntEnd(data, at) # 0
        /\ AsVarInt(data, at) <= Len(data) - (at + VarIntEnd(data, at))
    BY <1>2 DEF StopsAt, IsWhole, Has
  <2> QED
    BY <1>1, <2>1, <2>2, <2>3 DEF After
<1>3. GoesOn(next, Len(data))
  BY <1>2 DEF GoesOn
<1>4. \A at \in 0..Len(data) :
          /\ next[at] = 0 <=> StopsAt(data, at)
          /\ StopsAt(data, at) => part[at] = <<>>
          /\ ~StopsAt(data, at) => part[at] = <<PacketAt(data, at)>> /\ next[at] = After(data, at)
  BY <1>2
<1> HIDE DEF next, part
<1>5. PICK f : IsChain(f, next, part, Len(data))
  BY <1>1, <1>3, ChainExists
<1>6. ASSUME NEW h PROVE Is(h) <=> IsRead(h, data)
  BY DEF IsRead, StopsAt, PacketAt, After
<1>7. ParseBatch(data) = read[0]
  BY DEF ParseBatch
<1> HIDE DEF Is
<1>8. IsRead(f, data)
  <2>1. [at \in 0..Len(data) |-> IF next[at] = 0 THEN part[at] ELSE part[at] \o f[next[at]]]
          = [at \in 0..Len(data) |->
               IF StopsAt(data, at) THEN <<>> ELSE <<PacketAt(data, at)>> \o f[After(data, at)]]
    BY <1>4
  <2> QED
    BY <1>5, <2>1 DEF IsRead, IsChain
<1>9. IsRead(read, data)
  BY <1>6, <1>8
<1> HIDE DEF read
<1> QED
  BY <1>7, <1>9

(* A packet that is all there is read.                                      *)
LEMMA PacketWhole ==
    ASSUME NEW data \in Seq(Bytes), NEW at \in Nat, NEW packet \in Seq(Bytes), Len(packet) <= Huge,
           Begins(data, at, PacketBytes(packet))
    PROVE  /\ ~StopsAt(data, at) /\ PacketAt(data, at) = packet
           /\ After(data, at) = at + Len(PacketBytes(packet))
<1> DEFINE s == VarInt(Len(packet))
           all == PacketBytes(packet)
<1>1. /\ Len(packet) \in Values /\ Len(packet) \in Nat /\ Len(data) \in Nat
      /\ s \in Seq(Bytes) /\ Len(s) \in Nat \ {0}
      /\ all \in Seq(Bytes) /\ Len(all) = Len(s) + Len(packet)
      /\ \A k \in 1..Len(s) : all[k] = s[k]
      /\ \A k \in 1..Len(packet) : all[Len(s) + k] = packet[k]
  BY PacketParts, LenProperties
<1>2. at + Len(all) <= Len(data) /\ \A i \in 1..Len(all) : at + i <= Len(data) => data[at + i] = all[i]
  BY DEF Begins, Agrees
<1> HIDE DEF all, s
<1>3. \A i \in 1..Len(all) : data[at + i] = all[i]
  BY <1>1, <1>2
<1>4. at + Len(s) <= Len(data) /\ \A i \in 1..Len(s) : data[at + i] = s[i]
  BY <1>1, <1>2, <1>3
<1>5. \A k \in 1..Len(packet) : data[(at + Len(s)) + k] = packet[k]
  <2> SUFFICES ASSUME NEW k \in 1..Len(packet) PROVE data[(at + Len(s)) + k] = packet[k]
    OBVIOUS
  <2>1. Len(s) + k \in 1..Len(all) /\ at + (Len(s) + k) = (at + Len(s)) + k
    BY <1>1
  <2> QED
    BY <1>1, <1>3, <2>1
<1>6. Begins(data, at, VarInt(Len(packet)))
  BY <1>4 DEF Begins, Agrees, s
<1>7. VarIntEnd(data, at) = Len(s) /\ AsVarInt(data, at) = Len(packet)
  BY <1>1, <1>6, VarIntReads DEF s
<1>8. ~StopsAt(data, at)
  BY <1>1, <1>2, <1>7 DEF StopsAt, IsWhole, Has
<1>9. PacketAt(data, at) = packet
  <2> DEFINE body == at + Len(s)
  <2>1. body \in Nat /\ body + Len(packet) <= Len(data) /\ body + 1 \in Nat
    BY <1>1, <1>2
  <2>2. PacketAt(data, at) = SubSeq(data, body + 1, body + Len(packet))
    BY <1>7 DEF PacketAt, Slice
  <2>3. \A k \in 1..Len(packet) : data[body + k] = packet[k]
    BY <1>5
  <2> HIDE DEF body
  <2>4. SubSeq(data, body + 1, body + Len(packet)) = packet
    <3> DEFINE t == SubSeq(data, body + 1, body + Len(packet))
    <3>1. /\ t \in Seq(Bytes) /\ Len(t) = Len(packet)
          /\ \A k \in 1..Len(packet) : t[k] = data[body + k]
      BY <1>1, <2>1
    <3> HIDE DEF t
    <3>2. \A k \in 1..Len(packet) : t[k] = packet[k]
      BY <2>3, <3>1
    <3> QED
      BY <3>1, <3>2, SeqEqual DEF t
  <2> QED
    BY <2>2, <2>4
<1>10. After(data, at) = at + Len(all)
  BY <1>1, <1>7 DEF After
<1> QED
  BY <1>8, <1>9, <1>10 DEF all

(* A packet that has lost its end ends the reading.                         *)
LEMMA PacketCut ==
    ASSUME NEW data \in Seq(Bytes), NEW at \in Nat, NEW packet \in Seq(Bytes), Len(packet) <= Huge,
           Agrees(data, at, PacketBytes(packet)), at <= Len(data),
           Len(data) < at + Len(PacketBytes(packet))
    PROVE  StopsAt(data, at)
<1> DEFINE s == VarInt(Len(packet))
           all == PacketBytes(packet)
<1>1. /\ Len(packet) \in Values /\ Len(packet) \in Nat /\ Len(data) \in Nat
      /\ s \in Seq(Bytes) /\ Len(s) \in Nat \ {0}
      /\ all \in Seq(Bytes) /\ Len(all) = Len(s) + Len(packet)
      /\ \A k \in 1..Len(s) : all[k] = s[k]
  BY PacketParts, LenProperties
<1>2. Len(data) < at + Len(all) /\ \A i \in 1..Len(all) : at + i <= Len(data) => data[at + i] = all[i]
  BY DEF Agrees
<1> HIDE DEF all, s
<1>3. \A i \in 1..Len(s) : at + i <= Len(data) => data[at + i] = s[i]
  BY <1>1, <1>2
<1>4. Agrees(data, at, VarInt(Len(packet)))
  BY <1>3 DEF Agrees, s
<1>5. CASE Len(data) < at + Len(s)
  <2>1. VarIntEnd(data, at) = 0
    BY <1>1, <1>4, <1>5, VarIntCut DEF s
  <2> QED
    BY <2>1 DEF StopsAt
<1>6. CASE ~(Len(data) < at + Len(s))
  <2>1. at + Len(s) <= Len(data)
    BY <1>1, <1>6
  <2>2. Begins(data, at, VarInt(Len(packet)))
    BY <1>4, <2>1 DEF Begins, s
  <2>3. VarIntEnd(data, at) = Len(s) /\ AsVarInt(data, at) = Len(packet)
    BY <1>1, <2>2, VarIntReads DEF s
  <2>4. ~(Len(packet) <= Len(data) - (at + Len(s)))
    BY <1>1, <1>2
  <2> QED
    BY <2>3, <2>4 DEF StopsAt, IsWhole, Has
<1> QED
  BY <1>5, <1>6

(* What is left of a batch when it has lost its end: how many packets it    *)
(* still holds.                                                             *)
HoldsWhole(g, m, n, K) == K \in 0..m /\ Len(g[K]) <= n /\ (K < m => n < Len(g[K + 1]))

LEMMA LastWhole ==
    ASSUME NEW m \in Nat, NEW g, g[0] = <<>>, \A i \in 0..m : Len(g[i]) \in Nat, NEW n \in Nat
    PROVE  \E K : HoldsWhole(g, m, n, K)
<1> DEFINE T == {k \in Nat : k <= m /\ (k < m => n < Len(g[k + 1]))}
<1>1. T # {} /\ T \in SUBSET Nat
  <2>1. m \in T
    OBVIOUS
  <2> QED
    BY <2>1
<1>2. PICK K \in T : \A k \in T : K <= k
  <2> HIDE DEF T
  <2> QED
    BY <1>1, LeastNat
<1>3. K \in 0..m /\ (K < m => n < Len(g[K + 1]))
  OBVIOUS
<1>4. Len(g[K]) <= n
  <2>1. CASE K = 0
    BY <2>1
  <2>2. CASE K # 0
    <3>1. K - 1 \in Nat /\ K - 1 < m /\ K - 1 <= m /\ (K - 1) + 1 = K /\ ~(K <= K - 1)
      BY <1>3, <2>2
    <3>2. K - 1 \notin T
      BY <1>2, <3>1
    <3>3. ~(n < Len(g[K]))
      BY <3>1, <3>2
    <3>4. Len(g[K]) \in Nat
      BY <1>3
    <3> QED
      BY <3>3, <3>4
  <2> QED
    BY <2>1, <2>2
<1> QED
  BY <1>3, <1>4 DEF HoldsWhole

(* Bytes that are the first n of a batch agree, at the end of its first     *)
(* packets, with the packet that follows.                                   *)
LEMMA PrefixAgrees ==
    ASSUME NEW m \in Nat, NEW piece, ArePieces(Bytes, piece, m),
           NEW g, IsJoined(g, piece, m), NEW data \in Seq(Bytes),
           \A k \in 1..Len(data) : data[k] = g[m][k], NEW i \in 1..m
    PROVE  Agrees(data, Len(g[i - 1]), piece[i])
<1> DEFINE at == Len(g[i - 1])
<1>1. JoinsSequences(Bytes, g, piece, m)
  BY JoinedTypes
<1>2. i \in 0..m /\ i - 1 \in 0..m /\ m \in i..m
  OBVIOUS
<1>3. /\ at \in Nat /\ Len(g[i]) = at + Len(piece[i])
      /\ \A k \in 1..Len(piece[i]) : g[i][at + k] = piece[i][k]
  BY <1>1, <1>2 DEF JoinsSequences
<1>4. \A k \in 1..Len(g[i]) : g[m][k] = g[i][k]
  <2>1. StaysInFront(g, i, m)
    BY <1>2, JoinedGrows
  <2> QED
    BY <1>2, <2>1 DEF StaysInFront
<1>5. Len(piece[i]) \in Nat /\ Len(data) \in Nat
  BY LenProperties DEF ArePieces
<1> HIDE DEF at
<1>6. ASSUME NEW k \in 1..Len(piece[i]), at + k <= Len(data) PROVE data[at + k] = piece[i][k]
  <2>1. at + k \in 1..Len(data) /\ at + k \in 1..Len(g[i])
    BY <1>3, <1>5, <1>6
  <2>2. data[at + k] = g[m][at + k] /\ g[m][at + k] = g[i][at + k] /\ g[i][at + k] = piece[i][k]
    BY <1>3, <1>4, <2>1
  <2> QED
    BY <2>2
<1> QED
  BY <1>6 DEF Agrees, at

(* What is read of the first n bytes of a batch.                            *)
LEMMA PrefixParsed ==
    ASSUME NEW packets \in Packets, Small(packets),
           NEW g, IsJoined(g, Pieces(packets), Len(packets)),
           NEW data \in Seq(Bytes), Len(data) <= Len(g[Len(packets)]),
           \A k \in 1..Len(data) : data[k] = g[Len(packets)][k]
    PROVE  \E K : /\ HoldsWhole(g, Len(packets), Len(data), K)
                  /\ ParseBatch(data) = SubSeq(packets, 1, K)
<1> DEFINE m == Len(packets)
           n == Len(data)
           piece == Pieces(packets)
<1>1. /\ m \in Nat /\ n \in Nat
      /\ \A i \in 1..m : /\ packets[i] \in Seq(Bytes) /\ Len(packets[i]) <= Huge
                         /\ piece[i] = PacketBytes(packets[i])
      /\ ArePieces(Bytes, piece, m)
  BY PiecesAre DEF Packets
<1>2. JoinsSequences(Bytes, g, piece, m)
  BY <1>1, JoinedTypes
<1>3. /\ g[0] = <<>> /\ \A i \in 0..m : g[i] \in Seq(Bytes) /\ Len(g[i]) \in Nat
      /\ \A i \in 1..m : Len(g[i]) = Len(g[i - 1]) + Len(piece[i])
  BY <1>2 DEF JoinsSequences
<1>4. \A i \in 1..m : Agrees(data, Len(g[i - 1]), piece[i])
  BY <1>1, PrefixAgrees
<1>5. PICK K : HoldsWhole(g, m, n, K)
  BY <1>1, <1>3, LastWhole
<1>6. PICK f : IsRead(f, data) /\ ParseBatch(data) = f[0]
  BY ParseReads
<1>7. \A at \in 0..n : f[at] = IF StopsAt(data, at) THEN <<>>
                               ELSE <<PacketAt(data, at)>> \o f[After(data, at)]
  BY <1>6 DEF IsRead
<1>8. K \in 0..m /\ Len(g[K]) <= n /\ (K < m => n < Len(g[K + 1]))
  BY <1>5 DEF HoldsWhole
<1>9. n <= Len(g[m])
  OBVIOUS
<1>a. \A i \in 0..K : Len(g[i]) \in 0..n
  <2> SUFFICES ASSUME NEW i \in 0..K PROVE Len(g[i]) \in 0..n
    OBVIOUS
  <2>1. i \in 0..m /\ K \in i..m
    BY <1>8
  <2>a. StaysInFront(g, i, m)
    BY <1>1, <2>1, JoinedGrows
  <2>2. Len(g[i]) <= Len(g[K])
    BY <2>1, <2>a DEF StaysInFront
  <2>3. Len(g[i]) \in Nat /\ Len(g[K]) \in Nat
    BY <1>3, <1>8, <2>1
  <2> QED
    BY <1>1, <1>8, <2>2, <2>3
<1> HIDE DEF m, n, piece
<1>10. f[Len(g[K])] = <<>>
  <2>1. Len(g[K]) \in 0..n /\ Len(g[K]) \in Nat
    BY <1>1, <1>8, <1>a
  <2>2. CASE K = m
    <3>1. Len(g[K]) = n
      BY <1>1, <1>8, <1>9, <2>1, <2>2
    <3>2. \A i \in 1..VarIntBytes : ~Has(data, n, i)
      BY <1>1 DEF Has, VarIntBytes, n
    <3>3. VarIntEnd(data, n) = 0
      BY <3>2 DEF VarIntEnd
    <3>4. StopsAt(data, Len(g[K]))
      BY <3>1, <3>3 DEF StopsAt
    <3> QED
      BY <1>7, <2>1, <3>4
  <2>3. CASE K # m
    <3> DEFINE i == K + 1
    <3>1. i \in 1..m /\ i - 1 = K /\ n < Len(g[i])
      BY <1>1, <1>8, <2>3
    <3> HIDE DEF i
    <3>2. /\ Agrees(data, Len(g[K]), piece[i]) /\ Len(g[i]) = Len(g[K]) + Len(piece[i])
      BY <1>3, <1>4, <3>1
    <3>3. /\ packets[i] \in Seq(Bytes) /\ Len(packets[i]) <= Huge
          /\ piece[i] = PacketBytes(packets[i])
      BY <1>1, <3>1
    <3>4. Len(g[K]) <= Len(data) /\ Len(data) < Len(g[K]) + Len(PacketBytes(packets[i]))
      <4>1. Len(g[K]) <= n
        BY <1>1, <2>1
      <4>2. n < Len(g[K]) + Len(PacketBytes(packets[i]))
        BY <3>1, <3>2, <3>3
      <4> QED
        BY <4>1, <4>2 DEF n
    <3>5. Agrees(data, Len(g[K]), PacketBytes(packets[i]))
      BY <3>2, <3>3
    <3>6. StopsAt(data, Len(g[K]))
      BY <2>1, <3>3, <3>4, <3>5, PacketCut
    <3> QED
      BY <1>7, <2>1, <3>6
  <2> QED
    BY <2>2, <2>3
<1>11. ASSUME NEW i \in 1..K PROVE f[Len(g[i - 1])] = <<packets[i]>> \o f[Len(g[i])]
  <2>1. i \in 1..m /\ i - 1 \in 0..K /\ i \in 0..K
    BY <1>1, <1>8
  <2>2. /\ Agrees(data, Len(g[i - 1]), piece[i]) /\ Len(g[i]) = Len(g[i - 1]) + Len(piece[i])
    BY <1>3, <1>4, <2>1
  <2>3. /\ packets[i] \in Seq(Bytes) /\ Len(packets[i]) <= Huge
        /\ piece[i] = PacketBytes(packets[i])
    BY <1>1, <2>1
  <2>4. Len(g[i - 1]) \in 0..n /\ Len(g[i - 1]) \in Nat /\ Len(g[i]) \in 0..n
    BY <1>1, <1>a, <2>1
  <2>5. Begins(data, Len(g[i - 1]), PacketBytes(packets[i]))
    <3>1. Len(g[i - 1]) + Len(PacketBytes(packets[i])) = Len(g[i])
      BY <2>2, <2>3
    <3>2. Len(g[i]) <= n
      BY <1>1, <2>4
    <3>3. Len(g[i - 1]) + Len(PacketBytes(packets[i])) <= Len(data)
      BY <3>1, <3>2 DEF n
    <3>4. Agrees(data, Len(g[i - 1]), PacketBytes(packets[i]))
      BY <2>2, <2>3
    <3> QED
      BY <3>3, <3>4 DEF Begins
  <2>6. /\ ~StopsAt(data, Len(g[i - 1])) /\ PacketAt(data, Len(g[i - 1])) = packets[i]
        /\ After(data, Len(g[i - 1])) = Len(g[i])
    <3>1. /\ ~StopsAt(data, Len(g[i - 1])) /\ PacketAt(data, Len(g[i - 1])) = packets[i]
          /\ After(data, Len(g[i - 1])) = Len(g[i - 1]) + Len(PacketBytes(packets[i]))
      BY <2>3, <2>4, <2>5, PacketWhole
    <3> QED
      BY <2>2, <2>3, <3>1
  <2> QED
    BY <1>7, <2>4, <2>6
<1> DEFINE T == {d \in Nat : d <= K => f[Len(g[K - d])] = SubSeq(packets, (K - d) + 1, K)}
<1>12. 0 \in T
  <2>1. K - 0 = K /\ SubSeq(packets, K + 1, K) = <<>>
    BY <1>1, <1>8
  <2> QED
    BY <1>10, <2>1
<1>13. ASSUME NEW d \in Nat, d \in T PROVE d + 1 \in T
  <2>1. ASSUME d + 1 <= K PROVE f[Len(g[K - (d + 1)])] = SubSeq(packets, (K - (d + 1)) + 1, K)
    <3> DEFINE i == K - d
    <3>1. i \in 1..K /\ i \in 1..m /\ K \in Nat /\ K <= m /\ i - 1 = K - (d + 1) /\ d <= K
      BY <1>1, <1>8, <2>1
    <3>2. f[Len(g[i])] = SubSeq(packets, i + 1, K)
      BY <1>13, <3>1
    <3> HIDE DEF i
    <3>3. f[Len(g[i - 1])] = <<packets[i]>> \o SubSeq(packets, i + 1, K)
      BY <1>11, <3>1, <3>2
    <3>4. <<packets[i]>> \o SubSeq(packets, i + 1, K) = SubSeq(packets, i, K)
      <4>1. packets \in Seq(Seq(Bytes)) /\ m = Len(packets)
        BY DEF Packets, m
      <4>2. i \in 1..Len(packets) /\ K \in i..Len(packets)
        BY <1>1, <3>1 DEF m
      <4> QED
        BY <4>1, <4>2, SubSeqRecursiveFirst
    <3>5. (i - 1) + 1 = i
      BY <3>1
    <3> QED
      BY <3>1, <3>3, <3>4, <3>5
  <2> QED
    BY <2>1
<1> HIDE DEF T
<1>14. K \in T
  <2>1. K \in Nat
    BY <1>8
  <2> QED
    BY <2>1, <1>12, <1>13, Upwards
<1>15. f[0] = SubSeq(packets, 1, K)
  <2>1. K \in Nat /\ K - K = 0 /\ Len(g[0]) = 0
    BY <1>3, <1>8
  <2> QED
    BY <1>14, <2>1 DEF T
<1> QED
  BY <1>5, <1>6, <1>15 DEF m, n

(* The packets that are read of a batch that has lost any part of its end.  *)
ReadsPrefix(packets, data, read) ==
    \E n \in 0..Len(packets) :
        /\ read = SubSeq(packets, 1, n)
        /\ Len(BatchBytes(read)) <= Len(data)
        /\ n < Len(packets) => Len(BatchBytes(SubSeq(packets, 1, n + 1))) > Len(data)
IsPrefixOfBatch(data, packets) ==
    \E n \in 0..Len(BatchBytes(packets)) : data = SubSeq(BatchBytes(packets), 1, n)

LEMMA PrefixIsRead ==
    ASSUME NEW packets \in Packets, Small(packets), NEW data, IsPrefixOfBatch(data, packets)
    PROVE  ReadsPrefix(packets, data, ParseBatch(data))
<1> DEFINE m == Len(packets)
<1>1. PICK g : IsJoined(g, Pieces(packets), m) /\ BatchBytes(packets) = g[m]
  BY BatchJoined
<1>2. /\ m \in Nat /\ packets \in Seq(Seq(Bytes))
      /\ \A i \in 1..m : /\ packets[i] \in Seq(Bytes) /\ Len(packets[i]) <= Huge
                         /\ Pieces(packets)[i] = PacketBytes(packets[i])
      /\ ArePieces(Bytes, Pieces(packets), m)
  BY PiecesAre DEF Packets
<1>3. JoinsSequences(Bytes, g, Pieces(packets), m)
  BY <1>1, <1>2, JoinedTypes
<1>4. \A i \in 0..m : g[i] \in Seq(Bytes) /\ Len(g[i]) \in Nat
  BY <1>3 DEF JoinsSequences
<1>5. PICK n \in 0..Len(g[m]) : data = SubSeq(g[m], 1, n)
  BY <1>1 DEF IsPrefixOfBatch
<1>6. g[m] \in Seq(Bytes) /\ Len(g[m]) \in Nat
  BY <1>2, <1>4
<1>7. /\ data \in Seq(Bytes) /\ Len(data) = n /\ Len(data) <= Len(g[m])
      /\ \A k \in 1..Len(data) : data[k] = g[m][k]
  BY <1>5, <1>6
<1>8. PICK K : HoldsWhole(g, m, Len(data), K) /\ ParseBatch(data) = SubSeq(packets, 1, K)
  BY <1>1, <1>7, PrefixParsed
<1>9. K \in 0..m /\ Len(g[K]) <= Len(data) /\ (K < m => Len(data) < Len(g[K + 1]))
  BY <1>8 DEF HoldsWhole
<1>10. ASSUME NEW k \in 0..m PROVE BatchBytes(SubSeq(packets, 1, k)) = g[k]
  <2> DEFINE p == SubSeq(packets, 1, k)
  <2>1. k \in Nat /\ k <= m
    BY <1>2
  <2>2. p \in Seq(Seq(Bytes)) /\ Len(p) = k /\ \A i \in 1..k : p[i] = packets[i]
    <3>1. 1 \in Int /\ k \in Int /\ (k - 1) + 1 = k /\ (1 <= k \/ k = 0)
          /\ \A i \in 1..k : packets[i] \in Seq(Bytes) /\ (1 + i) - 1 = i
      BY <1>2, <2>1
    <3>2. /\ p \in Seq(Seq(Bytes)) /\ Len(p) = IF 1 <= k THEN (k - 1) + 1 ELSE 0
          /\ \A i \in 1..((k - 1) + 1) : p[i] = packets[(1 + i) - 1]
      BY <3>1, SubSeqProperties
    <3> HIDE DEF p
    <3>3. CASE 1 <= k
      BY <3>1, <3>2, <3>3
    <3>4. CASE k = 0
      BY <3>1, <3>2, <3>4
    <3> QED
      BY <3>1, <3>3, <3>4
  <2> HIDE DEF p
  <2>3. p \in Packets
    BY <2>2 DEF Packets
  <2>4. PICK h : IsJoined(h, Pieces(p), k) /\ BatchBytes(p) = h[k]
    BY <2>2, <2>3, BatchJoined
  <2>5. \A i \in 1..k : Pieces(p)[i] = Pieces(packets)[i]
    <3> SUFFICES ASSUME NEW i \in 1..k PROVE Pieces(p)[i] = Pieces(packets)[i]
      OBVIOUS
    <3>1. i \in 1..m /\ i \in 1..Len(p) /\ p[i] = packets[i]
      BY <1>2, <2>1, <2>2
    <3>2. Pieces(p)[i] = PacketBytes(p[i])
      BY <3>1 DEF Pieces
    <3> QED
      BY <1>2, <3>1, <3>2
  <2>6. h[k] = g[k]
    <3> DEFINE part == Pieces(p)
               piece == Pieces(packets)
    <3>1. SameParts(part, piece, k)
      BY <2>5 DEF SameParts
    <3>2. IsJoined(g, piece, m) /\ IsJoined(h, part, k) /\ m \in Nat
      BY <1>1, <1>2, <2>4
    <3> HIDE DEF part, piece, m
    <3> QED
      BY <3>1, <3>2, JoinedSame
  <2> QED
    BY <2>4, <2>6 DEF p
<1>11. Len(BatchBytes(SubSeq(packets, 1, K))) <= Len(data)
  BY <1>9, <1>10
<1>12. K < m => Len(BatchBytes(SubSeq(packets, 1, K + 1))) > Len(data)
  <2> SUFFICES ASSUME K < m PROVE Len(BatchBytes(SubSeq(packets, 1, K + 1))) > Len(data)
    OBVIOUS
  <2>1. K + 1 \in 0..m
    BY <1>2, <1>9
  <2>2. Len(data) \in Nat /\ Len(g[K + 1]) \in Nat /\ Len(data) < Len(g[K + 1])
    BY <1>4, <1>7, <1>9, <2>1
  <2>3. BatchBytes(SubSeq(packets, 1, K + 1)) = g[K + 1]
    BY <1>10, <2>1
  <2> QED
    BY <2>2, <2>3
<1> QED
  BY <1>8, <1>9, <1>11, <1>12 DEF ReadsPrefix

(***************************************************************************)
(* Numbers of fixed width                                                  *)
(***************************************************************************)

(* What is joined is found one behind the other.                            *)
LEMMA BeginsParts ==
    ASSUME NEW data \in Seq(Bytes), NEW at \in Nat, NEW s \in Seq(Bytes), NEW t \in Seq(Bytes),
           Begins(data, at, s \o t)
    PROVE  Begins(data, at, s) /\ Begins(data, at + Len(s), t)
<1>1. /\ Len(s) \in Nat /\ Len(t) \in Nat /\ Len(data) \in Nat /\ Len(s \o t) = Len(s) + Len(t)
      /\ \A k \in 1..Len(s) : (s \o t)[k] = s[k]
      /\ \A k \in 1..Len(t) : (s \o t)[Len(s) + k] = t[k]
  BY ConcatParts, LenProperties
<1> DEFINE all == s \o t
<1>2. at + Len(all) <= Len(data) /\ \A i \in 1..Len(all) : at + i <= Len(data) => data[at + i] = all[i]
  BY DEF Begins, Agrees
<1>3. /\ Len(all) = Len(s) + Len(t) /\ \A k \in 1..Len(s) : all[k] = s[k]
      /\ \A k \in 1..Len(t) : all[Len(s) + k] = t[k]
  BY <1>1
<1> HIDE DEF all
<1>4. \A i \in 1..Len(all) : data[at + i] = all[i]
  BY <1>1, <1>2, <1>3
<1>5. Begins(data, at, s)
  BY <1>1, <1>2, <1>3, <1>4 DEF Begins, Agrees
<1>6. \A k \in 1..Len(t) : data[(at + Len(s)) + k] = t[k]
  <2> SUFFICES ASSUME NEW k \in 1..Len(t) PROVE data[(at + Len(s)) + k] = t[k]
    OBVIOUS
  <2>1. Len(s) + k \in 1..Len(all) /\ at + (Len(s) + k) = (at + Len(s)) + k
    BY <1>1, <1>3
  <2> QED
    BY <1>3, <1>4, <2>1
<1>7. (at + Len(s)) + Len(t) <= Len(data)
  BY <1>1, <1>2, <1>3
<1> QED
  BY <1>5, <1>6, <1>7 DEF Begins, Agrees

(* What is found at an offset is cut out of it.                             *)
LEMMA SliceIs ==
    ASSUME NEW data \in Seq(Bytes), NEW at \in Nat, NEW s \in Seq(Bytes), Begins(data, at, s)
    PROVE  Slice(data, at, Len(s)) = s
<1>1. /\ Len(s) \in Nat /\ Len(data) \in Nat /\ at + Len(s) <= Len(data) /\ at + 1 \in Nat
      /\ \A i \in 1..Len(s) : data[at + i] = s[i]
  <2>1. /\ at + Len(s) <= Len(data) /\ \A i \in 1..Len(s) : at + i <= Len(data) => data[at + i] = s[i]
    BY DEF Begins, Agrees
  <2> QED
    BY <2>1, LenProperties
<1> DEFINE t == SubSeq(data, at + 1, at + Len(s))
<1>2. /\ t \in Seq(Bytes) /\ Len(t) = Len(s)
      /\ \A k \in 1..Len(s) : t[k] = data[at + k]
  BY <1>1
<1> HIDE DEF t
<1>3. \A k \in 1..Len(s) : t[k] = s[k]
  BY <1>1, <1>2
<1>4. t = s
  BY <1>2, <1>3, SeqEqual
<1> QED
  BY <1>4 DEF Slice, t

(* Two bytes, three and four hold a number.                                 *)
Two16 == 65536
Two24 == 16777216

LEMMA Division256 ==
    ASSUME NEW n \in Nat
    PROVE  /\ n \div 256 \in Nat /\ n % 256 \in Bytes /\ n = 256 * (n \div 256) + (n % 256)
           /\ (n < 256 => n % 256 = n /\ n \in Bytes)
BY BytesAre

LEMMA TwoBytes ==
    ASSUME NEW v \in Nat, v < Two16
    PROVE  /\ U16Be(v) \in Seq(Bytes) /\ Len(U16Be(v)) = 2
           /\ \A data \in Seq(Bytes), at \in Nat :
                  Begins(data, at, U16Be(v)) => at + 2 <= Len(data) /\ AsU16Be(data, at) = v
<1> DEFINE a == v \div 256
           b == v % 256
<1>1. a \in Bytes /\ a \in Nat /\ b \in Bytes /\ b \in Nat /\ v = 256 * a + b
  <2>1. v \div 256 < 256
    BY SMT DEF Two16
  <2> QED
    BY <2>1, Division256, BytesAre
<1>2. U16Be(v) = <<a, b>>
  BY DEF U16Be
<1> HIDE DEF a, b
<1>3. U16Be(v) \in Seq(Bytes) /\ Len(U16Be(v)) = 2 /\ U16Be(v)[1] = a /\ U16Be(v)[2] = b
  <2>1. a \in Bytes /\ b \in Bytes
    BY <1>1
  <2>2. <<a, b>> \in Seq(Bytes) /\ Len(<<a, b>>) = 2 /\ <<a, b>>[1] = a /\ <<a, b>>[2] = b
    BY <2>1
  <2> QED
    BY <1>2, <2>2
<1>4. ASSUME NEW data \in Seq(Bytes), NEW at \in Nat, Begins(data, at, U16Be(v))
      PROVE  at + 2 <= Len(data) /\ AsU16Be(data, at) = v
  <2>1. at + 2 <= Len(data) /\ \A i \in 1..2 : at + i <= Len(data) => data[at + i] = U16Be(v)[i]
    BY <1>3, <1>4 DEF Begins, Agrees
  <2>2. data[at + 1] = a /\ data[at + 2] = b
    BY <1>3, <2>1
  <2> QED
    BY <1>1, <2>1, <2>2 DEF AsU16Be
<1> QED
  BY <1>3, <1>4

LEMMA ThreeBytes ==
    ASSUME NEW v \in Nat, v < Two24
    PROVE  /\ U24Le(v) \in Seq(Bytes) /\ Len(U24Le(v)) = 3
           /\ \A data \in Seq(Bytes), at \in Nat :
                  Begins(data, at, U24Le(v)) => at + 3 <= Len(data) /\ AsU24Le(data, at) = v
<1> DEFINE a == v % 256
           b == (v \div 256) % 256
           c == (v \div 65536) % 256
<1>1. /\ a \in Bytes /\ b \in Bytes /\ c \in Bytes /\ a \in Nat /\ b \in Nat /\ c \in Nat
      /\ v = a + b * 256 + c * 65536
  <2>1. /\ v \div 65536 \in Nat /\ v \div 65536 < 256 /\ (v \div 256) \div 256 = v \div 65536
    BY SMT DEF Two24
  <2>2. v \div 256 \in Nat /\ v = 256 * (v \div 256) + a /\ a \in Bytes
    BY Division256
  <2>3. v \div 256 = 256 * (v \div 65536) + b /\ b \in Bytes
    BY <2>1, <2>2, Division256
  <2>4. c = v \div 65536 /\ c \in Bytes
    BY <2>1, Division256
  <2>5. a \in Nat /\ b \in Nat /\ c \in Nat
    BY <2>2, <2>3, <2>4, BytesAre
  <2> DEFINE q == v \div 256
  <2>6. q \in Nat /\ v = 256 * q + a /\ q = 256 * c + b
    BY <2>2, <2>3, <2>4
  <2> HIDE DEF a, b, c, q
  <2>7. v = a + b * 256 + c * 65536
    BY SMT, <2>5, <2>6
  <2> QED
    BY <2>2, <2>3, <2>4, <2>5, <2>7
<1>2. U24Le(v) = <<a, b, c>>
  BY SMT DEF U24Le
<1> HIDE DEF a, b, c
<1>3. /\ U24Le(v) \in Seq(Bytes) /\ Len(U24Le(v)) = 3
      /\ U24Le(v)[1] = a /\ U24Le(v)[2] = b /\ U24Le(v)[3] = c
  <2>1. a \in Bytes /\ b \in Bytes /\ c \in Bytes
    BY <1>1
  <2> DEFINE t == <<a, b, c>>
  <2>2. t \in Seq(Bytes) /\ Len(t) = 3 /\ t[1] = a /\ t[2] = b /\ t[3] = c
    BY <2>1
  <2> HIDE DEF t
  <2>3. U24Le(v) = t
    BY <1>2 DEF t
  <2> QED
    BY <2>2, <2>3
<1>4. ASSUME NEW data \in Seq(Bytes), NEW at \in Nat, Begins(data, at, U24Le(v))
      PROVE  at + 3 <= Len(data) /\ AsU24Le(data, at) = v
  <2>1. at + 3 <= Len(data) /\ \A i \in 1..3 : at + i <= Len(data) => data[at + i] = U24Le(v)[i]
    BY <1>3, <1>4 DEF Begins, Agrees
  <2>2. data[at + 1] = a /\ data[at + 2] = b /\ data[at + 3] = c
    BY <1>3, <2>1
  <2>3. AsU24Le(data, at) = a + b * 256 + c * 65536
    BY SMT, <2>2 DEF AsU24Le
  <2> QED
    BY SMT, <1>1, <2>1, <2>3
<1> QED
  BY <1>3, <1>4

LEMMA FourBytes ==
    ASSUME NEW v \in Nat, v <= Huge
    PROVE  /\ U32Be(v) \in Seq(Bytes) /\ Len(U32Be(v)) = 4
           /\ \A data \in Seq(Bytes), at \in Nat :
                  Begins(data, at, U32Be(v)) => at + 4 <= Len(data) /\ AsU32Be(data, at) = v
<1> DEFINE a == v % 256
           b == (v \div 256) % 256
           c == (v \div 65536) % 256
           d == v \div 16777216
           low == a + b * 256 + c * 65536
           le == <<a, b, c, d>>
           be == <<d, c, b, a>>
<1>1. /\ a \in Bytes /\ b \in Bytes /\ c \in Bytes /\ a \in Nat /\ b \in Nat /\ c \in Nat
      /\ d \in Bytes /\ d \in Nat /\ d < 128 /\ low \in Nat /\ v = low + d * 16777216
  <2>1. /\ v \div 65536 \in Nat /\ (v \div 256) \div 256 = v \div 65536
        /\ (v \div 65536) \div 256 = d /\ d \in Nat
    BY SMT
  <2>2. v \div 256 \in Nat /\ v = 256 * (v \div 256) + a /\ a \in Bytes
    BY Division256
  <2>3. v \div 256 = 256 * (v \div 65536) + b /\ b \in Bytes
    BY <2>1, <2>2, Division256
  <2>4. v \div 65536 = 256 * d + c /\ c \in Bytes
    BY <2>1, Division256
  <2>5. a \in Nat /\ b \in Nat /\ c \in Nat
    BY <2>2, <2>3, <2>4, BytesAre
  <2>6. v < 2147483648
    BY SMT DEF Huge
  <2>7. d < 128
    BY SMT, <2>6
  <2>8. d \in Bytes
    BY <2>1, <2>7, BytesAre
  <2> DEFINE q == v \div 256
             r == v \div 65536
  <2>9. q \in Nat /\ r \in Nat /\ d \in Nat /\ v = 256 * q + a /\ q = 256 * r + b /\ r = 256 * d + c
    BY <2>1, <2>2, <2>3, <2>4
  <2> HIDE DEF a, b, c, d, q, r
  <2>10. low \in Nat /\ v = low + d * 16777216
    BY SMT, <2>5, <2>9
  <2> QED
    BY <2>2, <2>3, <2>4, <2>5, <2>7, <2>8, <2>9, <2>10
<1>2. U24Le(v) = <<a, b, c>>
  BY SMT DEF U24Le
<1>3. U32Le(v) = <<a, b, c>> \o <<d>>
  BY <1>2 DEF U32Le
<1> HIDE DEF a, b, c, d
<1>4. le \in Seq(Bytes) /\ Len(le) = 4 /\ le[1] = a /\ le[2] = b /\ le[3] = c /\ le[4] = d
  BY <1>1
<1> HIDE DEF le
<1>a. <<a, b, c>> \o <<d>> = le
  <2>1. a \in Bytes /\ b \in Bytes /\ c \in Bytes /\ d \in Bytes
    BY <1>1
  <2> DEFINE s == <<a, b, c>>
             t == <<d>>
  <2>2. s \in Seq(Bytes) /\ Len(s) = 3 /\ s[1] = a /\ s[2] = b /\ s[3] = c
    BY <2>1
  <2>3. t \in Seq(Bytes) /\ Len(t) = 1 /\ t[1] = d
    BY <2>1
  <2> HIDE DEF s, t
  <2>4. /\ s \o t \in Seq(Bytes) /\ Len(s \o t) = Len(s) + Len(t)
        /\ \A j \in 1..Len(s) : (s \o t)[j] = s[j]
        /\ \A j \in 1..Len(t) : (s \o t)[Len(s) + j] = t[j]
    <3>1. s \in Seq(Bytes) /\ t \in Seq(Bytes)
      BY <2>2, <2>3
    <3> QED
      BY <3>1, ConcatParts
  <2>5. /\ Len(s \o t) = 4 /\ (s \o t)[1] = a /\ (s \o t)[2] = b /\ (s \o t)[3] = c
        /\ (s \o t)[4] = d
    BY <2>2, <2>3, <2>4
  <2>6. \A i \in 1..Len(s \o t) : (s \o t)[i] = le[i]
    <3> SUFFICES ASSUME NEW i \in 1..4 PROVE (s \o t)[i] = le[i]
      BY <2>5
    <3>1. i = 1 \/ i = 2 \/ i = 3 \/ i = 4
      OBVIOUS
    <3> QED
      BY <1>4, <2>5, <3>1
  <2>7. s \o t = le
    BY <1>4, <2>4, <2>5, <2>6, SeqEqual
  <2> QED
    BY <2>7 DEF s, t
<1>5. Backwards(le) = be
  <2>1. DOMAIN le = 1..4
    BY <1>4
  <2>2. Backwards(le) = [i \in 1..4 |-> le[5 - i]]
    BY <1>4, <2>1 DEF Backwards
  <2>3. be = [i \in 1..4 |-> be[i]] /\ be[1] = d /\ be[2] = c /\ be[3] = b /\ be[4] = a
    OBVIOUS
  <2> HIDE DEF be
  <2>4. ASSUME NEW i \in 1..4 PROVE le[5 - i] = be[i]
    <3>1. i = 1 \/ i = 2 \/ i = 3 \/ i = 4
      OBVIOUS
    <3> QED
      BY <1>4, <2>3, <3>1
  <2> QED
    BY <2>2, <2>3, <2>4
<1>6. U32Be(v) = be /\ be \in Seq(Bytes) /\ Len(be) = 4 /\ be[1] = d /\ be[2] = c /\ be[3] = b /\ be[4] = a
  BY <1>1, <1>3, <1>a, <1>5 DEF U32Be
<1> HIDE DEF be
<1>7. ASSUME NEW data \in Seq(Bytes), NEW at \in Nat, Begins(data, at, U32Be(v))
      PROVE  at + 4 <= Len(data) /\ AsU32Be(data, at) = v
  <2>1. at + 4 <= Len(data)
    BY <1>6, <1>7 DEF Begins
  <2>2. Slice(data, at, 4) = be
    BY <1>6, <1>7, SliceIs
  <2>3. Backwards(be) = le
    <3>1. DOMAIN be = 1..4
      BY <1>6
    <3>2. Backwards(be) = [i \in 1..4 |-> be[5 - i]]
      BY <1>6, <3>1 DEF Backwards
    <3>3. le = [i \in 1..4 |-> le[i]]
      BY DEF le
    <3>4. ASSUME NEW i \in 1..4 PROVE be[5 - i] = le[i]
      <4>1. i = 1 \/ i = 2 \/ i = 3 \/ i = 4
        OBVIOUS
      <4> QED
        BY <1>4, <1>6, <4>1
    <3> QED
      BY <3>2, <3>3, <3>4
  <2>4. AsU32Be(data, at) = AsU32Le(le, 0)
    BY <2>2, <2>3 DEF AsU32Be
  <2>5. AsU24Le(le, 0) = low
    BY SMT, <1>4 DEF AsU24Le
  <2>6. AsU32Le(le, 0) = IF d >= 128 THEN Huge ELSE low + d * 16777216
    BY SMT, <1>4, <2>5 DEF AsU32Le
  <2> HIDE DEF low
  <2>7. ~(d >= 128)
    BY <1>1
  <2> QED
    BY SMT, <1>1, <2>1, <2>4, <2>6, <2>7
<1> QED
  BY <1>6, <1>7

(***************************************************************************)
(* parse_frame                                                             *)
(***************************************************************************)

(* A frame whose fields fit where they are written, and its parts.          *)
Mode(unit) == IF unit = 8 THEN "bits" ELSE "bytes"
LengthField(f, unit, slack) == IF f.payload = <<>> THEN 0 ELSE unit * Len(f.payload) - slack
ReliablePart(f) == IF IsReliable(f.rel) THEN U24Le(f.reliable) ELSE <<>>
OrderedPart(f) == IF IsOrdered(f.rel) THEN U24Le(f.order) \o <<f.channel>> ELSE <<>>
SplitPart(f) == IF f.split THEN (U32Be(f.count) \o U16Be(f.id)) \o U32Be(f.index) ELSE <<>>

FrameFits(f, unit, slack) ==
    /\ f = [rel |-> f.rel, split |-> f.split, payload |-> f.payload, reliable |-> f.reliable,
            order |-> f.order, channel |-> f.channel, count |-> f.count, id |-> f.id,
            index |-> f.index]
    /\ f.rel \in 0..7 /\ f.split \in BOOLEAN /\ f.payload \in Seq(Bytes)
    /\ unit \in {1, 8} /\ slack \in 0..7 /\ (unit = 1 => slack = 0)
    /\ unit * Len(f.payload) < Two16
    /\ f.reliable \in Nat /\ f.reliable < Two24 /\ f.order \in Nat /\ f.order < Two24
    /\ f.channel \in Nat /\ f.channel <= MaxChannel /\ f.count \in Nat /\ f.count <= MaxSplitCount
    /\ f.id \in Nat /\ f.id < Two16 /\ f.index \in Nat /\ f.index <= Huge
    /\ ~IsReliable(f.rel) => f.reliable = 0
    /\ ~IsOrdered(f.rel) => f.order = 0 /\ f.channel = 0
    /\ ~f.split => f.count = 0 /\ f.id = 0 /\ f.index = 0

(* They are bytes, of known lengths.                                        *)
LEMMA ConcatOf ==
    ASSUME NEW s \in Seq(Bytes), NEW t \in Seq(Bytes)
    PROVE  s \o t \in Seq(Bytes) /\ Len(s) \in Nat /\ Len(t) \in Nat /\ Len(s \o t) = Len(s) + Len(t)
BY ConcatParts

LEMMA OneByte ==
    ASSUME NEW b \in Bytes
    PROVE  /\ <<b>> \in Seq(Bytes) /\ Len(<<b>>) = 1
           /\ \A data \in Seq(Bytes), at \in Nat :
                  Begins(data, at, <<b>>) => at + 1 <= Len(data) /\ data[at + 1] = b
<1> DEFINE s == <<b>>
<1>1. s \in Seq(Bytes) /\ Len(s) = 1 /\ s[1] = b
  OBVIOUS
<1> HIDE DEF s
<1>2. ASSUME NEW data \in Seq(Bytes), NEW at \in Nat, Begins(data, at, s)
      PROVE  at + 1 <= Len(data) /\ data[at + 1] = b
  <2>1. at + 1 <= Len(data) /\ \A i \in 1..1 : at + i <= Len(data) => data[at + i] = s[i]
    BY <1>1, <1>2 DEF Begins, Agrees
  <2> QED
    BY <1>1, <2>1
<1> QED
  BY <1>1, <1>2 DEF s

LEMMA FlagsAre ==
    ASSUME NEW f, f.rel \in 0..7, f.split \in BOOLEAN
    PROVE  /\ Flags(f) \in Bytes /\ Flags(f) \div 32 = f.rel
           /\ ((Flags(f) \div 16) % 2 = 1) <=> f.split
<1> DEFINE r == f.rel
<1>1. r \in Nat /\ r < 8
  OBVIOUS
<1>2. Flags(f) = r * 32 + (IF f.split THEN 16 ELSE 0)
  BY DEF Flags
<1> HIDE DEF r
<1>3. CASE f.split
  <2>1. Flags(f) = r * 32 + 16
    BY <1>2, <1>3
  <2>2. (r * 32 + 16) \div 32 = r /\ (r * 32 + 16) \div 16 = 2 * r + 1 /\ r * 32 + 16 \in Nat
        /\ r * 32 + 16 < 256 /\ (2 * r + 1) % 2 = 1
    BY <1>1
  <2> QED
    BY <1>3, <2>1, <2>2, BytesAre DEF r
<1>4. CASE ~f.split
  <2>1. Flags(f) = r * 32 + 0
    BY <1>2, <1>4
  <2>2. (r * 32 + 0) \div 32 = r /\ (r * 32 + 0) \div 16 = 2 * r /\ r * 32 + 0 \in Nat
        /\ r * 32 + 0 < 256 /\ (2 * r) % 2 = 0
    BY <1>1
  <2> QED
    <3>1. Flags(f) \in Nat /\ Flags(f) < 256 /\ Flags(f) \div 32 = r /\ (Flags(f) \div 16) % 2 = 0
      BY <2>1, <2>2
    <3> QED
      BY <1>4, <3>1, BytesAre DEF r
<1> QED
  BY <1>3, <1>4

LEMMA BitsFieldIs ==
    ASSUME NEW f, NEW slack, FrameFits(f, 8, slack)
    PROVE  /\ LengthField(f, 8, slack) \in Nat /\ LengthField(f, 8, slack) < Two16
           /\ PayloadSize(LengthField(f, 8, slack), "bits") = Len(f.payload)
<1> DEFINE n == Len(f.payload)
           L == LengthField(f, 8, slack)
<1>1. /\ n \in Nat /\ slack \in Nat /\ slack < 8 /\ 8 * n < Two16
      /\ f.payload \in Seq(Bytes)
  BY LenProperties DEF FrameFits
<1>2. Two16 \in Nat /\ 0 < Two16
  BY SMT DEF Two16
<1>3. f.payload = <<>> <=> n = 0
  BY <1>1, EmptySeq
<1>4. L = IF n = 0 THEN 0 ELSE 8 * n - slack
  BY <1>3 DEF LengthField
<1>5. PayloadSize(L, "bits") = (L + 7) \div 8
  BY DEF PayloadSize
<1> HIDE DEF n, L
<1>6. CASE n = 0
  <2>1. L = 0
    BY <1>4, <1>6
  <2> QED
    BY <1>2, <1>5, <1>6, <2>1 DEF n, L
<1>7. CASE n # 0
  <2>1. L = 8 * n - slack
    BY <1>4, <1>7
  <2>2. L \in Nat /\ L < Two16
    BY <1>1, <1>2, <1>7, <2>1
  <2>3. (L + 7) \div 8 = n
    <3> DEFINE d == L + 7
    <3>1. d \in Nat /\ 8 * n <= d /\ d < 8 * n + 8
      BY <1>1, <1>7, <2>1
    <3> HIDE DEF d
    <3>2. d \div 8 = n
      BY <1>1, <3>1
    <3> QED
      BY <3>2 DEF d
  <2> QED
    BY <1>5, <2>2, <2>3 DEF n, L
<1> QED
  BY <1>6, <1>7

LEMMA BytesFieldIs ==
    ASSUME NEW f, FrameFits(f, 1, 0)
    PROVE  /\ LengthField(f, 1, 0) \in Nat /\ LengthField(f, 1, 0) < Two16
           /\ PayloadSize(LengthField(f, 1, 0), "bytes") = Len(f.payload)
<1> DEFINE n == Len(f.payload)
<1>1. n \in Nat /\ 1 * n < Two16 /\ f.payload \in Seq(Bytes)
  BY LenProperties DEF FrameFits
<1>2. f.payload = <<>> <=> n = 0
  BY <1>1, EmptySeq
<1>3. LengthField(f, 1, 0) = IF n = 0 THEN 0 ELSE 1 * n - 0
  BY <1>2 DEF LengthField
<1> HIDE DEF n
<1>4. LengthField(f, 1, 0) = n
  BY <1>1, <1>3
<1>5. n < Two16
  BY <1>1
<1> QED
  BY <1>1, <1>4, <1>5 DEF PayloadSize, n

LEMMA LengthFieldIs ==
    ASSUME NEW f, NEW unit, NEW slack, FrameFits(f, unit, slack)
    PROVE  /\ LengthField(f, unit, slack) \in Nat /\ LengthField(f, unit, slack) < Two16
           /\ PayloadSize(LengthField(f, unit, slack), Mode(unit)) = Len(f.payload)
<1>1. unit \in {1, 8} /\ (unit = 1 => slack = 0)
  BY DEF FrameFits
<1>2. CASE unit = 8
  BY <1>2, BitsFieldIs DEF Mode
<1>3. CASE unit = 1
  <2>1. unit = 1 /\ slack = 0 /\ Mode(unit) = "bytes"
    BY <1>1, <1>3 DEF Mode
  <2> QED
    BY <2>1, BytesFieldIs
<1> QED
  BY <1>1, <1>2, <1>3

LEMMA PartsAre ==
    ASSUME NEW f, NEW unit, NEW slack, FrameFits(f, unit, slack)
    PROVE  /\ U16Be(LengthField(f, unit, slack)) \in Seq(Bytes) /\ Len(U16Be(LengthField(f, unit, slack))) = 2
           /\ ReliablePart(f) \in Seq(Bytes) /\ Len(ReliablePart(f)) = IF IsReliable(f.rel) THEN 3 ELSE 0
           /\ OrderedPart(f) \in Seq(Bytes) /\ Len(OrderedPart(f)) = IF IsOrdered(f.rel) THEN 4 ELSE 0
           /\ SplitPart(f) \in Seq(Bytes) /\ Len(SplitPart(f)) = IF f.split THEN 10 ELSE 0
           /\ f.payload \in Seq(Bytes) /\ Len(f.payload) \in Nat
           /\ <<Flags(f)>> \in Seq(Bytes) /\ Len(<<Flags(f)>>) = 1
<1>1. U16Be(LengthField(f, unit, slack)) \in Seq(Bytes) /\ Len(U16Be(LengthField(f, unit, slack))) = 2
  BY LengthFieldIs, TwoBytes
<1>2. <<>> \in Seq(Bytes) /\ Len(<<>>) = 0
  BY EmptySeq
<1>3. ReliablePart(f) \in Seq(Bytes) /\ Len(ReliablePart(f)) = IF IsReliable(f.rel) THEN 3 ELSE 0
  <2>1. U24Le(f.reliable) \in Seq(Bytes) /\ Len(U24Le(f.reliable)) = 3
    BY ThreeBytes DEF FrameFits
  <2> QED
    <3>1. CASE IsReliable(f.rel)
      BY <2>1, <3>1 DEF ReliablePart
    <3>2. CASE ~IsReliable(f.rel)
      BY <1>2, <3>2 DEF ReliablePart
    <3> QED
      BY <3>1, <3>2
<1>4. OrderedPart(f) \in Seq(Bytes) /\ Len(OrderedPart(f)) = IF IsOrdered(f.rel) THEN 4 ELSE 0
  <2>1. U24Le(f.order) \in Seq(Bytes) /\ Len(U24Le(f.order)) = 3
    BY ThreeBytes DEF FrameFits
  <2>2. f.channel \in Bytes
    <3>1. f.channel \in Nat /\ f.channel <= 31
      BY DEF FrameFits, MaxChannel
    <3> QED
      BY <3>1, BytesAre
  <2>3. <<f.channel>> \in Seq(Bytes) /\ Len(<<f.channel>>) = 1
    BY <2>2, OneByte
  <2>4. /\ U24Le(f.order) \o <<f.channel>> \in Seq(Bytes)
        /\ Len(U24Le(f.order) \o <<f.channel>>) = Len(U24Le(f.order)) + Len(<<f.channel>>)
    BY <2>1, <2>3, ConcatOf
  <2>5. Len(U24Le(f.order) \o <<f.channel>>) = 4
    BY <2>1, <2>3, <2>4
  <2> QED
    BY <1>2, <2>4, <2>5 DEF OrderedPart
<1>5. SplitPart(f) \in Seq(Bytes) /\ Len(SplitPart(f)) = IF f.split THEN 10 ELSE 0
  <2> DEFINE c == U32Be(f.count)
             d == U16Be(f.id)
             x == U32Be(f.index)
  <2>1. c \in Seq(Bytes) /\ Len(c) = 4
    <3>1. f.count \in Nat /\ f.count <= Huge
      <4>1. f.count \in Nat /\ f.count <= 1024
        BY DEF FrameFits, MaxSplitCount
      <4>2. 1024 < Three7s
        BY SMT DEF Three7s
      <4> QED
        BY <4>1, <4>2, Limits
    <3> QED
      BY <3>1, FourBytes
  <2>2. d \in Seq(Bytes) /\ Len(d) = 2
    BY TwoBytes DEF FrameFits
  <2>3. x \in Seq(Bytes) /\ Len(x) = 4
    BY FourBytes DEF FrameFits
  <2> HIDE DEF c, d, x
  <2>4. c \o d \in Seq(Bytes) /\ Len(c \o d) = Len(c) + Len(d)
    BY <2>1, <2>2, ConcatOf
  <2>5. (c \o d) \o x \in Seq(Bytes) /\ Len((c \o d) \o x) = Len(c \o d) + Len(x)
    BY <2>3, <2>4, ConcatOf
  <2>6. Len((c \o d) \o x) = 10
    BY <2>1, <2>2, <2>3, <2>4, <2>5
  <2> QED
    BY <1>2, <2>5, <2>6 DEF SplitPart, c, d, x
<1>6. f.payload \in Seq(Bytes) /\ Len(f.payload) \in Nat
  BY LenProperties DEF FrameFits
<1>7. <<Flags(f)>> \in Seq(Bytes) /\ Len(<<Flags(f)>>) = 1
  BY FlagsAre, OneByte DEF FrameFits
<1> QED
  BY <1>1, <1>3, <1>4, <1>5, <1>6, <1>7

(* Where each part of a frame is found.                                     *)
PartsAt(data, at, f, unit, slack) ==
    LET order == (at + 3) + Len(ReliablePart(f))
        body == order + Len(OrderedPart(f))
        payload == body + Len(SplitPart(f))
    IN  /\ Begins(data, at, <<Flags(f)>>)
        /\ Begins(data, at + 1, U16Be(LengthField(f, unit, slack)))
        /\ Begins(data, at + 3, ReliablePart(f))
        /\ Begins(data, order, OrderedPart(f))
        /\ Begins(data, body, SplitPart(f))
        /\ Begins(data, payload, f.payload)
        /\ at + Len(FrameBytes(f, unit, slack)) = payload + Len(f.payload)

LEMMA FrameParts ==
    ASSUME NEW f, NEW unit, NEW slack, FrameFits(f, unit, slack)
    PROVE  /\ FrameBytes(f, unit, slack) \in Seq(Bytes) /\ Len(FrameBytes(f, unit, slack)) \in Nat \ {0}
           /\ \A data \in Seq(Bytes), at \in Nat :
                  Begins(data, at, FrameBytes(f, unit, slack)) => PartsAt(data, at, f, unit, slack)
<1> DEFINE a == <<Flags(f)>>
           b == U16Be(LengthField(f, unit, slack))
           r == ReliablePart(f)
           o == OrderedPart(f)
           s == SplitPart(f)
           p == f.payload
<1>1. FrameBytes(f, unit, slack) = ((((a \o b) \o r) \o o) \o s) \o p
  BY DEF FrameBytes, LengthField, ReliablePart, OrderedPart, SplitPart
<1>2. /\ a \in Seq(Bytes) /\ Len(a) = 1 /\ b \in Seq(Bytes) /\ Len(b) = 2
      /\ r \in Seq(Bytes) /\ o \in Seq(Bytes) /\ s \in Seq(Bytes) /\ p \in Seq(Bytes)
  BY PartsAre
<1> HIDE DEF a, b, r, o, s, p
<1> DEFINE ab == a \o b
           abr == ab \o r
           abro == abr \o o
           abros == abro \o s
           all == abros \o p
<1>3. ab \in Seq(Bytes) /\ Len(ab) = 3
  <2>1. ab \in Seq(Bytes) /\ Len(ab) = Len(a) + Len(b)
    BY <1>2, ConcatOf
  <2> QED
    BY <1>2, <2>1
<1> HIDE DEF ab
<1>4. abr \in Seq(Bytes) /\ Len(abr) = 3 + Len(r) /\ Len(r) \in Nat
  <2>1. abr \in Seq(Bytes) /\ Len(abr) = Len(ab) + Len(r) /\ Len(r) \in Nat
    BY <1>2, <1>3, ConcatOf
  <2> QED
    BY <1>3, <2>1
<1> HIDE DEF abr
<1>5. abro \in Seq(Bytes) /\ Len(abro) = (3 + Len(r)) + Len(o) /\ Len(o) \in Nat
  <2>1. abro \in Seq(Bytes) /\ Len(abro) = Len(abr) + Len(o) /\ Len(o) \in Nat
    BY <1>2, <1>4, ConcatOf
  <2> QED
    BY <1>4, <2>1
<1> HIDE DEF abro
<1>6. abros \in Seq(Bytes) /\ Len(abros) = ((3 + Len(r)) + Len(o)) + Len(s) /\ Len(s) \in Nat
  <2>1. abros \in Seq(Bytes) /\ Len(abros) = Len(abro) + Len(s) /\ Len(s) \in Nat
    BY <1>2, <1>5, ConcatOf
  <2> QED
    BY <1>5, <2>1
<1> HIDE DEF abros
<1>7. all \in Seq(Bytes) /\ Len(all) = (((3 + Len(r)) + Len(o)) + Len(s)) + Len(p) /\ Len(p) \in Nat
  <2>1. all \in Seq(Bytes) /\ Len(all) = Len(abros) + Len(p) /\ Len(p) \in Nat
    BY <1>2, <1>6, ConcatOf
  <2> QED
    BY <1>6, <2>1
<1> HIDE DEF all
<1>8. FrameBytes(f, unit, slack) = all
  BY <1>1 DEF all, abros, abro, abr, ab
<1>9. ASSUME NEW data \in Seq(Bytes), NEW at \in Nat, Begins(data, at, all)
      PROVE  /\ Begins(data, at, a) /\ Begins(data, at + 1, b) /\ Begins(data, at + 3, r)
             /\ Begins(data, (at + 3) + Len(r), o)
             /\ Begins(data, ((at + 3) + Len(r)) + Len(o), s)
             /\ Begins(data, (((at + 3) + Len(r)) + Len(o)) + Len(s), p)
             /\ at + Len(all) = ((((at + 3) + Len(r)) + Len(o)) + Len(s)) + Len(p)
  <2>1. Begins(data, at, abros) /\ Begins(data, at + Len(abros), p)
    BY <1>2, <1>6, <1>9, BeginsParts DEF all
  <2>2. Begins(data, at, abro) /\ Begins(data, at + Len(abro), s)
    BY <1>2, <1>5, <2>1, BeginsParts DEF abros
  <2>3. Begins(data, at, abr) /\ Begins(data, at + Len(abr), o)
    BY <1>2, <1>4, <2>2, BeginsParts DEF abro
  <2>4. Begins(data, at, ab) /\ Begins(data, at + Len(ab), r)
    BY <1>2, <1>3, <2>3, BeginsParts DEF abr
  <2>5. Begins(data, at, a) /\ Begins(data, at + Len(a), b)
    BY <1>2, <2>4, BeginsParts DEF ab
  <2>6. /\ at + Len(a) = at + 1 /\ at + Len(ab) = at + 3 /\ at + Len(abr) = (at + 3) + Len(r)
        /\ at + Len(abro) = ((at + 3) + Len(r)) + Len(o)
        /\ at + Len(abros) = (((at + 3) + Len(r)) + Len(o)) + Len(s)
        /\ at + Len(all) = ((((at + 3) + Len(r)) + Len(o)) + Len(s)) + Len(p)
    BY <1>2, <1>3, <1>4, <1>5, <1>6, <1>7
  <2> QED
    BY <2>1, <2>2, <2>3, <2>4, <2>5, <2>6
<1>10. Len(all) \in Nat \ {0}
  BY <1>4, <1>5, <1>6, <1>7
<1> QED
  BY <1>7, <1>8, <1>9, <1>10 DEF PartsAt, a, b, r, o, s, p

(* A frame that is all there is read as it was written.                     *)
LEMMA FrameRead ==
    ASSUME NEW data \in Seq(Bytes), NEW at \in Nat, NEW f, NEW unit, NEW slack, FrameFits(f, unit, slack),
           Begins(data, at, FrameBytes(f, unit, slack))
    PROVE  ParseFrame(data, at, Mode(unit))
             = [ok |-> TRUE, next |-> at + Len(FrameBytes(f, unit, slack)), frame |-> f]
<1> DEFINE rel == data[at + 1] \div 32
           split == (data[at + 1] \div 16) % 2 = 1
           size == PayloadSize(AsU16Be(data, at + 1), Mode(unit))
           order == at + 3 + IF IsReliable(rel) THEN 3 ELSE 0
           body == at + 3 + Headers(rel)
           payload == body + IF split THEN SplitHeader ELSE 0
           fits == /\ Has(data, at, 3)
                   /\ Has(data, body, size)
                   /\ IsOrdered(rel) => data[order + 4] <= MaxChannel
                   /\ split => Has(data, body, SplitHeader) /\ AsU32Be(data, body) <= MaxSplitCount
                   /\ Has(data, payload, size)
           reliable == IF IsReliable(rel) THEN AsU24Le(data, at + 3) ELSE 0
           number == IF IsOrdered(rel) THEN AsU24Le(data, order) ELSE 0
           channel == IF IsOrdered(rel) THEN data[order + 4] ELSE 0
           count == IF split THEN AsU32Be(data, body) ELSE 0
           id == IF split THEN AsU16Be(data, body + 4) ELSE 0
           index == IF split THEN AsU32Be(data, body + 6) ELSE 0
           R == ReliablePart(f)
           O == OrderedPart(f)
           S == SplitPart(f)
           p == f.payload
<1>1. ParseFrame(data, at, Mode(unit)) =
        IF ~fits THEN NoFrame
        ELSE [ok |-> TRUE, next |-> payload + size,
              frame |-> [rel |-> rel, split |-> split, payload |-> Slice(data, payload, size),
                         reliable |-> reliable, order |-> number, channel |-> channel,
                         count |-> count, id |-> id, index |-> index]]
  BY DEF ParseFrame
<1>2. PartsAt(data, at, f, unit, slack)
  BY FrameParts
<1>3. /\ Len(R) = (IF IsReliable(f.rel) THEN 3 ELSE 0) /\ Len(O) = (IF IsOrdered(f.rel) THEN 4 ELSE 0)
      /\ Len(S) = (IF f.split THEN 10 ELSE 0) /\ Len(p) \in Nat /\ p \in Seq(Bytes)
      /\ R \in Seq(Bytes) /\ O \in Seq(Bytes) /\ S \in Seq(Bytes)
  BY PartsAre
<1>4. Len(R) \in Nat /\ Len(O) \in Nat /\ Len(S) \in Nat /\ Len(data) \in Nat
  BY <1>3, LenProperties
<1> DEFINE o == (at + 3) + Len(R)
           b == o + Len(O)
           q == b + Len(S)
<1>5. /\ Begins(data, at, <<Flags(f)>>) /\ Begins(data, at + 1, U16Be(LengthField(f, unit, slack)))
      /\ Begins(data, at + 3, R) /\ Begins(data, o, O) /\ Begins(data, b, S) /\ Begins(data, q, p)
      /\ at + Len(FrameBytes(f, unit, slack)) = q + Len(p)
  BY <1>2 DEF PartsAt
<1>6. data[at + 1] = Flags(f) /\ at + 1 <= Len(data)
  <2>1. Flags(f) \in Bytes
    BY FlagsAre DEF FrameFits
  <2> DEFINE flags == Flags(f)
  <2>2. flags \in Bytes /\ Begins(data, at, <<flags>>)
    BY <1>5, <2>1
  <2> HIDE DEF flags
  <2>3. data[at + 1] = flags /\ at + 1 <= Len(data)
    BY <2>2, OneByte
  <2> QED
    BY <2>3 DEF flags
<1>7. rel = f.rel
  BY <1>6, FlagsAre DEF FrameFits
<1>8. split = f.split
  <2>1. f.split \in BOOLEAN /\ f.rel \in 0..7
    BY DEF FrameFits
  <2>2. split <=> f.split
    BY <1>6, <2>1, FlagsAre
  <2>3. split \in BOOLEAN
    OBVIOUS
  <2> HIDE DEF split
  <2> QED
    BY <2>1, <2>2, <2>3
<1>9. size = Len(p)
  <2>1. LengthField(f, unit, slack) \in Nat /\ LengthField(f, unit, slack) < Two16
        /\ PayloadSize(LengthField(f, unit, slack), Mode(unit)) = Len(p)
    BY LengthFieldIs
  <2>2. AsU16Be(data, at + 1) = LengthField(f, unit, slack)
    BY <1>5, <2>1, TwoBytes
  <2> QED
    BY <2>1, <2>2
<1>10. /\ order = o /\ body = b /\ payload = q /\ o \in Nat /\ b \in Nat /\ q \in Nat
  <2>1. IsReliable(rel) <=> IsReliable(f.rel)
    BY <1>7
  <2>2. order = (at + 3) + IF IsReliable(f.rel) THEN 3 ELSE 0
    BY <1>7
  <2>3. order = o /\ o \in Nat
    BY <1>3, <1>4, <2>2
  <2>4. Headers(rel) = Len(R) + Len(O)
    BY <1>3, <1>7 DEF Headers
  <2>5. body = (at + 3) + (Len(R) + Len(O))
    BY <2>4
  <2>6. body = b /\ b \in Nat
    BY <1>4, <2>5
  <2>7. payload = b + Len(S)
    BY <1>3, <1>8, <2>6 DEF SplitHeader
  <2> QED
    BY <1>4, <2>3, <2>6, <2>7
<1> HIDE DEF rel, split, size, order, body, payload, fits
<1>11. q + Len(p) <= Len(data) /\ b <= q /\ at + 3 <= b
  <2>1. q + Len(p) <= Len(data)
    BY <1>5 DEF Begins
  <2> HIDE DEF R, O, S, p
  <2> QED
    BY <1>4, <2>1
<1> HIDE DEF o, b, q, R, O, S, p
<1>12. reliable = f.reliable
  <2>1. CASE IsReliable(f.rel)
    <3>1. R = U24Le(f.reliable) /\ f.reliable \in Nat /\ f.reliable < Two24
      BY <2>1 DEF R, ReliablePart, FrameFits
    <3>2. AsU24Le(data, at + 3) = f.reliable
      BY <1>5, <3>1, ThreeBytes
    <3> QED
      BY <1>7, <2>1, <3>2
  <2>2. CASE ~IsReliable(f.rel)
    BY <1>7, <2>2 DEF FrameFits
  <2> QED
    BY <2>1, <2>2
<1>13. /\ number = f.order /\ channel = f.channel
       /\ IsOrdered(rel) => data[order + 4] <= MaxChannel
  <2>1. CASE IsOrdered(f.rel)
    <3>1. O = U24Le(f.order) \o <<f.channel>> /\ f.order \in Nat /\ f.order < Two24
      BY <2>1 DEF O, OrderedPart, FrameFits
    <3>2. f.channel \in Nat /\ f.channel <= 31
      BY DEF FrameFits, MaxChannel
    <3>3. f.channel \in Bytes
      BY <3>2, BytesAre
    <3>4. U24Le(f.order) \in Seq(Bytes) /\ Len(U24Le(f.order)) = 3
      BY <3>1, ThreeBytes
    <3>5. <<f.channel>> \in Seq(Bytes)
      BY <3>3, OneByte
    <3>6. Begins(data, o, U24Le(f.order)) /\ Begins(data, o + Len(U24Le(f.order)), <<f.channel>>)
      BY <1>5, <1>10, <3>1, <3>4, <3>5, BeginsParts
    <3>7. AsU24Le(data, o) = f.order
      BY <1>10, <3>1, <3>6, ThreeBytes
    <3>8. o + 3 \in Nat /\ (o + 3) + 1 = o + 4 /\ Begins(data, o + 3, <<f.channel>>)
      BY <1>10, <3>4, <3>6
    <3>9. data[o + 4] = f.channel
      <4>1. data[(o + 3) + 1] = f.channel
        BY <3>3, <3>8, OneByte
      <4> QED
        BY <3>8, <4>1
    <3>10. f.channel <= MaxChannel
      BY DEF FrameFits
    <3> QED
      BY <1>7, <1>10, <2>1, <3>7, <3>9, <3>10
  <2>2. CASE ~IsOrdered(f.rel)
    BY <1>7, <2>2 DEF FrameFits
  <2> QED
    BY <2>1, <2>2
<1>14. /\ count = f.count /\ id = f.id /\ index = f.index
       /\ split => Has(data, body, SplitHeader) /\ AsU32Be(data, body) <= MaxSplitCount
  <2>1. CASE f.split
    <3> DEFINE c == U32Be(f.count)
               d == U16Be(f.id)
               x == U32Be(f.index)
    <3>1. S = (c \o d) \o x /\ Len(S) = 10 /\ S \in Seq(Bytes)
      <4>1. S = (c \o d) \o x
        BY <2>1 DEF S, SplitPart
      <4> QED
        BY <1>3, <2>1, <4>1
    <3>2. f.count \in Nat /\ f.count <= Huge /\ f.count <= MaxSplitCount
      <4>1. f.count \in Nat /\ f.count <= 1024
        BY DEF FrameFits, MaxSplitCount
      <4>2. 1024 < Three7s
        BY SMT DEF Three7s
      <4> QED
        BY <4>1, <4>2, Limits DEF MaxSplitCount
    <3>3. /\ f.id \in Nat /\ f.id < Two16 /\ f.index \in Nat /\ f.index <= Huge
      BY DEF FrameFits
    <3>4. c \in Seq(Bytes) /\ Len(c) = 4
      BY <3>2, FourBytes
    <3>5. d \in Seq(Bytes) /\ Len(d) = 2
      BY <3>3, TwoBytes
    <3>6. x \in Seq(Bytes) /\ Len(x) = 4
      BY <3>3, FourBytes
    <3> HIDE DEF c, d, x
    <3>7. c \o d \in Seq(Bytes) /\ Len(c \o d) = 6
      <4>1. c \o d \in Seq(Bytes) /\ Len(c \o d) = Len(c) + Len(d)
        BY <3>4, <3>5, ConcatOf
      <4> QED
        BY <3>4, <3>5, <4>1
    <3>8. Begins(data, b, (c \o d) \o x)
      BY <1>5, <3>1
    <3>9. Begins(data, b, c \o d) /\ Begins(data, b + 6, x)
      <4>1. Begins(data, b, c \o d) /\ Begins(data, b + Len(c \o d), x)
        BY <1>10, <3>6, <3>7, <3>8, BeginsParts
      <4> QED
        BY <3>7, <4>1
    <3>10. Begins(data, b, c) /\ Begins(data, b + 4, d)
      <4>1. Begins(data, b, c) /\ Begins(data, b + Len(c), d)
        BY <1>10, <3>4, <3>5, <3>9, BeginsParts
      <4> QED
        BY <3>4, <4>1
    <3>11. b + 4 \in Nat /\ b + 6 \in Nat
      BY <1>10
    <3>12. AsU32Be(data, b) = f.count
      BY <1>10, <3>2, <3>10, FourBytes DEF c
    <3>13. AsU16Be(data, b + 4) = f.id
      BY <3>3, <3>10, <3>11, TwoBytes DEF d
    <3>14. AsU32Be(data, b + 6) = f.index
      BY <3>3, <3>9, <3>11, FourBytes DEF x
    <3>15. Has(data, b, SplitHeader)
      <4>1. b + 10 <= Len(data)
        BY <1>5, <3>1 DEF Begins
      <4> QED
        BY <1>4, <1>10, <4>1 DEF Has, SplitHeader
    <3> QED
      BY <1>8, <1>10, <2>1, <3>2, <3>12, <3>13, <3>14, <3>15
  <2>2. CASE ~f.split
    BY <1>8, <2>2 DEF FrameFits
  <2> QED
    BY <2>1, <2>2
<1>15. Has(data, at, 3) /\ Has(data, body, size) /\ Has(data, payload, size)
  <2>1. at + 3 <= Len(data) /\ b + Len(p) <= Len(data) /\ q + Len(p) <= Len(data) /\ Len(p) \in Nat
    BY <1>3, <1>4, <1>10, <1>11
  <2>2. Has(data, at, 3) /\ Has(data, b, Len(p)) /\ Has(data, q, Len(p))
    BY <1>4, <1>10, <2>1 DEF Has
  <2> QED
    BY <1>9, <1>10, <2>2
<1>16. fits
  BY <1>13, <1>14, <1>15 DEF fits
<1>17. Slice(data, payload, size) = p
  BY <1>3, <1>5, <1>9, <1>10, SliceIs
<1>18. [rel |-> rel, split |-> split, payload |-> Slice(data, payload, size),
        reliable |-> reliable, order |-> number, channel |-> channel,
        count |-> count, id |-> id, index |-> index] = f
  <2>1. f = [rel |-> f.rel, split |-> f.split, payload |-> f.payload, reliable |-> f.reliable,
             order |-> f.order, channel |-> f.channel, count |-> f.count, id |-> f.id,
             index |-> f.index]
    BY DEF FrameFits
  <2> HIDE DEF reliable, number, channel, count, id, index
  <2> QED
    BY <1>7, <1>8, <1>12, <1>13, <1>14, <1>17, <2>1 DEF p
<1>19. payload + size = at + Len(FrameBytes(f, unit, slack))
  BY <1>5, <1>9, <1>10
<1> QED
  BY <1>1, <1>16, <1>18, <1>19

(* Wherever a frame is read, it ends further behind.                        *)
LEMMA FrameAdvances ==
    ASSUME NEW data \in Seq(Bytes), NEW at \in Nat, NEW mode, ParseFrame(data, at, mode).ok
    PROVE  /\ ParseFrame(data, at, mode).next \in Nat
           /\ at < ParseFrame(data, at, mode).next
           /\ ParseFrame(data, at, mode).next <= Len(data)
<1> DEFINE rel == data[at + 1] \div 32
           split == (data[at + 1] \div 16) % 2 = 1
           size == PayloadSize(AsU16Be(data, at + 1), mode)
           order == at + 3 + IF IsReliable(rel) THEN 3 ELSE 0
           body == at + 3 + Headers(rel)
           payload == body + IF split THEN SplitHeader ELSE 0
           fits == /\ Has(data, at, 3)
                   /\ Has(data, body, size)
                   /\ IsOrdered(rel) => data[order + 4] <= MaxChannel
                   /\ split => Has(data, body, SplitHeader) /\ AsU32Be(data, body) <= MaxSplitCount
                   /\ Has(data, payload, size)
           frame == [rel |-> rel, split |-> split,
                     payload  |-> Slice(data, payload, size),
                     reliable |-> IF IsReliable(rel) THEN AsU24Le(data, at + 3) ELSE 0,
                     order    |-> IF IsOrdered(rel) THEN AsU24Le(data, order) ELSE 0,
                     channel  |-> IF IsOrdered(rel) THEN data[order + 4] ELSE 0,
                     count    |-> IF split THEN AsU32Be(data, body) ELSE 0,
                     id       |-> IF split THEN AsU16Be(data, body + 4) ELSE 0,
                     index    |-> IF split THEN AsU32Be(data, body + 6) ELSE 0]
<1>1. ParseFrame(data, at, mode) =
        IF ~fits THEN NoFrame ELSE [ok |-> TRUE, next |-> payload + size, frame |-> frame]
  BY DEF ParseFrame
<1>2. Headers(rel) \in Nat
  BY DEF Headers
<1>3. Len(data) \in Nat
  OBVIOUS
<1> HIDE DEF frame, fits
<1>4. fits
  <2>1. CASE ~fits
    <3>1. ParseFrame(data, at, mode).ok = FALSE
      BY <1>1, <2>1 DEF NoFrame
    <3> QED
      BY <3>1
  <2> QED
    BY <2>1
<1>5. ParseFrame(data, at, mode).next = payload + size
  BY <1>1, <1>4
<1>6. Has(data, at, 3) /\ Has(data, payload, size)
  BY <1>4 DEF fits
<1>7. size \in Nat
  <2>1. at + 2 \in 1..Len(data) /\ at + 3 \in 1..Len(data)
    BY <1>3, <1>6 DEF Has
  <2>2. data[at + 2] \in Nat /\ data[at + 3] \in Nat
    BY <2>1, BytesAre
  <2>3. (at + 1) + 1 = at + 2 /\ (at + 1) + 2 = at + 3
    OBVIOUS
  <2>4. AsU16Be(data, at + 1) \in Nat
    BY <2>2, <2>3 DEF AsU16Be
  <2> QED
    BY <2>4 DEF PayloadSize
<1>8. payload \in Nat /\ at < payload
  <2>1. body \in Nat /\ at < body
    BY <1>2
  <2> HIDE DEF body, split
  <2> QED
    BY <2>1 DEF SplitHeader
<1> HIDE DEF payload, size
<1>9. size <= Len(data) - payload
  BY <1>6 DEF Has
<1> QED
  BY <1>3, <1>5, <1>7, <1>8, <1>9

(***************************************************************************)
(* parse_frame_set                                                         *)
(***************************************************************************)
FrameAt(data, mode, at) == ParseFrame(data, at, mode)
LastAt(data, mode, at) == at = Len(data) \/ ~FrameAt(data, mode, at).ok
EndsAt(data, mode, at) == StopsBehind(FrameAt(data, mode, at).frame, FrameAt(data, mode, at).next, data)
IsPath(f, data, mode) ==
    f = [at \in 0..Len(data) |->
            IF LastAt(data, mode, at) THEN <<at>>
            ELSE IF EndsAt(data, mode, at) THEN <<at, FrameAt(data, mode, at).next>>
            ELSE <<at>> \o f[FrameAt(data, mode, at).next]]

(* The recursion that finds the frames of any bytes is well defined.        *)
LEMMA PathExists ==
    ASSUME NEW data \in Seq(Bytes), NEW mode
    PROVE  \E f : IsPath(f, data, mode)
<1> DEFINE next == [at \in 0..Len(data) |->
                       IF LastAt(data, mode, at) \/ EndsAt(data, mode, at) THEN 0 ELSE FrameAt(data, mode, at).next]
           part == [at \in 0..Len(data) |->
                       IF ~LastAt(data, mode, at) /\ EndsAt(data, mode, at) THEN <<at, FrameAt(data, mode, at).next>>
                       ELSE <<at>>]
<1>1. Len(data) \in Nat
  OBVIOUS
<1>2. ASSUME NEW at \in 0..Len(data), ~LastAt(data, mode, at)
      PROVE  /\ FrameAt(data, mode, at).next \in Nat /\ at < FrameAt(data, mode, at).next
             /\ FrameAt(data, mode, at).next <= Len(data)
  <2>1. at \in Nat /\ ParseFrame(data, at, mode).ok
    BY <1>2 DEF LastAt, FrameAt
  <2> QED
    BY <2>1, FrameAdvances DEF FrameAt
<1>3. GoesOn(next, Len(data))
  BY <1>2 DEF GoesOn
<1>4. ASSUME NEW at \in 0..Len(data)
      PROVE  /\ next[at] = 0 <=> LastAt(data, mode, at) \/ EndsAt(data, mode, at)
             /\ LastAt(data, mode, at) => part[at] = <<at>>
             /\ ~LastAt(data, mode, at) /\ EndsAt(data, mode, at) => part[at] = <<at, FrameAt(data, mode, at).next>>
             /\ ~LastAt(data, mode, at) /\ ~EndsAt(data, mode, at) =>
                    part[at] = <<at>> /\ next[at] = FrameAt(data, mode, at).next
  <2>1. CASE LastAt(data, mode, at)
    BY <2>1
  <2>2. CASE ~LastAt(data, mode, at)
    <3>1. FrameAt(data, mode, at).next # 0
      BY <1>2, <2>2
    <3> QED
      BY <2>2, <3>1
  <2> QED
    BY <2>1, <2>2
<1> HIDE DEF next, part
<1>5. PICK f : IsChain(f, next, part, Len(data))
  BY <1>1, <1>3, ChainExists
<1>6. ASSUME NEW at \in 0..Len(data)
      PROVE  (IF next[at] = 0 THEN part[at] ELSE part[at] \o f[next[at]])
               = IF LastAt(data, mode, at) THEN <<at>>
                 ELSE IF EndsAt(data, mode, at) THEN <<at, FrameAt(data, mode, at).next>>
                 ELSE <<at>> \o f[FrameAt(data, mode, at).next]
  <2>1. CASE LastAt(data, mode, at)
    BY <1>4, <2>1
  <2>2. CASE ~LastAt(data, mode, at) /\ EndsAt(data, mode, at)
    BY <1>4, <2>2
  <2>3. CASE ~LastAt(data, mode, at) /\ ~EndsAt(data, mode, at)
    BY <1>4, <2>3
  <2> QED
    BY <2>1, <2>2, <2>3
<1>7. [at \in 0..Len(data) |-> IF next[at] = 0 THEN part[at] ELSE part[at] \o f[next[at]]]
        = [at \in 0..Len(data) |->
             IF LastAt(data, mode, at) THEN <<at>>
             ELSE IF EndsAt(data, mode, at) THEN <<at, FrameAt(data, mode, at).next>>
             ELSE <<at>> \o f[FrameAt(data, mode, at).next]]
  BY <1>6
<1> QED
  BY <1>5, <1>7 DEF IsChain, IsPath

(* Frames that are found one behind the other, down to the end.             *)
AreFound(data, mode, frames, pos) ==
    /\ pos[0] = SetHeader /\ pos[Len(frames)] = Len(data)
    /\ \A i \in 0..Len(frames) : pos[i] \in Nat /\ pos[i] <= Len(data)
    /\ \A i \in 1..Len(frames) :
           /\ pos[i - 1] < Len(data)
           /\ FrameAt(data, mode, pos[i - 1]) = [ok |-> TRUE, next |-> pos[i], frame |-> frames[i]]
           /\ ~StopsBehind(frames[i], pos[i], data)

(* They are what is read.                                                   *)
LEMMA FoundAreRead ==
    ASSUME NEW data \in Seq(Bytes), NEW mode, NEW S, NEW frames \in Seq(S), NEW pos, AreFound(data, mode, frames, pos)
    PROVE  ReadFrames(data, mode) = [frames |-> frames, offset |-> Len(data), failed |-> FALSE]
<1> DEFINE m == Len(frames)
           Is(f) == f = [at \in 0..Len(data) |->
                            IF at = Len(data) \/ ~ParseFrame(data, at, mode).ok THEN <<at>>
                            ELSE IF StopsBehind(ParseFrame(data, at, mode).frame,
                                                ParseFrame(data, at, mode).next, data)
                                 THEN <<at, ParseFrame(data, at, mode).next>>
                            ELSE <<at>> \o f[ParseFrame(data, at, mode).next]]
           path == CHOOSE f : Is(f)
           begins == path[SetHeader]
           n == Len(begins) - 1
           offset == begins[n + 1]
           read == [i \in 1..n |-> ParseFrame(data, begins[i], mode).frame]
           failed == offset < Len(data) /\ (n = 0 \/ ~read[n].split)
<1>1. ~failed => ReadFrames(data, mode) = [frames |-> read, offset |-> offset, failed |-> failed]
  <2> DEFINE extended == [frames |-> <<[read[1] EXCEPT !.payload = @ \o SubSeq(data, offset + 1, Len(data))]>>,
                          offset |-> Len(data), failed |-> FALSE]
  <2>1. ReadFrames(data, mode) = IF mode = "bytes" /\ failed /\ n = 1 /\ IsBatch(read[1]) THEN extended
                                   ELSE [frames |-> read, offset |-> offset, failed |-> failed]
    BY DEF ReadFrames
  <2> HIDE DEF extended, read, failed, offset, n
  <2> QED
    BY <2>1
<1>2. ASSUME NEW f PROVE Is(f) <=> IsPath(f, data, mode)
  BY DEF IsPath, LastAt, EndsAt, FrameAt
<1> HIDE DEF Is
<1>3. IsPath(path, data, mode)
  <2>1. PICK f : IsPath(f, data, mode)
    BY PathExists
  <2>2. Is(path)
    BY <1>2, <2>1
  <2> QED
    BY <1>2, <2>2
<1> HIDE DEF path
<1>4. \A at \in 0..Len(data) : path[at] = IF LastAt(data, mode, at) THEN <<at>>
                                          ELSE IF EndsAt(data, mode, at) THEN <<at, FrameAt(data, mode, at).next>>
                                          ELSE <<at>> \o path[FrameAt(data, mode, at).next]
  BY <1>3 DEF IsPath
<1>5. /\ m \in Nat /\ Len(data) \in Nat /\ frames = [i \in 1..m |-> frames[i]]
      /\ pos[0] = SetHeader /\ pos[m] = Len(data)
      /\ \A i \in 0..m : pos[i] \in 0..Len(data)
      /\ \A i \in 1..m : /\ pos[i - 1] # Len(data)
                         /\ FrameAt(data, mode, pos[i - 1]) = [ok |-> TRUE, next |-> pos[i], frame |-> frames[i]]
                         /\ ~StopsBehind(frames[i], pos[i], data)
  <2>1. m \in Nat /\ Len(data) \in Nat /\ frames = [i \in 1..m |-> frames[i]]
    OBVIOUS
  <2>2. \A i \in 0..m : pos[i] \in 0..Len(data)
    BY <2>1 DEF AreFound
  <2>3. \A i \in 1..m : i - 1 \in 0..m
    BY <2>1
  <2>4. ASSUME NEW i \in 1..m PROVE pos[i - 1] # Len(data)
    <3>1. pos[i - 1] < Len(data)
      BY DEF AreFound
    <3>2. pos[i - 1] \in Nat
      BY <2>2, <2>3
    <3> QED
      BY <2>1, <3>1, <3>2
  <2> QED
    BY <2>1, <2>2, <2>4 DEF AreFound
<1> HIDE DEF m
<1>f. ASSUME NEW i \in 1..m
      PROVE  /\ FrameAt(data, mode, pos[i - 1]).ok = TRUE /\ FrameAt(data, mode, pos[i - 1]).next = pos[i]
             /\ FrameAt(data, mode, pos[i - 1]).frame = frames[i]
  <2>1. FrameAt(data, mode, pos[i - 1]) = [ok |-> TRUE, next |-> pos[i], frame |-> frames[i]]
    BY <1>5
  <2> QED
    BY <2>1
<1>6. path[pos[m]] = <<pos[m]>>
  <2>1. pos[m] \in 0..Len(data)
    BY <1>5
  <2> QED
    BY <1>4, <1>5, <2>1 DEF LastAt
<1>7. ASSUME NEW i \in 1..m PROVE path[pos[i - 1]] = <<pos[i - 1]>> \o path[pos[i]]
  <2>1. i - 1 \in 0..m
    BY <1>5
  <2>2. pos[i - 1] \in 0..Len(data)
    BY <1>5, <2>1
  <2>3. /\ FrameAt(data, mode, pos[i - 1]).ok = TRUE /\ FrameAt(data, mode, pos[i - 1]).next = pos[i]
        /\ FrameAt(data, mode, pos[i - 1]).frame = frames[i]
    BY <1>f
  <2>4. ~LastAt(data, mode, pos[i - 1])
    BY <1>5, <2>3 DEF LastAt
  <2>5. ~EndsAt(data, mode, pos[i - 1])
    BY <1>5, <2>3 DEF EndsAt
  <2> QED
    BY <1>4, <2>2, <2>3, <2>4, <2>5
<1> DEFINE From(j) == [k \in 1..((m - j) + 1) |-> pos[(j + k) - 1]]
           T == {d \in Nat : d <= m => path[pos[m - d]] = From(m - d)}
<1>8. 0 \in T
  <2>1. m - 0 = m /\ (m - m) + 1 = 1 /\ (m + 1) - 1 = m
    BY <1>5
  <2>2. From(m) = <<pos[m]>>
    <3>1. \A k \in 1..1 : (m + k) - 1 = m
      BY <1>5
    <3>2. From(m) = [k \in 1..1 |-> pos[m]]
      BY <2>1, <3>1
    <3> QED
      BY <3>2
  <2> HIDE DEF From
  <2> QED
    BY <1>6, <2>1, <2>2
<1>9. ASSUME NEW d \in Nat, d \in T PROVE d + 1 \in T
  <2>1. ASSUME d + 1 <= m PROVE path[pos[m - (d + 1)]] = From(m - (d + 1))
    <3> DEFINE i == m - d
    <3>1. i \in 1..m /\ i \in Nat /\ i <= m /\ i >= 1 /\ i - 1 = m - (d + 1) /\ d <= m
      BY <1>5, <2>1
    <3>2. path[pos[i]] = From(i)
      <4> HIDE DEF From
      <4> QED
        BY <1>9, <3>1
    <3> HIDE DEF i
    <3>3. path[pos[i - 1]] = <<pos[i - 1]>> \o From(i)
      BY <1>7, <3>1, <3>2
    <3>4. <<pos[i - 1]>> \o From(i) = From(i - 1)
      <4> DEFINE a == <<pos[i - 1]>>
                 b == From(i)
                 c == From(i - 1)
                 N == (m - i) + 1
      <4>1. N \in Nat /\ (m - (i - 1)) + 1 = N + 1
        BY <1>5, <3>1
      <4>2. \A k \in 1..(N + 1) : ((i - 1) + k) - 1 \in 0..m
        <5> SUFFICES ASSUME NEW k \in 1..(N + 1) PROVE ((i - 1) + k) - 1 \in 0..m
          OBVIOUS
        <5>1. k \in Nat /\ k >= 1 /\ k <= (m - i) + 2
          BY <1>5, <3>1
        <5>2. m \in Nat /\ i \in Nat /\ i >= 1 /\ i <= m
          BY <1>5, <3>1
        <5>3. ((i - 1) + k) - 1 \in Int /\ 0 <= ((i - 1) + k) - 1 /\ ((i - 1) + k) - 1 <= m
          BY <5>1, <5>2
        <5> QED
          BY <5>2, <5>3
      <4>3. \A k \in 0..m : pos[k] \in Nat
        BY <1>5
      <4>4. a \in Seq(Nat) /\ Len(a) = 1 /\ a[1] = pos[i - 1]
        <5>1. i - 1 \in 0..m
          <6>1. m \in Nat /\ i \in Nat /\ i <= m /\ i >= 1
            BY <1>5, <3>1
          <6> QED
            BY <6>1
        <5>2. pos[i - 1] \in Nat
          BY <4>3, <5>1
        <5> QED
          BY <5>2
      <4>5. b \in Seq(Nat) /\ Len(b) = N /\ \A k \in 1..N : b[k] = pos[(i + k) - 1]
        <5>1. \A k \in 1..N : pos[(i + k) - 1] \in Nat
          <6>1. \A k \in 1..N : (i + k) - 1 \in 0..m
            BY <1>5, <3>1
          <6> QED
            BY <4>3, <6>1
        <5> HIDE DEF N
        <5> QED
          BY <4>1, <5>1 DEF N
      <4>6. c \in Seq(Nat) /\ Len(c) = N + 1 /\ \A k \in 1..(N + 1) : c[k] = pos[((i - 1) + k) - 1]
        <5>1. \A k \in 1..(N + 1) : pos[((i - 1) + k) - 1] \in Nat
          BY <4>2, <4>3
        <5>2. c = [k \in 1..(N + 1) |-> pos[((i - 1) + k) - 1]]
          BY <4>1
        <5> HIDE DEF N, c
        <5> QED
          BY <4>1, <5>1, <5>2
      <4> HIDE DEF a, b, c, N
      <4>7. /\ a \o b \in Seq(Nat) /\ Len(a \o b) = Len(a) + Len(b)
            /\ \A j \in 1..Len(a) : (a \o b)[j] = a[j]
            /\ \A j \in 1..Len(b) : (a \o b)[Len(a) + j] = b[j]
        <5>1. a \in Seq(Nat) /\ b \in Seq(Nat)
          BY <4>4, <4>5
        <5> QED
          BY <5>1, ConcatParts
      <4>8. Len(a \o b) = Len(c)
        BY <4>1, <4>4, <4>5, <4>6, <4>7
      <4>9. ASSUME NEW k \in 1..Len(c) PROVE (a \o b)[k] = c[k]
        <5>0. k \in 1..(N + 1) /\ c[k] = pos[((i - 1) + k) - 1]
          BY <4>6
        <5>1. CASE k = 1
          <6>1. ((i - 1) + 1) - 1 = i - 1 /\ 1 \in 1..Len(a)
            BY <3>1, <4>4
          <6> QED
            BY <4>4, <4>7, <5>0, <5>1, <6>1
        <5>2. CASE k # 1
          <6>1. k - 1 \in 1..N /\ 1 + (k - 1) = k /\ (i + (k - 1)) - 1 = ((i - 1) + k) - 1
            BY <3>1, <4>1, <5>0, <5>2
          <6>2. (a \o b)[1 + (k - 1)] = b[k - 1]
            BY <4>4, <4>5, <4>7, <6>1
          <6>3. b[k - 1] = pos[(i + (k - 1)) - 1]
            BY <4>5, <6>1
          <6> QED
            BY <5>0, <6>1, <6>2, <6>3
        <5> QED
          BY <5>1, <5>2
      <4>10. a \o b = c
        <5>1. a \o b \in Seq(Nat) /\ c \in Seq(Nat)
          BY <4>6, <4>7
        <5>2. \A k \in 1..Len(a \o b) : (a \o b)[k] = c[k]
          BY <4>8, <4>9
        <5> QED
          BY <4>8, <5>1, <5>2, SeqEqual
      <4> QED
        BY <4>10 DEF a, b, c
    <3> HIDE DEF From
    <3> QED
      BY <3>1, <3>3, <3>4
  <2> HIDE DEF From
  <2> QED
    BY <2>1
<1> HIDE DEF T
<1>10. begins = From(0)
  <2>1. m \in T
    <3>1. \A k \in Nat : k \in T
      BY <1>8, <1>9, Upwards
    <3> QED
      BY <1>5, <3>1
  <2>2. m - m = 0
    BY <1>5
  <2> HIDE DEF From
  <2> QED
    BY <1>5, <2>1, <2>2 DEF T
<1>11. begins = [k \in 1..(m + 1) |-> pos[k - 1]]
  <2>1. (m - 0) + 1 = m + 1 /\ \A k \in 1..(m + 1) : (0 + k) - 1 = k - 1
    BY <1>5
  <2> QED
    BY <1>10, <2>1
<1> HIDE DEF begins, From
<1>12. n = m /\ offset = Len(data)
  <2>1. \A k \in 1..(m + 1) : pos[k - 1] \in Nat
    <3>1. \A k \in 1..(m + 1) : k - 1 \in 0..m
      BY <1>5
    <3> QED
      BY <1>5, <3>1
  <2>2. Len(begins) = m + 1
    BY <1>5, <1>11, <2>1
  <2>3. n = m
    BY <1>5, <2>2
  <2>4. begins[m + 1] = pos[(m + 1) - 1] /\ (m + 1) - 1 = m
    BY <1>5, <1>11
  <2> HIDE DEF n
  <2> QED
    BY <1>5, <2>3, <2>4
<1>13. read = frames
  <2>1. \A i \in 1..m : ParseFrame(data, begins[i], mode).frame = frames[i]
    <3> SUFFICES ASSUME NEW i \in 1..m PROVE ParseFrame(data, begins[i], mode).frame = frames[i]
      OBVIOUS
    <3>1. begins[i] = pos[i - 1]
      BY <1>5, <1>11
    <3>2. FrameAt(data, mode, pos[i - 1]).frame = frames[i]
      BY <1>f
    <3> QED
      BY <3>1, <3>2 DEF FrameAt
  <2> HIDE DEF n
  <2>2. read = [i \in 1..m |-> frames[i]]
    BY <1>12, <2>1
  <2> QED
    BY <1>5, <2>2
<1>14. failed = FALSE
  <2>1. ~(offset < Len(data))
    BY <1>5, <1>12
  <2> HIDE DEF offset, n, read
  <2> QED
    BY <2>1
<1> QED
  BY <1>1, <1>12, <1>13, <1>14

FramePieces(frames, unit, slack) == [i \in 1..Len(frames) |-> FrameBytes(frames[i], unit, slack)]
AllFit(frames, unit, slack) == \A i \in 1..Len(frames) : FrameFits(frames[i], unit, slack)
SetHead(seq) == <<132>> \o U24Le(seq)

(* A frame set is its header and its frames, one behind the other.          *)
LEMMA SetJoined ==
    ASSUME NEW seq, NEW S, NEW frames \in Seq(S), NEW unit, NEW slack
    PROVE  \E g : /\ IsJoined(g, FramePieces(frames, unit, slack), Len(frames))
                  /\ FrameSetBytes(seq, frames, unit, slack) = SetHead(seq) \o g[Len(frames)]
<1> DEFINE n == Len(frames)
           Is(f) == f = [i \in 0..n |-> IF i = 0 THEN <<>> ELSE f[i - 1] \o FrameBytes(frames[i], unit, slack)]
           upTo == CHOOSE f : Is(f)
<1>1. n \in Nat
  OBVIOUS
<1>2. ASSUME NEW f PROVE Is(f) <=> IsJoined(f, FramePieces(frames, unit, slack), n)
  <2>1. \A i \in 0..n : i # 0 => FramePieces(frames, unit, slack)[i] = FrameBytes(frames[i], unit, slack)
    BY <1>1 DEF FramePieces
  <2>2. [i \in 0..n |-> IF i = 0 THEN <<>> ELSE f[i - 1] \o FrameBytes(frames[i], unit, slack)]
          = [i \in 0..n |-> IF i = 0 THEN <<>> ELSE f[i - 1] \o FramePieces(frames, unit, slack)[i]]
    BY <2>1
  <2> QED
    BY <2>2 DEF IsJoined
<1>3. FrameSetBytes(seq, frames, unit, slack) = SetHead(seq) \o upTo[n]
  BY DEF FrameSetBytes, SetHead
<1> HIDE DEF Is
<1>4. PICK g : IsJoined(g, FramePieces(frames, unit, slack), n)
  BY <1>1, JoinedExists
<1>5. Is(upTo)
  BY <1>2, <1>4
<1>6. IsJoined(upTo, FramePieces(frames, unit, slack), n)
  BY <1>2, <1>5
<1> HIDE DEF upTo
<1> QED
  BY <1>3, <1>6

(* Each frame of a set is found where the one before it ends.               *)
LEMMA FrameFound ==
    ASSUME NEW m \in Nat, NEW piece, ArePieces(Bytes, piece, m), NEW g, IsJoined(g, piece, m),
           NEW data \in Seq(Bytes), NEW at \in Nat, Begins(data, at, g[m]), NEW i \in 1..m
    PROVE  Begins(data, at + Len(g[i - 1]), piece[i])
<1> DEFINE a == Len(g[i - 1])
           p == piece[i]
<1>1. JoinsSequences(Bytes, g, piece, m)
  BY JoinedTypes
<1>2. i \in 0..m /\ i - 1 \in 0..m /\ m \in i..m /\ m \in 0..m
  OBVIOUS
<1>3. /\ a \in Nat /\ Len(g[i]) = a + Len(p) /\ Len(g[m]) \in Nat
      /\ \A k \in 1..Len(p) : g[i][a + k] = p[k]
  BY <1>1, <1>2 DEF JoinsSequences
<1>4. StaysInFront(g, i, m)
  BY <1>2, JoinedGrows
<1>5. Len(g[i]) <= Len(g[m]) /\ \A k \in 1..Len(g[i]) : g[m][k] = g[i][k]
  BY <1>2, <1>4 DEF StaysInFront
<1>6. Len(p) \in Nat /\ Len(data) \in Nat
  BY LenProperties DEF ArePieces
<1>7. at + Len(g[m]) <= Len(data) /\ \A k \in 1..Len(g[m]) : at + k <= Len(data) => data[at + k] = g[m][k]
  BY DEF Begins, Agrees
<1> HIDE DEF a, p
<1>8. (at + a) + Len(p) <= Len(data)
  BY <1>3, <1>5, <1>6, <1>7
<1>9. ASSUME NEW k \in 1..Len(p) PROVE data[(at + a) + k] = p[k]
  <2>1. a + k \in 1..Len(g[i]) /\ a + k \in 1..Len(g[m]) /\ at + (a + k) = (at + a) + k
        /\ at + (a + k) <= Len(data)
    BY <1>3, <1>5, <1>6, <1>8
  <2>2. data[at + (a + k)] = g[m][a + k] /\ g[m][a + k] = g[i][a + k] /\ g[i][a + k] = p[k]
    BY <1>3, <1>5, <1>7, <2>1
  <2> QED
    BY <2>1, <2>2
<1> QED
  BY <1>8, <1>9 DEF Begins, Agrees, a, p

(* What is written behind a header, and what a frame found there is read as. *)
LEMMA HeaderFound ==
    ASSUME NEW data \in Seq(Bytes), NEW b \in Bytes, NEW s \in Seq(Bytes),
           NEW h, h = <<b>> \o s, Begins(data, 0, h)
    PROVE  data[1] = b /\ Begins(data, 1, s)
<1> DEFINE a == <<b>>
<1>1. a \in Seq(Bytes) /\ Len(a) = 1 /\ 0 \in Nat /\ 0 + 1 = 1
  OBVIOUS
<1> HIDE DEF a
<1>2. Begins(data, 0, a \o s)
  BY DEF a
<1>3. Begins(data, 0, a) /\ Begins(data, 0 + Len(a), s)
  BY <1>1, <1>2, BeginsParts
<1>4. data[0 + 1] = b
  BY <1>1, <1>3, OneByte DEF a
<1> QED
  BY <1>1, <1>3, <1>4

LEMMA FrameReadAt ==
    ASSUME NEW data \in Seq(Bytes), NEW at \in Nat, NEW f, NEW unit, NEW slack, FrameFits(f, unit, slack),
           NEW piece, piece = FrameBytes(f, unit, slack), Begins(data, at, piece),
           NEW next, next = at + Len(piece)
    PROVE  FrameAt(data, Mode(unit), at) = [ok |-> TRUE, next |-> next, frame |-> f]
BY FrameRead DEF FrameAt

LEMMA Further ==
    ASSUME NEW a, NEW b, NEW p \in Nat \ {0}, NEW u \in Nat, NEW v, NEW n \in Nat,
           a = 4 + u, b = 4 + v, v = u + p, b <= n
    PROVE  a \in Nat /\ b = a + p /\ a < n
OBVIOUS

MayBeReadIn(mode, unit, frames) == mode = Mode(unit) \/ frames = <<>>
IsFoundIn(data, seq, frames, mode) ==
    /\ IsFrameSet(data) /\ AsU24Le(data, 1) = seq /\ Len(data) \in Nat
    /\ ReadFrames(data, mode) = [frames |-> frames, offset |-> Len(data), failed |-> FALSE]

(* Whatever its frames are, the reading its lengths are meant for finds     *)
(* them, unless a fragment is followed by anything; and of an empty set     *)
(* both readings find nothing.                                              *)
LEMMA SetIsFound ==
    ASSUME NEW seq \in Nat, seq < Two24, NEW S, NEW frames \in Seq(S), NEW unit, NEW slack,
           AllFit(frames, unit, slack), ~FragmentFollowed(frames),
           NEW mode, MayBeReadIn(mode, unit, frames)
    PROVE  IsFoundIn(FrameSetBytes(seq, frames, unit, slack), seq, frames, mode)
<1> DEFINE m == Len(frames)
           piece == FramePieces(frames, unit, slack)
           data == FrameSetBytes(seq, frames, unit, slack)
           h == SetHead(seq)
<1>1. PICK g : IsJoined(g, piece, m) /\ data = h \o g[m]
  BY SetJoined
<1>2. m \in Nat
  OBVIOUS
<1>3. ASSUME NEW i \in 1..m
      PROVE  /\ FrameFits(frames[i], unit, slack) /\ piece[i] = FrameBytes(frames[i], unit, slack)
             /\ piece[i] \in Seq(Bytes) /\ Len(piece[i]) \in Nat \ {0}
  <2>1. FrameFits(frames[i], unit, slack)
    BY DEF AllFit
  <2>2. piece[i] = FrameBytes(frames[i], unit, slack)
    BY DEF FramePieces
  <2> QED
    BY <2>1, <2>2, FrameParts
<1>3a. ASSUME NEW i \in 1..m PROVE mode = Mode(unit)
  <2>1. CASE frames = <<>>
    <3>1. m = 0
      BY <2>1
    <3> QED
      BY <3>1
  <2> QED
    BY <2>1 DEF MayBeReadIn
<1>4. ArePieces(Bytes, piece, m)
  BY <1>3 DEF ArePieces
<1>5. JoinsSequences(Bytes, g, piece, m)
  BY <1>1, <1>2, <1>4, JoinedTypes
<1>6. /\ g[0] = <<>> /\ \A i \in 0..m : g[i] \in Seq(Bytes) /\ Len(g[i]) \in Nat
      /\ \A i \in 1..m : Len(g[i]) = Len(g[i - 1]) + Len(piece[i])
  BY <1>5 DEF JoinsSequences
<1>7. 132 \in Bytes /\ <<132>> \in Seq(Bytes) /\ Len(<<132>>) = 1
  <2>1. 132 \in Bytes
    BY BytesAre
  <2> QED
    BY <2>1, OneByte
<1>8. U24Le(seq) \in Seq(Bytes) /\ Len(U24Le(seq)) = 3
  BY ThreeBytes
<1>9. h \in Seq(Bytes) /\ Len(h) = 4
  <2>1. h \in Seq(Bytes) /\ Len(h) = Len(<<132>>) + Len(U24Le(seq))
    BY <1>7, <1>8, ConcatOf DEF SetHead
  <2> QED
    BY <1>7, <1>8, <2>1
<1>10. g[m] \in Seq(Bytes) /\ Len(g[m]) \in Nat
  BY <1>2, <1>6
<1>11. h = <<132>> \o U24Le(seq)
  BY DEF SetHead
<1> HIDE DEF data, h, m, piece
<1>12. data \in Seq(Bytes) /\ Len(data) = 4 + Len(g[m]) /\ Len(data) \in Nat
  <2>1. data \in Seq(Bytes) /\ Len(data) = Len(h) + Len(g[m])
    BY <1>1, <1>9, <1>10, ConcatOf
  <2> QED
    BY <1>9, <1>10, <2>1
<1>13. Begins(data, 0, h) /\ Begins(data, 4, g[m])
  <2>1. Begins(data, 0, data)
    BY <1>12 DEF Begins, Agrees
  <2>2. Begins(data, 0, h \o g[m])
    BY <1>1, <2>1
  <2>3. Begins(data, 0, h) /\ Begins(data, 0 + Len(h), g[m])
    BY <1>9, <1>10, <1>12, <2>2, BeginsParts
  <2> QED
    BY <1>9, <2>3
<1>14. data[1] = 132 /\ AsU24Le(data, 1) = seq
  <2>1. 132 \in Bytes /\ U24Le(seq) \in Seq(Bytes) /\ data \in Seq(Bytes) /\ Begins(data, 0, h)
    BY <1>7, <1>8, <1>12, <1>13
  <2>2. data[1] = 132 /\ Begins(data, 1, U24Le(seq))
    BY <1>11, <2>1, HeaderFound
  <2>3. AsU24Le(data, 1) = seq
    BY <2>1, <2>2, ThreeBytes
  <2> QED
    BY <2>2, <2>3
<1> DEFINE pos == [i \in 0..m |-> 4 + Len(g[i])]
<1>15. AreFound(data, mode, frames, pos)
  <2>1. \A i \in 0..m : pos[i] = 4 + Len(g[i]) /\ pos[i] \in Nat
    BY <1>6
  <2> HIDE DEF pos
  <2>2. pos[0] = SetHeader /\ pos[m] = Len(data)
    <3>1. Len(g[0]) = 0 /\ 0 \in 0..m /\ m \in 0..m
      BY <1>2, <1>6
    <3> QED
      BY <1>12, <2>1, <3>1 DEF SetHeader
  <2>3. ASSUME NEW i \in 0..m PROVE pos[i] <= Len(data)
    <3>1. StaysInFront(g, i, m) /\ m \in i..m
      BY <1>1, <1>2, <1>4, JoinedGrows
    <3>2. Len(g[i]) <= Len(g[m]) /\ Len(g[i]) \in Nat
      BY <1>6, <3>1 DEF StaysInFront
    <3> QED
      BY <1>10, <1>12, <2>1, <3>2
  <2>4. ASSUME NEW i \in 1..m
        PROVE  /\ pos[i - 1] < Len(data)
               /\ FrameAt(data, mode, pos[i - 1]) = [ok |-> TRUE, next |-> pos[i], frame |-> frames[i]]
               /\ ~StopsBehind(frames[i], pos[i], data)
    <3>1. i - 1 \in 0..m /\ i \in 0..m
      BY <1>2
    <3> DEFINE a == pos[i - 1]
               b == pos[i]
               p == piece[i]
               f == frames[i]
               u == Len(g[i - 1])
               v == Len(g[i])
    <3>2. a = 4 + u /\ b = 4 + v
      BY <2>1, <3>1
    <3>3. u \in Nat /\ v = u + Len(p) /\ Len(data) \in Nat
      BY <1>6, <1>12, <3>1
    <3>4. b <= Len(data)
      BY <2>3, <3>1
    <3>5. FrameFits(f, unit, slack) /\ p = FrameBytes(f, unit, slack) /\ Len(p) \in Nat \ {0}
      BY <1>3
    <3>6. Begins(data, 4 + u, p)
      BY <1>1, <1>2, <1>4, <1>12, <1>13, FrameFound
    <3>7. FrameAt(data, mode, a) = [ok |-> TRUE, next |-> b, frame |-> f] /\ a < Len(data)
      <4> HIDE DEF a, b, p, f, u, v
      <4>1. a \in Nat /\ b = a + Len(p) /\ a < Len(data)
        BY <3>2, <3>3, <3>4, <3>5, Further
      <4>2. Begins(data, a, p)
        BY <3>2, <3>6
      <4> QED
        BY <1>12, <1>3a, <3>5, <4>1, <4>2, FrameReadAt
    <3>8. ~StopsBehind(frames[i], pos[i], data)
      <4>1. CASE i = m
        <5>1. ~(pos[i] < Len(data))
          BY <1>12, <2>2, <4>1
        <5> QED
          BY <5>1 DEF StopsBehind
      <4>2. CASE i # m
        <5>1. i \in 1..(Len(frames) - 1)
          BY <1>2, <4>2 DEF m
        <5>2. ~frames[i].split
          BY <5>1 DEF FragmentFollowed
        <5> QED
          BY <5>2 DEF StopsBehind
      <4> QED
        BY <4>1, <4>2
    <3> QED
      BY <3>7, <3>8
  <2> QED
    BY <2>1, <2>2, <2>3, <2>4 DEF AreFound, m
<1>16. ReadFrames(data, mode) = [frames |-> frames, offset |-> Len(data), failed |-> FALSE]
  BY <1>12, <1>15, FoundAreRead
<1>17. IsFrameSet(data)
  <2>1. Len(data) >= 4
    BY <1>10, <1>12
  <2> QED
    BY <1>14, <2>1 DEF IsFrameSet, SetHeader
<1> QED
  BY <1>12, <1>14, <1>16, <1>17 DEF IsFoundIn, data

(* A set whose lengths count bits is read as it was written.                *)
LEMMA BitsAreRead ==
    ASSUME NEW seq \in Nat, seq < Two24, NEW S, NEW frames \in Seq(S), NEW slack,
           AllFit(frames, 8, slack), ~FragmentFollowed(frames)
    PROVE  ParseFrameSet(FrameSetBytes(seq, frames, 8, slack)) = [seq |-> seq, frames |-> frames]
<1> DEFINE data == FrameSetBytes(seq, frames, 8, slack)
           bits == ReadFrames(data, "bits")
           other == ReadFrames(data, "bytes")
<1>0. Mode(8) = "bits"
  BY DEF Mode
<1>1. /\ IsFrameSet(data) /\ AsU24Le(data, 1) = seq /\ Len(data) \in Nat
      /\ bits = [frames |-> frames, offset |-> Len(data), failed |-> FALSE]
  BY <1>0, SetIsFound DEF IsFoundIn, MayBeReadIn
<1>2. ParseFrameSet(data) =
         [seq |-> AsU24Le(data, 1),
          frames |-> (IF BytesTried(bits, data) /\ BytesAreBetter(bits, other) THEN other ELSE bits).frames]
  BY <1>1 DEF ParseFrameSet
<1>3. bits.failed = FALSE /\ bits.offset = Len(data) /\ bits.frames = frames
  BY <1>1
<1> HIDE DEF data, bits, other
<1>4. ~BytesTried(bits, data)
  BY <1>1, <1>3 DEF BytesTried
<1>5. ParseFrameSet(data) = [seq |-> seq, frames |-> frames]
  BY <1>1, <1>2, <1>3, <1>4
<1> QED
  BY <1>5 DEF data

(* A set whose lengths count bytes is read as it was written if the reading *)
(* in bits leaves anything unread.                                          *)
LEMMA BytesAreRead ==
    ASSUME NEW seq \in Nat, seq < Two24, NEW S, NEW frames \in Seq(S),
           AllFit(frames, 1, 0), ~FragmentFollowed(frames),
           NEW data, data = FrameSetBytes(seq, frames, 1, 0),
           frames # <<>> => ReadFrames(data, "bits").offset < Len(data)
    PROVE  ParseFrameSet(data) = [seq |-> seq, frames |-> frames]
<1> DEFINE bits == ReadFrames(data, "bits")
           other == ReadFrames(data, "bytes")
<1>0. Mode(1) = "bytes"
  BY DEF Mode
<1>1. /\ IsFrameSet(data) /\ AsU24Le(data, 1) = seq /\ Len(data) \in Nat
      /\ other = [frames |-> frames, offset |-> Len(data), failed |-> FALSE]
  BY <1>0, SetIsFound DEF IsFoundIn, MayBeReadIn
<1>2. ParseFrameSet(data) =
         [seq |-> AsU24Le(data, 1),
          frames |-> (IF BytesTried(bits, data) /\ BytesAreBetter(bits, other) THEN other ELSE bits).frames]
  BY <1>1 DEF ParseFrameSet
<1>3. other.failed = FALSE /\ other.offset = Len(data) /\ other.frames = frames
  BY <1>1
<1>4. CASE frames = <<>>
  <2>1. bits = [frames |-> frames, offset |-> Len(data), failed |-> FALSE]
    <3>1. MayBeReadIn("bits", 1, frames)
      BY <1>4 DEF MayBeReadIn
    <3>2. IsFoundIn(FrameSetBytes(seq, frames, 1, 0), seq, frames, "bits")
      BY <3>1, SetIsFound
    <3> QED
      BY <3>2 DEF IsFoundIn
  <2>2. bits.frames = frames
    BY <2>1
  <2> HIDE DEF bits, other
  <2>3. (IF BytesTried(bits, data) /\ BytesAreBetter(bits, other) THEN other ELSE bits).frames = frames
    BY <1>3, <2>2
  <2> QED
    BY <1>1, <1>2, <2>3
<1>5. CASE frames # <<>>
  <2>1. bits.offset < Len(data)
    BY <1>5
  <2> HIDE DEF bits, other
  <2>2. BytesTried(bits, data)
    BY <2>1 DEF BytesTried
  <2>3. BytesAreBetter(bits, other)
    BY <1>3, <1>5, <2>1, Zenon DEF BytesAreBetter
  <2>4. (IF BytesTried(bits, data) /\ BytesAreBetter(bits, other) THEN other ELSE bits).frames = frames
    BY <1>3, <2>2, <2>3
  <2> QED
    BY <1>1, <1>2, <2>4
<1> QED
  BY <1>4, <1>5

(***************************************************************************)
(* The size of a skin                                                      *)
(***************************************************************************)

(* A size that holds 64 pixels in a row holds whole rows.                   *)
LEMMA RowsOf64 ==
    ASSUME NEW pixels \in Nat \ {0}, \A s \in Usual : ~Holds(s, pixels)
    PROVE  LET rows == IF pixels < 64 THEN 64 ELSE pixels \div 64
           IN  Holds(Size(64, rows), pixels) <=> pixels % 64 = 0
<1> DEFINE rows == IF pixels < 64 THEN 64 ELSE pixels \div 64
<1>1. rows \in Nat
  OBVIOUS
<1>2. Size(64, 64) \in Usual
  BY DEF Usual
<1>3. \A h : Holds(Size(64, h), pixels) <=> 64 * h = pixels
  BY DEF Holds, Size
<1>4. pixels # 64 * 64
  BY <1>2, <1>3
<1>5. CASE pixels < 64
  <2>1. pixels % 64 = pixels /\ rows = 64
    BY <1>5
  <2> QED
    BY <1>3, <1>4, <2>1
<1>6. CASE ~(pixels < 64)
  <2>1. rows = pixels \div 64
    BY <1>6
  <2>2. 64 * (pixels \div 64) = pixels <=> pixels % 64 = 0
    OBVIOUS
  <2> QED
    BY <1>3, <2>1, <2>2
<1> QED
  BY <1>5, <1>6

(* A skin is taken when its client's size agrees, or its rows are of 64.    *)
LEMMA SizeTaken ==
    ASSUME NEW declared, NEW pixels \in Nat \ {0}
    PROVE  Holds(SkinSize(declared, pixels), pixels)
             <=> Holds(declared, pixels) \/ pixels % 64 = 0
<1> DEFINE Fits == \E s \in Usual : Holds(s, pixels)
<1>1. CASE Holds(declared, pixels)
  BY <1>1 DEF SkinSize
<1>2. CASE ~Holds(declared, pixels) /\ Fits
  <2>1. PICK s \in Usual : Holds(s, pixels)
    BY <1>2
  <2>2. SkinSize(declared, pixels) = CHOOSE t \in Usual : Holds(t, pixels)
    BY <1>2 DEF SkinSize
  <2>3. Holds(SkinSize(declared, pixels), pixels)
    BY <2>1, <2>2
  <2>4. pixels \in {64 * 32, 64 * 64, 128 * 64, 128 * 128}
    BY <2>1 DEF Usual, Size, Holds
  <2>5. pixels % 64 = 0
    BY <2>4
  <2> QED
    BY <2>3, <2>5
<1>3. CASE ~Holds(declared, pixels) /\ ~Fits
  <2>1. SkinSize(declared, pixels) = Size(64, IF pixels < 64 THEN 64 ELSE pixels \div 64)
    BY <1>3 DEF SkinSize
  <2> HIDE DEF Fits
  <2>2. \A s \in Usual : ~Holds(s, pixels)
    BY <1>3 DEF Fits
  <2> QED
    BY <1>3, <2>1, <2>2, RowsOf64
<1> QED
  BY <1>1, <1>2, <1>3

(***************************************************************************)
(* The numbers of a Login                                                  *)
(***************************************************************************)

(* A number below 2^24 is three bytes, and a fourth that is 0.              *)
Low(v) == v % 256
Mid(v) == (v \div 256) % 256
High(v) == (v \div 256) \div 256
FromBytes(a, b, c) == a + 256 * (b + 256 * c)

LEMMA HighIs ==
    ASSUME NEW v \in Nat, v < Two24
    PROVE  /\ Low(v) \in Nat /\ Low(v) < 256 /\ Mid(v) \in Nat /\ Mid(v) < 256
           /\ High(v) \in Nat /\ High(v) < 256 /\ v = FromBytes(Low(v), Mid(v), High(v))
<1> DEFINE q == v \div 256
           h == q \div 256
<1>1. q \in Nat /\ Low(v) \in Nat /\ Low(v) < 256 /\ v = 256 * q + Low(v)
  BY Division256, BytesAre DEF Low
<1> HIDE DEF q
<1>2. h \in Nat /\ Mid(v) \in Nat /\ Mid(v) < 256 /\ q = 256 * h + Mid(v)
  <2>1. q % 256 \in Bytes /\ h \in Nat /\ q = 256 * h + (q % 256)
    BY <1>1, Division256
  <2>2. Mid(v) = q % 256
    BY DEF Mid, q
  <2> QED
    BY <2>1, <2>2, BytesAre
<1> HIDE DEF h
<1>3. h < 256
  BY SMT, <1>1, <1>2 DEF Two24
<1>4. High(v) = h
  BY DEF High, h, q
<1>5. v = Low(v) + 256 * (Mid(v) + 256 * h)
  BY <1>1, <1>2
<1> QED
  BY <1>1, <1>2, <1>3, <1>4, <1>5 DEF FromBytes

(* Its bytes.                                                               *)
LEMMA LeBytes ==
    ASSUME NEW v \in Nat, v < Two24
    PROVE  /\ U32Le(v) \in Seq(Bytes) /\ Len(U32Le(v)) = 4
           /\ U32Le(v)[1] = Low(v) /\ U32Le(v)[2] = Mid(v) /\ U32Le(v)[3] = High(v) /\ U32Le(v)[4] = 0
<1> DEFINE s == U24Le(v)
           t == <<v \div 16777216>>
<1>1. v \div 16777216 = 0
  BY SMT DEF Two24
<1>2. t = <<0>>
  BY <1>1
<1> HIDE DEF t
<1>3. s \in Seq(Bytes) /\ Len(s) = 3
  BY ThreeBytes
<1>4. s[1] = Low(v) /\ s[2] = Mid(v) /\ s[3] = High(v)
  <2>1. s[1] = v % 256 /\ s[2] = (v \div 256) % 256 /\ s[3] = (v \div 65536) % 256
    BY DEF U24Le
  <2>2. (v \div 65536) % 256 = (v \div 256) \div 256
    BY SMT DEF Two24
  <2> QED
    BY <2>1, <2>2 DEF Low, Mid, High
<1> HIDE DEF s
<1>5. t \in Seq(Bytes) /\ Len(t) = 1 /\ t[1] = 0
  <2>1. 0 \in Bytes
    BY BytesAre
  <2> QED
    BY <1>2, <2>1
<1>6. /\ s \o t \in Seq(Bytes) /\ Len(s \o t) = Len(s) + Len(t)
      /\ \A j \in 1..Len(s) : (s \o t)[j] = s[j]
      /\ \A j \in 1..Len(t) : (s \o t)[Len(s) + j] = t[j]
  <2>1. s \in Seq(Bytes) /\ t \in Seq(Bytes)
    BY <1>3, <1>5
  <2> QED
    BY <2>1, ConcatParts
<1>7. /\ Len(s \o t) = 4 /\ (s \o t)[1] = s[1] /\ (s \o t)[2] = s[2] /\ (s \o t)[3] = s[3]
      /\ (s \o t)[4] = 0
  BY <1>3, <1>5, <1>6
<1>8. U32Le(v) = s \o t
  BY DEF U32Le, s, t
<1> QED
  BY <1>4, <1>6, <1>7, <1>8

LEMMA BeBytes ==
    ASSUME NEW v \in Nat, v < Two24
    PROVE  /\ U32Be(v) \in Seq(Bytes) /\ Len(U32Be(v)) = 4
           /\ U32Be(v)[1] = 0 /\ U32Be(v)[2] = High(v) /\ U32Be(v)[3] = Mid(v) /\ U32Be(v)[4] = Low(v)
<1> DEFINE le == U32Le(v)
<1>1. /\ le \in Seq(Bytes) /\ Len(le) = 4
      /\ le[1] = Low(v) /\ le[2] = Mid(v) /\ le[3] = High(v) /\ le[4] = 0
  BY LeBytes
<1> HIDE DEF le
<1>2. DOMAIN le = 1..4
  BY <1>1
<1>3. Backwards(le) = [i \in 1..4 |-> le[5 - i]]
  BY <1>1, <1>2 DEF Backwards
<1>4. U32Be(v) = [i \in 1..4 |-> le[5 - i]]
  BY <1>3 DEF U32Be, le
<1>5. \A i \in 1..4 : le[5 - i] \in Bytes
  <2>1. \A i \in 1..4 : 5 - i \in 1..4
    OBVIOUS
  <2>2. \A k \in 1..4 : le[k] \in Bytes
    <3>1. le \in Seq(Bytes) /\ Len(le) = 4
      BY <1>1
    <3> QED
      BY <3>1, ElementOfSeq
  <2> QED
    BY <2>1, <2>2
<1>6. U32Be(v) \in Seq(Bytes) /\ Len(U32Be(v)) = 4
  BY <1>4, <1>5
<1>7. U32Be(v)[1] = le[5 - 1] /\ U32Be(v)[2] = le[5 - 2] /\ U32Be(v)[3] = le[5 - 3] /\ U32Be(v)[4] = le[5 - 4]
  BY <1>4
<1>8. 5 - 1 = 4 /\ 5 - 2 = 3 /\ 5 - 3 = 2 /\ 5 - 4 = 1
  OBVIOUS
<1> QED
  BY <1>1, <1>6, <1>7, <1>8

(* What four bytes are read as.                                             *)
LEMMA AsLe ==
    ASSUME NEW data \in Seq(Bytes), NEW at \in Nat, at + 4 <= Len(data)
    PROVE  /\ data[at + 1] \in Nat /\ data[at + 1] < 256 /\ data[at + 2] \in Nat /\ data[at + 2] < 256
           /\ data[at + 3] \in Nat /\ data[at + 3] < 256 /\ data[at + 4] \in Nat /\ data[at + 4] < 256
           /\ AsU32Le(data, at) \in Nat
           /\ data[at + 4] = 0 => AsU32Le(data, at) = FromBytes(data[at + 1], data[at + 2], data[at + 3])
           /\ AsU32Le(data, at) < Two24 => data[at + 4] = 0
           /\ IsProtocol(AsU32Le(data, at)) => data[at + 4] = 0 /\ data[at + 3] < 2
<1> DEFINE a == data[at + 1]
           b == data[at + 2]
           c == data[at + 3]
           d == data[at + 4]
           n == AsU32Le(data, at)
<1>1. /\ a \in Nat /\ a < 256 /\ b \in Nat /\ b < 256 /\ c \in Nat /\ c < 256
      /\ d \in Nat /\ d < 256
  <2>1. at + 1 \in 1..Len(data) /\ at + 2 \in 1..Len(data) /\ at + 3 \in 1..Len(data) /\ at + 4 \in 1..Len(data)
    BY LenProperties
  <2>2. a \in Bytes /\ b \in Bytes /\ c \in Bytes /\ d \in Bytes
    BY <2>1
  <2> QED
    BY <2>2, BytesAre
<1>2. n = IF d >= 128 THEN Huge ELSE (a + b * 256 + c * 65536) + d * 16777216
  BY SMT DEF AsU32Le, AsU24Le
<1> HIDE DEF a, b, c, d, n
<1>3. n \in Nat
  BY SMT, <1>1, <1>2 DEF Huge
<1>4. d = 0 => n = a + 256 * (b + 256 * c)
  BY SMT, <1>1, <1>2
<1>5. n < Two24 => d = 0
  BY SMT, <1>1, <1>2 DEF Two24, Huge
<1>6. IsProtocol(n) => d = 0 /\ c < 2
  <2>1. IsProtocol(n) => n <= 100000
    BY SMT DEF IsProtocol, MaxProtocol
  <2> QED
    BY SMT, <1>1, <1>2, <2>1 DEF Huge
<1> QED
  BY <1>1, <1>3, <1>4, <1>5, <1>6 DEF a, b, c, d, n, FromBytes

LEMMA AsBe ==
    ASSUME NEW data \in Seq(Bytes), NEW at \in Nat, at + 4 <= Len(data)
    PROVE  /\ AsU32Be(data, at) \in Nat
           /\ data[at + 1] = 0 => AsU32Be(data, at) = FromBytes(data[at + 4], data[at + 3], data[at + 2])
           /\ IsProtocol(AsU32Be(data, at)) => data[at + 1] = 0 /\ data[at + 2] < 2
<1> DEFINE s == Slice(data, at, 4)
           r == Backwards(s)
<1>1. /\ s \in Seq(Bytes) /\ Len(s) = 4 /\ s[1] = data[at + 1] /\ s[2] = data[at + 2]
      /\ s[3] = data[at + 3] /\ s[4] = data[at + 4]
  <2> DEFINE m == at + 1
             n == at + 4
  <2>1. s = SubSeq(data, m, n)
    BY DEF Slice
  <2>2. m \in Int /\ n \in Int /\ m <= n /\ n - m + 1 = 4
    OBVIOUS
  <2>3. \A i \in m..n : data[i] \in Bytes
    <3>1. \A i \in m..n : i \in 1..Len(data)
      BY LenProperties
    <3> QED
      BY <3>1, ElementOfSeq
  <2>4. /\ m + 1 - 1 = at + 1 /\ m + 2 - 1 = at + 2 /\ m + 3 - 1 = at + 3 /\ m + 4 - 1 = at + 4
        /\ 1 \in 1..4 /\ 2 \in 1..4 /\ 3 \in 1..4 /\ 4 \in 1..4
    OBVIOUS
  <2> HIDE DEF s, m, n
  <2>5. s \in Seq(Bytes) /\ Len(s) = 4 /\ \A i \in 1..n - m + 1 : s[i] = data[m + i - 1]
    BY <2>1, <2>2, <2>3, SubSeqProperties
  <2>6. \A i \in 1..4 : s[i] = data[m + i - 1]
    BY <2>2, <2>5
  <2>7. s[1] = data[at + 1] /\ s[2] = data[at + 2] /\ s[3] = data[at + 3] /\ s[4] = data[at + 4]
    BY <2>4, <2>6
  <2> QED
    BY <2>5, <2>7
<1> HIDE DEF s
<1>2. r \in Seq(Bytes) /\ Len(r) = 4 /\ r[1] = s[4] /\ r[2] = s[3] /\ r[3] = s[2] /\ r[4] = s[1]
  <2>1. DOMAIN s = 1..4
    BY <1>1
  <2>2. r = [i \in 1..4 |-> s[5 - i]]
    BY <1>1, <2>1 DEF Backwards
  <2>3. \A i \in 1..4 : 5 - i \in 1..4
    OBVIOUS
  <2>4. \A k \in 1..4 : s[k] \in Bytes
    <3>1. s \in Seq(Bytes) /\ Len(s) = 4
      BY <1>1
    <3> QED
      BY <3>1, ElementOfSeq
  <2>4a. \A i \in 1..4 : s[5 - i] \in Bytes
    BY <2>3, <2>4
  <2> HIDE DEF r
  <2>5. r \in Seq(Bytes) /\ Len(r) = 4
    BY <2>2, <2>4a
  <2>6. r[1] = s[5 - 1] /\ r[2] = s[5 - 2] /\ r[3] = s[5 - 3] /\ r[4] = s[5 - 4]
    BY <2>2
  <2>7. 5 - 1 = 4 /\ 5 - 2 = 3 /\ 5 - 3 = 2 /\ 5 - 4 = 1
    OBVIOUS
  <2> QED
    BY <2>5, <2>6, <2>7
<1>3. AsU32Be(data, at) = AsU32Le(r, 0)
  BY DEF AsU32Be, r, s
<1> HIDE DEF r
<1>4. 0 \in Nat /\ 0 + 4 <= Len(r) /\ 0 + 1 = 1 /\ 0 + 2 = 2 /\ 0 + 3 = 3 /\ 0 + 4 = 4
  BY <1>2
<1>5. /\ AsU32Le(r, 0) \in Nat
      /\ r[4] = 0 => AsU32Le(r, 0) = FromBytes(r[1], r[2], r[3])
      /\ IsProtocol(AsU32Le(r, 0)) => r[4] = 0 /\ r[3] < 2
  <2>1. r \in Seq(Bytes)
    BY <1>2
  <2>2. /\ AsU32Le(r, 0) \in Nat
        /\ r[0 + 4] = 0 => AsU32Le(r, 0) = FromBytes(r[0 + 1], r[0 + 2], r[0 + 3])
        /\ IsProtocol(AsU32Le(r, 0)) => r[0 + 4] = 0 /\ r[0 + 3] < 2
    BY <1>4, <2>1, AsLe
  <2> QED
    BY <1>4, <2>2
<1> QED
  BY <1>1, <1>2, <1>3, <1>5

(***************************************************************************)
(* Tokens                                                                  *)
(***************************************************************************)

(* A token that fits has a length below 2^24.                               *)
LEMMA FitsAs ==
    ASSUME NEW data \in Seq(Bytes), Len(data) < Two24, NEW at \in Nat, TokenFits(data, at)
    PROVE  /\ at + 4 <= Len(data) /\ data[at + 4] = 0
           /\ AsU32Le(data, at) = FromBytes(data[at + 1], data[at + 2], data[at + 3])
           /\ AsU32Le(data, at) \in Nat \ {0}
           /\ (at + 4) + AsU32Le(data, at) <= Len(data)
           /\ Behind(data, at) = (at + 4) + AsU32Le(data, at)
<1>1. Len(data) \in Nat
  OBVIOUS
<1>2. at + 4 <= Len(data)
  BY <1>1 DEF TokenFits, Has
<1>3. /\ AsU32Le(data, at) \in Nat
      /\ data[at + 4] = 0 => AsU32Le(data, at) = FromBytes(data[at + 1], data[at + 2], data[at + 3])
      /\ AsU32Le(data, at) < Two24 => data[at + 4] = 0
  BY <1>2, AsLe
<1> DEFINE n == AsU32Le(data, at)
<1>4. n # 0 /\ at + 4 <= Len(data) /\ n <= Len(data) - (at + 4)
  BY DEF TokenFits, Has
<1>5. Behind(data, at) = at + 4 + n
  BY DEF Behind
<1> HIDE DEF n
<1>6. n \in Nat
  BY <1>3 DEF n
<1>7. Two24 \in Nat
  BY SMT DEF Two24
<1>8. n < Two24 /\ (at + 4) + n <= Len(data)
  BY <1>1, <1>4, <1>6, <1>7
<1> QED
  BY <1>2, <1>3, <1>4, <1>5, <1>6, <1>8 DEF n

(* What the tokens of a Login are.                                          *)
AreTokens(chain, skin) ==
    /\ chain \in Seq(1..255) /\ skin \in Seq(1..255)
    /\ Len(chain) >= 1 /\ Len(skin) >= 1 /\ Len(chain) + Len(skin) <= MaxDecompressedSize

(* They are in the data from an offset on, as far as it goes.               *)
TokensAt(data, at, chain, skin) ==
    /\ Agrees(data, at, U32Le(Len(chain))) /\ Agrees(data, at + 4, chain)
    /\ Agrees(data, (at + 4) + Len(chain), U32Le(Len(skin)))
    /\ Agrees(data, (at + 8) + Len(chain), skin)
    /\ Len(data) <= ((at + 8) + Len(chain)) + Len(skin)

LEMMA TokensAre ==
    ASSUME NEW chain, NEW skin, AreTokens(chain, skin)
    PROVE  /\ chain \in Seq(Bytes) /\ skin \in Seq(Bytes)
           /\ Len(chain) \in Nat /\ Len(chain) >= 1 /\ Len(chain) < Two24
           /\ Len(skin) \in Nat /\ Len(skin) >= 1 /\ Len(skin) < Two24
           /\ (8 + Len(chain)) + Len(skin) \in Nat
           /\ ((16 + Len(chain)) + Len(skin)) < Two24
           /\ \A i \in 1..Len(chain) : chain[i] \in Nat /\ chain[i] # 0
           /\ \A i \in 1..Len(skin) : skin[i] \in Nat /\ skin[i] # 0
<1>1. chain \in Seq(1..255) /\ skin \in Seq(1..255)
  BY DEF AreTokens
<1>2. \A s \in Seq(1..255) : s \in Seq(Bytes) /\ Len(s) \in Nat /\ \A i \in 1..Len(s) : s[i] \in Nat /\ s[i] # 0
  <2> SUFFICES ASSUME NEW s \in Seq(1..255)
               PROVE  s \in Seq(Bytes) /\ Len(s) \in Nat /\ \A i \in 1..Len(s) : s[i] \in Nat /\ s[i] # 0
    OBVIOUS
  <2>1. Len(s) \in Nat /\ \A i \in 1..Len(s) : s[i] \in 1..255
    BY ElementOfSeq, LenProperties
  <2>2. \A i \in 1..Len(s) : s[i] \in Bytes /\ s[i] \in Nat /\ s[i] # 0
    <3>1. \A b \in 1..255 : b \in Bytes /\ b \in Nat /\ b # 0
      BY DEF Bytes
    <3> QED
      BY <2>1, <3>1
  <2>3. s = [i \in 1..Len(s) |-> s[i]]
    BY LenProperties
  <2>4. s \in Seq(Bytes)
    BY <2>1, <2>2, <2>3
  <2> QED
    BY <2>1, <2>2, <2>4
<1>3. Len(chain) >= 1 /\ Len(skin) >= 1 /\ Len(chain) + Len(skin) <= MaxDecompressedSize
  BY SMT DEF AreTokens
<1> DEFINE c == Len(chain)
           s == Len(skin)
<1>4. c \in Nat /\ s \in Nat
  BY <1>1, <1>2
<1> HIDE DEF c, s
<1>5. c >= 1 /\ s >= 1 /\ c + s <= 10485760
  BY SMT, <1>3 DEF c, s, MaxDecompressedSize
<1>6. c < Two24 /\ s < Two24 /\ (8 + c) + s \in Nat /\ ((16 + c) + s) < Two24
  BY SMT, <1>4, <1>5 DEF Two24
<1> QED
  BY <1>1, <1>2, <1>4, <1>5, <1>6 DEF c, s

(* Where the data has them.                                                 *)
LEMMA TokenBytes ==
    ASSUME NEW chain, NEW skin, AreTokens(chain, skin), NEW data \in Seq(Bytes), NEW at \in Nat, at <= 8,
           TokensAt(data, at, chain, skin)
    PROVE  /\ Len(data) \in Nat /\ Len(data) < Two24
           /\ Len(data) <= ((at + 8) + Len(chain)) + Len(skin)
           /\ at + 1 <= Len(data) => data[at + 1] = Low(Len(chain))
           /\ at + 2 <= Len(data) => data[at + 2] = Mid(Len(chain))
           /\ at + 3 <= Len(data) => data[at + 3] = High(Len(chain))
           /\ at + 4 <= Len(data) => data[at + 4] = 0
           /\ \A i \in 1..Len(chain) : (at + 4) + i <= Len(data) => data[(at + 4) + i] # 0
           /\ \A i \in 1..Len(skin) :
                  ((at + 8) + Len(chain)) + i <= Len(data) => data[((at + 8) + Len(chain)) + i] # 0
<1> DEFINE c == Len(chain)
           s == Len(skin)
           u == U32Le(c)
<1>1. /\ c \in Nat /\ c < Two24 /\ s \in Nat /\ (16 + c) + s < Two24
      /\ \A i \in 1..c : chain[i] # 0
      /\ \A i \in 1..s : skin[i] # 0
  BY TokensAre
<1>2. Len(u) = 4 /\ u[1] = Low(c) /\ u[2] = Mid(c) /\ u[3] = High(c) /\ u[4] = 0
  BY <1>1, LeBytes
<1>3. /\ \A i \in 1..Len(u) : at + i <= Len(data) => data[at + i] = u[i]
      /\ \A i \in 1..c : (at + 4) + i <= Len(data) => data[(at + 4) + i] = chain[i]
      /\ \A i \in 1..s : ((at + 8) + c) + i <= Len(data) => data[((at + 8) + c) + i] = skin[i]
      /\ Len(data) <= ((at + 8) + c) + s
  BY DEF TokensAt, Agrees
<1>4. Len(data) \in Nat
  OBVIOUS
<1>5. Two24 \in Nat
  BY SMT DEF Two24
<1> HIDE DEF c, s, u
<1>6. Len(data) < Two24
  BY <1>1, <1>3, <1>4, <1>5
<1>7. 1 \in 1..Len(u) /\ 2 \in 1..Len(u) /\ 3 \in 1..Len(u) /\ 4 \in 1..Len(u)
  BY <1>2
<1>8. /\ at + 1 <= Len(data) => data[at + 1] = Low(c)
      /\ at + 2 <= Len(data) => data[at + 2] = Mid(c)
      /\ at + 3 <= Len(data) => data[at + 3] = High(c)
      /\ at + 4 <= Len(data) => data[at + 4] = 0
  BY <1>2, <1>3, <1>7
<1>9. /\ \A i \in 1..c : (at + 4) + i <= Len(data) => data[(at + 4) + i] # 0
      /\ \A i \in 1..s : ((at + 8) + c) + i <= Len(data) => data[((at + 8) + c) + i] # 0
  BY <1>1, <1>3
<1> QED
  BY <1>3, <1>4, <1>6, <1>8, <1>9 DEF c, s

(* A length read where the chain's is ends in it.                           *)
LEMMA EndsWithin ==
    ASSUME NEW data \in Seq(Bytes), NEW at \in Nat, NEW k \in 1..5,
           at + k <= Len(data) => data[at + k] < 128
    PROVE  VarIntEnd(data, at) \in 0..k
<1> DEFINE ends == {i \in 1..VarIntBytes : Has(data, at, i) /\ data[at + i] < 128}
<1>1. Len(data) \in Nat
  OBVIOUS
<1>2. CASE ends = {}
  <2>1. VarIntEnd(data, at) = 0
    BY <1>2 DEF VarIntEnd
  <2> QED
    BY <2>1
<1>3. CASE ends # {}
  <2>1. ends \in SUBSET Nat
    BY DEF VarIntBytes
  <2>2. VarIntEnd(data, at) = CHOOSE i \in ends : \A j \in ends : i <= j
    BY <1>3 DEF VarIntEnd
  <2>3. \A i \in ends : i \in 1..5 /\ at + i <= Len(data)
    BY <1>1 DEF VarIntBytes, Has
  <2>4. at + k <= Len(data) => k \in ends
    BY <1>1 DEF VarIntBytes, Has
  <2> HIDE DEF ends
  <2>5. \E i \in ends : \A j \in ends : i <= j
    BY <1>3, <2>1, LeastNat
  <2>6. VarIntEnd(data, at) \in ends /\ \A j \in ends : VarIntEnd(data, at) <= j
    BY <2>2, <2>5
  <2>7. VarIntEnd(data, at) \in 1..5 /\ at + VarIntEnd(data, at) <= Len(data)
    BY <2>3, <2>6
  <2>8. VarIntEnd(data, at) <= k
    BY <1>1, <2>4, <2>6, <2>7
  <2> QED
    BY <2>7, <2>8
<1> QED
  BY <1>2, <1>3

(* A variable integer of a number below 2^24 that is not 0, by its bytes.   *)
IsShort(s, v) ==
    /\ s \in Seq(Bytes) /\ Len(s) \in 1..4
    /\ \A i \in 1..(Len(s) - 1) : s[i] \in Nat /\ s[i] >= 128 /\ s[i] < 256
    /\ s[Len(s)] \in Nat /\ s[Len(s)] < 128 /\ s[Len(s)] # 0
    /\ Len(s) = 1 => v = s[1]
    /\ Len(s) = 2 => v = (s[1] - 128) + 128 * s[2]
    /\ Len(s) = 3 => v = ((s[1] - 128) + 128 * (s[2] - 128)) + 16384 * s[3]
    /\ Len(s) = 4 => v >= Four7s

LEMMA ShortVarInt ==
    ASSUME NEW v \in Nat, v # 0, v < Two24
    PROVE  v \in Values /\ IsShort(VarInt(v), v)
<1> DEFINE s == VarInt(v)
           L == Len(s)
<1>1. v \in Values
  <2>1. v <= Huge
    BY SMT DEF Two24, Huge
  <2> QED
    BY <2>1, ValuesAre
<1>2. IsVarInt(s, v)
  BY <1>1, VarIntShape
<1> HIDE DEF s
<1>3. /\ s \in Seq(Bytes) /\ L \in 1..5 /\ \A i \in 1..(L - 1) : s[i] >= 128
      /\ s[L] < 128 /\ s[L] # 0 /\ ValueOf(s) = v
  BY <1>2 DEF IsVarInt
<1>4. \A i \in 1..L : s[i] \in Nat /\ s[i] < 256
  <2>1. \A i \in 1..L : s[i] \in Bytes
    BY <1>3, ElementOfSeq
  <2> QED
    BY <2>1, BytesAre
<1>5. L \in Nat /\ L >= 1 /\ L <= 5
  <2>1. L \in 1..5
    BY <1>3
  <2> HIDE DEF L
  <2> QED
    BY <2>1
<1> HIDE DEF L
<1>6. L \in 1..L /\ \A i \in 1..(L - 1) : i \in 1..L
  BY <1>5
<1>7. /\ \A i \in 1..(L - 1) : s[i] \in Nat /\ s[i] >= 128 /\ s[i] < 256
      /\ s[L] \in Nat /\ s[L] < 128 /\ s[L] # 0
  BY <1>3, <1>4, <1>6
<1>8. \A b : b \in Nat /\ b < 128 => b % 128 = b
  OBVIOUS
<1>9. \A b : b \in Nat /\ b >= 128 /\ b < 256 => b % 128 = b - 128
  OBVIOUS
<1>10. \A i \in 1..5 : Bits(s, i) = IF i < L THEN s[i] - 128 ELSE IF i = L THEN s[L] ELSE 0
  <2> SUFFICES ASSUME NEW i \in 1..5
               PROVE  Bits(s, i) = IF i < L THEN s[i] - 128 ELSE IF i = L THEN s[L] ELSE 0
    OBVIOUS
  <2>1. CASE i < L
    <3>1. i \in 1..(L - 1) /\ i <= L
      BY <1>5, <2>1
    <3> QED
      BY <1>7, <1>9, <2>1, <3>1 DEF Bits, L
  <2>2. CASE i = L
    <3>1. i <= L /\ ~(i < L)
      BY <1>5, <2>2
    <3> QED
      BY <1>7, <1>8, <2>2, <3>1 DEF Bits, L
  <2>3. CASE i > L
    <3>1. ~(i <= L) /\ ~(i < L) /\ i # L
      BY <1>5, <2>3
    <3> QED
      BY <3>1 DEF Bits, L
  <2> QED
    BY <1>5, <2>1, <2>2, <2>3
<1>11. \A i \in 1..5 : Bits(s, i) \in Nat
  <2> SUFFICES ASSUME NEW i \in 1..5 PROVE Bits(s, i) \in Nat
    OBVIOUS
  <2>1. i < L => i \in 1..(L - 1)
    BY <1>5
  <2> QED
    BY <1>5, <1>7, <1>10, <2>1
<1> DEFINE a == Bits(s, 1)
           b == Bits(s, 2)
           c == Bits(s, 3)
           d == Bits(s, 4)
           e == Bits(s, 5)
<1>12. a \in Nat /\ b \in Nat /\ c \in Nat /\ d \in Nat /\ e \in Nat
  BY <1>11
<1>13. v = a + 128 * (b + 128 * (c + 128 * (d + 128 * e)))
  BY <1>3 DEF ValueOf
<1>14. /\ L = 1 => a = s[1] /\ b = 0 /\ c = 0 /\ d = 0 /\ e = 0
       /\ L = 2 => a = s[1] - 128 /\ b = s[2] /\ c = 0 /\ d = 0 /\ e = 0
       /\ L = 3 => a = s[1] - 128 /\ b = s[2] - 128 /\ c = s[3] /\ d = 0 /\ e = 0
       /\ L = 4 => d = s[4] /\ d # 0
       /\ L = 5 => e = s[5] /\ e # 0
  BY <1>5, <1>7, <1>10
<1> HIDE DEF a, b, c, d, e
<1>15. L # 5
  <2> SUFFICES ASSUME e # 0 PROVE FALSE
    BY <1>14
  <2>1. e >= 1
    BY <1>12
  <2> QED
    BY SMT, <1>12, <1>13, <2>1 DEF Two24
<1>16. L = 4 => v >= Four7s
  BY SMT, <1>12, <1>13, <1>14 DEF Four7s
<1>17. /\ L = 1 => v = s[1]
       /\ L = 2 => v = (s[1] - 128) + 128 * s[2]
       /\ L = 3 => v = ((s[1] - 128) + 128 * (s[2] - 128)) + 16384 * s[3]
  <2>1. L = 1 => v = s[1]
    BY SMT, <1>12, <1>13, <1>14
  <2>2. L = 2 => v = (s[1] - 128) + 128 * s[2]
    BY SMT, <1>12, <1>13, <1>14
  <2>3. L = 3 => v = ((s[1] - 128) + 128 * (s[2] - 128)) + 16384 * s[3]
    <3> SUFFICES ASSUME L = 3 PROVE v = ((s[1] - 128) + 128 * (s[2] - 128)) + 16384 * s[3]
      OBVIOUS
    <3>1. a = s[1] - 128 /\ b = s[2] - 128 /\ c = s[3] /\ d = 0 /\ e = 0
      BY <1>14
    <3>2. v = (a + 128 * b) + 16384 * c
      BY SMT, <1>12, <1>13, <3>1
    <3> QED
      BY <3>1, <3>2
  <2> QED
    BY <2>1, <2>2, <2>3
<1>18. L \in 1..4
  BY <1>5, <1>15
<1>19. IsShort(s, v)
  BY <1>3, <1>7, <1>16, <1>17, <1>18 DEF IsShort, L
<1> QED
  BY <1>1, <1>19 DEF s

(* By its length, as numbers.                                               *)
LEMMA ShortCases ==
    ASSUME NEW v \in Nat, v # 0, v < Two24, NEW s, IsShort(s, v)
    PROVE  /\ s \in Seq(Bytes) /\ Len(s) \in Nat /\ Len(s) >= 1 /\ Len(s) <= 4
           /\ s[1] \in Nat /\ s[1] # 0 /\ s[1] < 256
           /\ \A i \in 1..Len(s) : s[i] \in Nat /\ s[i] # 0
           /\ Len(s) = 1 => v = s[1] /\ v < 128
           /\ Len(s) = 2 => /\ s[1] >= 128 /\ s[2] \in Nat /\ s[2] >= 1 /\ s[2] < 128
                            /\ v = (s[1] - 128) + 128 * s[2]
           /\ Len(s) = 3 => /\ s[1] >= 128 /\ s[2] \in Nat /\ s[2] >= 128 /\ s[2] < 256
                            /\ s[3] \in Nat /\ s[3] >= 1 /\ s[3] < 128
                            /\ v = ((s[1] - 128) + 128 * (s[2] - 128)) + 16384 * s[3]
           /\ Len(s) >= 2 => s[1] >= 128
           /\ v <= MaxProtocol => Len(s) <= 3
<1> DEFINE L == Len(s)
<1>1. /\ s \in Seq(Bytes) /\ L \in 1..4
      /\ \A i \in 1..(L - 1) : s[i] \in Nat /\ s[i] >= 128 /\ s[i] < 256
      /\ s[L] \in Nat /\ s[L] < 128 /\ s[L] # 0
      /\ L = 1 => v = s[1]
      /\ L = 2 => v = (s[1] - 128) + 128 * s[2]
      /\ L = 3 => v = ((s[1] - 128) + 128 * (s[2] - 128)) + 16384 * s[3]
      /\ L = 4 => v >= Four7s
  BY DEF IsShort
<1>2. v <= MaxProtocol => ~(v >= Four7s)
  BY SMT DEF MaxProtocol, Four7s
<1> HIDE DEF L
<1>3. L \in Nat /\ L >= 1 /\ L <= 4
  BY <1>1
<1>4. /\ L >= 2 => 1 \in 1..(L - 1)
      /\ L = 3 => 2 \in 1..(L - 1)
      /\ \A i \in 1..L : i \in 1..(L - 1) \/ i = L
      /\ L < 2 <=> L = 1
  BY <1>3
<1>5. \A i \in 1..L : s[i] \in Nat /\ s[i] # 0 /\ s[i] < 256
  <2>1. \A i \in 1..(L - 1) : s[i] # 0
    BY <1>1
  <2>2. s[L] < 256
    BY <1>1
  <2> QED
    BY <1>1, <1>4, <2>1, <2>2
<1>6. s[1] \in Nat /\ s[1] # 0 /\ s[1] < 256
  BY <1>3, <1>5
<1>7. L >= 2 => s[1] >= 128
  BY <1>1, <1>4
<1>8. L = 2 => s[2] \in Nat /\ s[2] >= 1 /\ s[2] < 128
  BY <1>1
<1>9. L = 3 => s[2] >= 128 /\ s[2] \in Nat /\ s[2] < 256 /\ s[3] \in Nat /\ s[3] >= 1 /\ s[3] < 128
  BY <1>1, <1>4
<1>10. v <= MaxProtocol => L <= 3
  BY <1>1, <1>2, <1>3
<1>11. L = 1 => v < 128
  BY <1>1
<1> QED
  BY <1>1, <1>3, <1>5, <1>6, <1>7, <1>8, <1>9, <1>10, <1>11 DEF L

(* A token is read where it is written, if it is all there.                 *)
LEMMA TokenRead ==
    ASSUME NEW data \in Seq(Bytes), Len(data) < Two24, NEW at \in Nat, NEW s \in Seq(Bytes),
           Len(s) # 0, Len(s) < Two24, Agrees(data, at, U32Le(Len(s))), Agrees(data, at + 4, s)
    PROVE  /\ TokenFits(data, at) <=> (at + 4) + Len(s) <= Len(data)
           /\ TokenFits(data, at) => Token(data, at) = s /\ Behind(data, at) = (at + 4) + Len(s)
<1> DEFINE n == Len(s)
           u == U32Le(n)
<1>1. n \in Nat /\ Len(data) \in Nat
  BY LenProperties
<1>2. n # 0 /\ n < Two24
  OBVIOUS
<1>3. Agrees(data, at, u)
  OBVIOUS
<1> HIDE DEF n
<1>4. /\ Len(u) = 4 /\ u[1] = Low(n) /\ u[2] = Mid(n) /\ u[3] = High(n) /\ u[4] = 0
      /\ n = FromBytes(Low(n), Mid(n), High(n))
  BY <1>1, <1>2, LeBytes, HighIs
<1> HIDE DEF u
<1>5. ASSUME at + 4 <= Len(data) PROVE AsU32Le(data, at) = n
  <2>1. /\ 1 \in 1..Len(u) /\ 2 \in 1..Len(u) /\ 3 \in 1..Len(u) /\ 4 \in 1..Len(u)
        /\ at + 1 <= Len(data) /\ at + 2 <= Len(data) /\ at + 3 <= Len(data)
    BY <1>1, <1>4, <1>5
  <2>2. data[at + 1] = Low(n) /\ data[at + 2] = Mid(n) /\ data[at + 3] = High(n) /\ data[at + 4] = 0
    BY <1>3, <1>4, <1>5, <2>1 DEF Agrees
  <2>3. data[at + 4] = 0 => AsU32Le(data, at) = FromBytes(data[at + 1], data[at + 2], data[at + 3])
    BY <1>5, AsLe
  <2> QED
    BY <1>4, <2>2, <2>3
<1>6. TokenFits(data, at) => (at + 4) + n <= Len(data)
  <2> SUFFICES ASSUME TokenFits(data, at) PROVE (at + 4) + n <= Len(data)
    OBVIOUS
  <2>1. at + 4 <= Len(data) /\ (at + 4) + AsU32Le(data, at) <= Len(data)
    BY FitsAs
  <2> QED
    BY <1>5, <2>1
<1>7. (at + 4) + n <= Len(data) => TokenFits(data, at)
  <2> SUFFICES ASSUME (at + 4) + n <= Len(data) PROVE TokenFits(data, at)
    OBVIOUS
  <2>1. at + 4 <= Len(data) /\ at <= Len(data) /\ 4 <= Len(data) - at /\ n <= Len(data) - (at + 4)
    BY <1>1
  <2>2. AsU32Le(data, at) = n
    BY <1>5, <2>1
  <2> QED
    BY <1>2, <2>1, <2>2 DEF TokenFits, Has
<1>8. ASSUME TokenFits(data, at) PROVE Token(data, at) = s /\ Behind(data, at) = (at + 4) + n
  <2>1. at + 4 <= Len(data) /\ (at + 4) + n <= Len(data)
    BY <1>1, <1>6, <1>8
  <2>2. AsU32Le(data, at) = n
    BY <1>5, <2>1
  <2>3. Begins(data, at + 4, s)
    BY <2>1 DEF Begins, n
  <2>4. at + 4 \in Nat
    OBVIOUS
  <2>5. Slice(data, at + 4, Len(s)) = s
    BY <2>3, <2>4, SliceIs
  <2> QED
    BY <2>2, <2>5 DEF Token, Behind, n
<1> QED
  BY <1>6, <1>7, <1>8 DEF n

(* Both tokens are read exactly when nothing is missing.                    *)
Both(data, at) == TokenFits(data, at) /\ TokenFits(data, Behind(data, at))

LEMMA TokensRead ==
    ASSUME NEW chain, NEW skin, AreTokens(chain, skin), NEW data \in Seq(Bytes), NEW at \in Nat, at <= 8,
           TokensAt(data, at, chain, skin)
    PROVE  /\ Both(data, at) <=> Len(data) = ((at + 8) + Len(chain)) + Len(skin)
           /\ Both(data, at) => Token(data, at) = chain /\ Token(data, Behind(data, at)) = skin
<1> DEFINE c == Len(chain)
           s == Len(skin)
           next == (at + 4) + c
<1>1. /\ chain \in Seq(Bytes) /\ skin \in Seq(Bytes)
      /\ c \in Nat /\ c >= 1 /\ c < Two24 /\ s \in Nat /\ s >= 1 /\ s < Two24
  BY TokensAre
<1>2. Len(data) \in Nat /\ Len(data) < Two24 /\ Len(data) <= ((at + 8) + c) + s
  BY TokenBytes
<1>3. Agrees(data, at, U32Le(c)) /\ Agrees(data, at + 4, chain)
  BY DEF TokensAt
<1>4. Agrees(data, next, U32Le(s)) /\ Agrees(data, (at + 8) + c, skin)
  BY DEF TokensAt
<1>5. next \in Nat /\ (at + 8) + c = next + 4 /\ ((at + 8) + c) + s = (next + 4) + s
  BY <1>1
<1>6. Agrees(data, next + 4, skin)
  BY <1>4, <1>5
<1>7. /\ TokenFits(data, at) <=> (at + 4) + c <= Len(data)
      /\ TokenFits(data, at) => Token(data, at) = chain /\ Behind(data, at) = (at + 4) + c
  <2>1. Len(chain) # 0 /\ Len(chain) < Two24
    BY <1>1
  <2> QED
    BY <1>1, <1>2, <1>3, <2>1, TokenRead
<1> HIDE DEF next
<1>8. /\ TokenFits(data, next) <=> (next + 4) + s <= Len(data)
      /\ TokenFits(data, next) => Token(data, next) = skin
  <2>1. Len(skin) # 0 /\ Len(skin) < Two24
    BY <1>1
  <2> QED
    BY <1>1, <1>2, <1>4, <1>5, <1>6, <2>1, TokenRead
<1>9. TokenFits(data, at) => Behind(data, at) = next
  BY <1>7 DEF next
<1>10. Both(data, at) => (next + 4) + s <= Len(data)
  BY <1>8, <1>9 DEF Both
<1>11. (next + 4) + s <= Len(data) => (at + 4) + c <= Len(data)
  BY <1>1, <1>2, <1>5 DEF next
<1>12. (next + 4) + s <= Len(data) => Both(data, at)
  BY <1>7, <1>8, <1>9, <1>11 DEF Both
<1>13. (next + 4) + s <= Len(data) <=> Len(data) = ((at + 8) + c) + s
  BY <1>1, <1>2, <1>5
<1>14. Both(data, at) => Token(data, at) = chain /\ Token(data, Behind(data, at)) = skin
  BY <1>7, <1>8, <1>9 DEF Both
<1> QED
  BY <1>10, <1>12, <1>13, <1>14 DEF c, s

(* Two tokens do not begin behind the first byte of the chain's length.     *)
LEMMA NoTokensInside ==
    ASSUME NEW chain, NEW skin, AreTokens(chain, skin), NEW data \in Seq(Bytes), NEW at \in Nat, at <= 8,
           TokensAt(data, at, chain, skin), NEW k \in 1..4
    PROVE  ~Both(data, at + k)
<1> SUFFICES ASSUME Both(data, at + k) PROVE FALSE
  OBVIOUS
<1> DEFINE c == Len(chain)
           s == Len(skin)
           n == AsU32Le(data, at + k)
           y == Behind(data, at + k)
<1>1. /\ Len(data) \in Nat /\ Len(data) < Two24 /\ Len(data) <= ((at + 8) + c) + s
      /\ \A i \in 1..c : (at + 4) + i <= Len(data) => data[(at + 4) + i] # 0
      /\ \A i \in 1..s : ((at + 8) + c) + i <= Len(data) => data[((at + 8) + c) + i] # 0
  BY TokenBytes
<1>2. c \in Nat /\ s \in Nat
  BY TokensAre
<1>3. at + k \in Nat /\ TokenFits(data, at + k) /\ TokenFits(data, y)
  BY DEF Both
<1>4. /\ (at + k) + 4 <= Len(data) /\ data[(at + k) + 4] = 0
      /\ n \in Nat /\ y = ((at + k) + 4) + n
  <2>1. n \in Nat \ {0}
    BY <1>1, <1>3, FitsAs
  <2> QED
    BY <1>1, <1>3, <2>1, FitsAs
<1> HIDE DEF n, y
<1>5. y \in Nat
  BY <1>3, <1>4
<1>6. y + 4 <= Len(data) /\ data[y + 4] = 0
  BY <1>1, <1>3, <1>5, FitsAs
<1> HIDE DEF c, s
<1>7. CASE k <= c
  <2>1. k \in 1..c /\ (at + k) + 4 = (at + 4) + k
    BY <1>2, <1>7
  <2> QED
    BY <1>1, <1>4, <2>1
<1>8. CASE k > c
  <2> DEFINE i == (k - c) + n
  <2>1. i \in Nat /\ i >= 1 /\ y + 4 = ((at + 8) + c) + i
    BY <1>2, <1>4, <1>8
  <2> HIDE DEF i
  <2>2. i \in 1..s
    BY <1>1, <1>2, <1>6, <2>1
  <2> QED
    BY <1>1, <1>6, <2>1, <2>2
<1> QED
  BY <1>2, <1>7, <1>8

(***************************************************************************)
(* A layout                                                                *)
(***************************************************************************)

(* Where the tokens begin in a layout, and what it needs but for what the   *)
(* tokens say.                                                              *)
StartOf(data, e) ==
    ProtocolEnd(data, e.protocol)
        + IF e.payload_len THEN VarIntEnd(data, ProtocolEnd(data, e.protocol)) ELSE 0
Opens(data, e) ==
    /\ ProtocolEnd(data, e.protocol) # 0 /\ IsProtocol(Protocol(data, e.protocol))
    /\ e.payload_len => PayloadFits(data, ProtocolEnd(data, e.protocol))
    /\ Both(data, StartOf(data, e))
ReadIn(data, e) ==
    [protocol |-> Protocol(data, e.protocol),
     chain |-> Token(data, StartOf(data, e)), skin |-> Token(data, Behind(data, StartOf(data, e)))]

LEMMA TryOpens ==
    ASSUME NEW data, NEW e, TryLayout(data, e) # NoLogin
    PROVE  Opens(data, e) /\ TryLayout(data, e) = ReadIn(data, e)
BY DEF TryLayout, Opens, StartOf, Both, ReadIn

LEMMA TryFinds ==
    ASSUME NEW data, NEW e, Opens(data, e),
           LET chain == Token(data, StartOf(data, e))
               skin == Token(data, Behind(data, StartOf(data, e)))
           IN  IsText(chain) /\ IsText(skin) /\ LooksLikeChain(chain) /\ LooksLikeJwt(skin)
    PROVE  TryLayout(data, e) # NoLogin
<1>1. TryLayout(data, e) = ReadIn(data, e)
  BY DEF TryLayout, Opens, StartOf, Both, ReadIn
<1>2. ReadIn(data, e).protocol # 0
  BY DEF ReadIn, Opens, IsProtocol
<1>3. NoLogin.protocol = 0
  BY DEF NoLogin
<1> QED
  BY <1>1, <1>2, <1>3

(* The bytes of a Login, as far as the data goes: its protocol, the length  *)
(* of its payload, its tokens.                                              *)
HeadOf(p, encoding) ==
    CASE encoding = "u32_le" -> U32Le(p) [] encoding = "u32_be" -> U32Be(p) [] OTHER -> VarInt(p)
Body(chain, skin) == (8 + Len(chain)) + Len(skin)
LoginAt(data, w, p, chain, skin, h, at) ==
    /\ data \in Seq(Bytes) /\ w \in Layouts /\ AreTokens(chain, skin)
    /\ p \in Nat /\ p # 0 /\ p <= MaxProtocol
    /\ h = Len(HeadOf(p, w.protocol)) /\ Agrees(data, 0, HeadOf(p, w.protocol))
    /\ w.payload_len => /\ at = h + Len(VarInt(Body(chain, skin)))
                        /\ Agrees(data, h, VarInt(Body(chain, skin)))
    /\ ~w.payload_len => at = h
    /\ TokensAt(data, at, chain, skin)

LEMMA ProtocolsAre ==
    ASSUME NEW p \in Nat, p # 0, p <= MaxProtocol
    PROVE  p < Two24 /\ IsProtocol(p) /\ p \in Values /\ High(p) < 2
<1>1. p < Two24 /\ p <= Huge
  BY SMT DEF MaxProtocol, Two24, Huge
<1>2. IsProtocol(p)
  BY DEF IsProtocol
<1>3. High(p) < 2
  <2>1. /\ Low(p) \in Nat /\ Mid(p) \in Nat /\ High(p) \in Nat
        /\ p = Low(p) + 256 * (Mid(p) + 256 * High(p))
    BY <1>1, HighIs DEF FromBytes
  <2> QED
    BY SMT, <2>1 DEF MaxProtocol
<1> QED
  BY <1>1, <1>2, <1>3, ValuesAre

LEMMA HeadsAre ==
    ASSUME NEW p \in Nat, p # 0, p <= MaxProtocol
    PROVE  /\ HeadOf(p, "u32_le") = U32Le(p) /\ HeadOf(p, "u32_be") = U32Be(p)
           /\ HeadOf(p, "varint") = VarInt(p)
           /\ \A encoding \in Encodings :
                  /\ HeadOf(p, encoding) \in Seq(Bytes)
                  /\ encoding # "varint" => Len(HeadOf(p, encoding)) = 4
                  /\ encoding = "varint" => Len(HeadOf(p, encoding)) \in 1..3
<1>1. /\ HeadOf(p, "u32_le") = U32Le(p) /\ HeadOf(p, "u32_be") = U32Be(p)
      /\ HeadOf(p, "varint") = VarInt(p)
  BY DEF HeadOf
<1>2. p < Two24
  BY ProtocolsAre
<1>3. U32Le(p) \in Seq(Bytes) /\ Len(U32Le(p)) = 4
  BY <1>2, LeBytes
<1>4. U32Be(p) \in Seq(Bytes) /\ Len(U32Be(p)) = 4
  BY <1>2, BeBytes
<1>5. VarInt(p) \in Seq(Bytes) /\ Len(VarInt(p)) \in 1..3
  <2>1. IsShort(VarInt(p), p)
    BY <1>2, ShortVarInt
  <2> DEFINE s == VarInt(p)
  <2> HIDE DEF s
  <2>2. IsShort(s, p)
    BY <2>1 DEF s
  <2>3. s \in Seq(Bytes) /\ Len(s) \in Nat /\ Len(s) >= 1 /\ Len(s) <= 3
    BY <1>2, <2>2, ShortCases
  <2>4. \A k \in Nat : k >= 1 /\ k <= 3 => k \in 1..3
    OBVIOUS
  <2> QED
    BY <2>3, <2>4 DEF s
<1> QED
  BY <1>1, <1>3, <1>4, <1>5 DEF Encodings

LEMMA LayoutsAre ==
    ASSUME NEW e \in Layouts
    PROVE  e.protocol \in Encodings /\ e.payload_len \in BOOLEAN
           /\ e.protocol \in {"u32_le", "u32_be", "varint"}
BY DEF Layouts, Encodings

(* The length of a payload.                                                 *)
LEMMA BodyIs ==
    ASSUME NEW chain, NEW skin, AreTokens(chain, skin)
    PROVE  LET b == Body(chain, skin)
           IN  b \in Nat /\ b # 0 /\ b < Two24 /\ b \in Values /\ IsShort(VarInt(b), b)
<1> DEFINE b == Body(chain, skin)
<1>1. b \in Nat /\ b # 0 /\ b < Two24
  <2> DEFINE c == Len(chain)
             s == Len(skin)
  <2>1. c \in Nat /\ s \in Nat /\ (16 + c) + s < Two24
    BY TokensAre
  <2>2. b = (8 + c) + s
    BY DEF Body
  <2>3. Two24 \in Nat
    BY SMT DEF Two24
  <2> HIDE DEF b, c, s
  <2> QED
    BY <2>1, <2>2, <2>3
<1> HIDE DEF b
<1>2. b \in Values /\ IsShort(VarInt(b), b)
  BY <1>1, ShortVarInt
<1> QED
  BY <1>1, <1>2 DEF b

LEMMA LoginIs ==
    ASSUME NEW data, NEW w, NEW p, NEW chain, NEW skin, NEW h, NEW at,
           LoginAt(data, w, p, chain, skin, h, at)
    PROVE  /\ h \in 1..4 /\ at \in Nat /\ at >= 1 /\ at <= 8 /\ Len(data) \in Nat /\ Len(data) < Two24
           /\ Len(data) <= ((at + 8) + Len(chain)) + Len(skin)
           /\ w.payload_len => at - h \in 1..4
           /\ (w.protocol # "varint" => h = 4) /\ (w.protocol = "varint" => h \in 1..3)
<1>1. /\ data \in Seq(Bytes) /\ AreTokens(chain, skin) /\ p \in Nat /\ p # 0 /\ p <= MaxProtocol
      /\ w.protocol \in Encodings /\ w.payload_len \in BOOLEAN
      /\ h = Len(HeadOf(p, w.protocol))
      /\ w.payload_len => at = h + Len(VarInt(Body(chain, skin)))
      /\ ~w.payload_len => at = h
      /\ TokensAt(data, at, chain, skin)
  BY LayoutsAre DEF LoginAt
<1>2. (w.protocol # "varint" => h = 4) /\ (w.protocol = "varint" => h \in 1..3)
  BY <1>1, HeadsAre
<1>3. h \in 1..4
  <2>1. h \in 1..3 => h \in 1..4
    OBVIOUS
  <2> QED
    BY <1>2, <2>1
<1>4. Len(VarInt(Body(chain, skin))) \in 1..4
  BY <1>1, BodyIs DEF IsShort
<1>5. at \in Nat /\ at >= 1 /\ at <= 8 /\ (w.payload_len => at - h \in 1..4)
  <2> DEFINE m == Len(VarInt(Body(chain, skin)))
  <2>1. m \in 1..4 /\ (w.payload_len => at = h + m) /\ (~w.payload_len => at = h)
    BY <1>1, <1>4
  <2> HIDE DEF m
  <2>2. CASE w.payload_len
    <3>1. at = h + m
      BY <2>1, <2>2
    <3>2. at \in Nat /\ at >= 1 /\ at <= 8 /\ at - h \in 1..4
      BY <1>3, <2>1, <3>1
    <3> QED
      BY <3>2
  <2>3. CASE ~w.payload_len
    <3>1. at = h
      BY <2>1, <2>3
    <3>2. at \in Nat /\ at >= 1 /\ at <= 8
      BY <1>3, <3>1
    <3> QED
      BY <2>3, <3>2
  <2> QED
    BY <2>2, <2>3
<1>6. Len(data) \in Nat /\ Len(data) < Two24 /\ Len(data) <= ((at + 8) + Len(chain)) + Len(skin)
  BY <1>1, <1>5, TokenBytes
<1> QED
  BY <1>2, <1>3, <1>5, <1>6

(* Where the payload's length is.                                           *)
LEMMA PayloadIs ==
    ASSUME NEW data, NEW w, NEW p, NEW chain, NEW skin, NEW h, NEW at,
           LoginAt(data, w, p, chain, skin, h, at), w.payload_len
    PROVE  LET b == Body(chain, skin)
               m == VarInt(b)
           IN  /\ data \in Seq(Bytes) /\ h \in Nat /\ at \in Nat /\ Len(m) = at - h /\ at = h + Len(m)
               /\ b \in Nat /\ b # 0 /\ b < Two24 /\ b \in Values /\ IsShort(m, b)
               /\ \A i \in 1..Len(m) : h + i <= Len(data) => data[h + i] = m[i]
               /\ Agrees(data, h, m)
               /\ Len(data) <= at + b
<1> DEFINE b == Body(chain, skin)
           m == VarInt(b)
<1>1. AreTokens(chain, skin) /\ data \in Seq(Bytes) /\ at = h + Len(m) /\ Agrees(data, h, m)
  BY DEF LoginAt
<1>2. b \in Nat /\ b # 0 /\ b < Two24 /\ b \in Values /\ IsShort(m, b)
  BY <1>1, BodyIs
<1>3. h \in 1..4 /\ at \in Nat /\ Len(data) <= ((at + 8) + Len(chain)) + Len(skin)
  BY LoginIs
<1>4. h \in Nat
  BY <1>3
<1>5. Len(m) \in Nat
  <2>1. Len(m) \in 1..4
    BY <1>2 DEF IsShort
  <2> HIDE DEF m
  <2> QED
    BY <2>1
<1>6. Len(m) = at - h
  <2> DEFINE k == Len(m)
  <2>1. k \in Nat /\ at = h + k
    BY <1>1, <1>5
  <2> HIDE DEF k
  <2>2. k = at - h
    BY <1>4, <2>1
  <2> QED
    BY <2>2 DEF k
<1>7. \A i \in 1..Len(m) : h + i <= Len(data) => data[h + i] = m[i]
  BY <1>1 DEF Agrees
<1>8. Len(data) <= at + b
  <2>1. Len(chain) \in Nat /\ Len(skin) \in Nat
    BY <1>1, TokensAre
  <2>2. ((at + 8) + Len(chain)) + Len(skin) = at + ((8 + Len(chain)) + Len(skin))
    BY <1>3, <2>1
  <2>3. b = (8 + Len(chain)) + Len(skin)
    BY DEF Body
  <2> HIDE DEF b
  <2> QED
    BY <1>3, <2>2, <2>3
<1> QED
  BY <1>1, <1>2, <1>3, <1>4, <1>6, <1>7, <1>8

(* A length that is not found where it is has lost its end.                 *)
LEMMA PayloadEnd ==
    ASSUME NEW data, NEW w, NEW p, NEW chain, NEW skin, NEW h, NEW at,
           LoginAt(data, w, p, chain, skin, h, at), w.payload_len, h <= Len(data),
           VarIntEnd(data, h) # 0
    PROVE  h + VarIntEnd(data, h) = at
<1> DEFINE b == Body(chain, skin)
           m == VarInt(b)
<1>1. /\ data \in Seq(Bytes) /\ h \in Nat /\ b \in Values /\ Agrees(data, h, m)
      /\ at = h + Len(m) /\ Len(m) = at - h /\ at \in Nat
  BY PayloadIs
<1>2. Len(data) \in Nat
  BY <1>1
<1> HIDE DEF b
<1>3. ~(Len(data) < h + Len(m))
  BY <1>1, VarIntCut
<1>4. Begins(data, h, m)
  <2> DEFINE k == Len(m)
  <2>1. ~(Len(data) < h + k) /\ k = at - h
    BY <1>1, <1>3
  <2> HIDE DEF k
  <2>2. h + k <= Len(data)
    BY <1>1, <1>2, <2>1
  <2> QED
    BY <1>1, <2>2 DEF Begins, k
<1>5. VarIntEnd(data, h) = Len(m)
  BY <1>1, <1>4, VarIntReads
<1> QED
  BY <1>1, <1>5

(* No token begins where it begins.                                         *)
LEMMA NoTokenInFront ==
    ASSUME NEW data, NEW w, NEW p, NEW chain, NEW skin, NEW h, NEW at,
           LoginAt(data, w, p, chain, skin, h, at), w.payload_len
    PROVE  ~TokenFits(data, h)
<1> SUFFICES ASSUME TokenFits(data, h) PROVE FALSE
  OBVIOUS
<1> DEFINE b == Body(chain, skin)
           m == VarInt(b)
           M == Len(m)
           len == Len(data)
<1>1. /\ data \in Seq(Bytes) /\ h \in Nat /\ at = h + M
      /\ b \in Nat /\ b # 0 /\ b < Two24 /\ IsShort(m, b)
      /\ \A i \in 1..M : h + i <= len => data[h + i] = m[i]
      /\ len <= at + b
  BY PayloadIs
<1>2. len < Two24 /\ len \in Nat
  BY LoginIs
<1> DEFINE n == AsU32Le(data, h)
<1>3. /\ h + 4 <= len /\ data[h + 4] = 0 /\ n = FromBytes(data[h + 1], data[h + 2], data[h + 3])
      /\ n \in Nat /\ (h + 4) + n <= len
  BY <1>1, <1>2, FitsAs
<1>4. /\ data[h + 1] \in Nat /\ data[h + 2] \in Nat /\ data[h + 3] \in Nat
  BY <1>1, <1>3, AsLe
<1> HIDE DEF b, n, m
<1>5. /\ M \in Nat /\ M >= 1 /\ M <= 4
      /\ \A i \in 1..M : m[i] \in Nat /\ m[i] # 0
      /\ M = 1 => b = m[1]
      /\ M = 2 => m[1] >= 128 /\ b = (m[1] - 128) + 128 * m[2]
      /\ M = 3 => /\ m[1] >= 128 /\ m[2] >= 128
                  /\ b = ((m[1] - 128) + 128 * (m[2] - 128)) + 16384 * m[3]
  BY <1>1, ShortCases
<1> HIDE DEF M, len
<1>6. \A i \in 1..M : data[h + i] = m[i]
  <2>1. \A i \in 1..M : h + i <= len
    BY <1>1, <1>2, <1>3, <1>5
  <2> QED
    BY <1>1, <2>1
<1>7. M # 4
  <2> SUFFICES ASSUME M = 4 PROVE FALSE
    OBVIOUS
  <2>1. 4 \in 1..M
    BY <1>5
  <2> QED
    BY <1>3, <1>5, <1>6, <2>1
<1>8. n >= b
  <2> DEFINE x == data[h + 1]
             y == data[h + 2]
             z == data[h + 3]
  <2>1. x \in Nat /\ y \in Nat /\ z \in Nat /\ n = x + 256 * (y + 256 * z)
    BY <1>3, <1>4 DEF FromBytes
  <2>2. /\ x = m[1] /\ (M >= 2 => y = m[2]) /\ (M >= 3 => z = m[3])
    <3>1. 1 \in 1..M /\ (M >= 2 => 2 \in 1..M) /\ (M >= 3 => 3 \in 1..M)
      BY <1>5
    <3> QED
      BY <1>6, <3>1
  <2> HIDE DEF x, y, z
  <2>3. CASE M = 1
    <3>1. b = x
      BY <1>5, <2>2, <2>3
    <3> QED
      BY SMT, <2>1, <3>1
  <2>4. CASE M = 2
    <3>1. x >= 128 /\ b = (x - 128) + 128 * y
      BY <1>5, <2>2, <2>4
    <3> QED
      BY SMT, <2>1, <3>1
  <2>5. CASE M = 3
    <3>1. x >= 128 /\ y >= 128 /\ b = ((x - 128) + 128 * (y - 128)) + 16384 * z
      BY <1>5, <2>2, <2>5
    <3> QED
      BY SMT, <2>1, <3>1
  <2> QED
    BY <1>5, <1>7, <2>3, <2>4, <2>5
<1>9. M <= 3
  BY <1>5, <1>7
<1> QED
  BY <1>1, <1>2, <1>3, <1>5, <1>8, <1>9

(* Where a layout ends its protocol as the Login does.                      *)
LEMMA FromHead ==
    ASSUME NEW data, NEW w, NEW p, NEW chain, NEW skin, NEW h, NEW at,
           LoginAt(data, w, p, chain, skin, h, at), NEW e \in Layouts, Opens(data, e),
           ProtocolEnd(data, e.protocol) = h, h <= Len(data)
    PROVE  e.payload_len = w.payload_len /\ StartOf(data, e) = at
<1>1. /\ data \in Seq(Bytes) /\ AreTokens(chain, skin) /\ w \in Layouts
      /\ TokensAt(data, at, chain, skin) /\ (~w.payload_len => at = h)
  BY DEF LoginAt
<1>2. h \in 1..4 /\ at \in Nat /\ at <= 8 /\ h \in Nat
  BY LoginIs
<1>3. e.payload_len \in BOOLEAN /\ w.payload_len \in BOOLEAN
  BY <1>1, LayoutsAre
<1>4. Both(data, StartOf(data, e))
  BY DEF Opens
<1>5. CASE ~e.payload_len
  <2>1. StartOf(data, e) = h
    BY <1>2, <1>5 DEF StartOf
  <2>2. TokenFits(data, h)
    BY <1>4, <2>1 DEF Both
  <2>3. ~w.payload_len
    BY <2>2, NoTokenInFront
  <2> QED
    BY <1>1, <1>3, <1>5, <2>1, <2>3
<1>6. CASE e.payload_len
  <2>1. StartOf(data, e) = h + VarIntEnd(data, h) /\ VarIntEnd(data, h) # 0
    BY <1>6 DEF StartOf, Opens, PayloadFits
  <2>2. CASE ~w.payload_len
    <3>1. at = h
      BY <1>1, <2>2
    <3>2. h + 4 <= Len(data) => data[h + 4] < 128
      <4>1. at + 4 <= Len(data) => data[at + 4] = 0
        BY <1>1, <1>2, TokenBytes
      <4>2. 0 < 128
        OBVIOUS
      <4> QED
        BY <3>1, <4>1, <4>2
    <3>3. VarIntEnd(data, h) \in 0..4
      <4>1. 4 \in 1..5
        OBVIOUS
      <4> QED
        BY <1>1, <1>2, <3>2, <4>1, EndsWithin
    <3>4. VarIntEnd(data, h) \in 1..4
      BY <2>1, <3>3
    <3>5. ~Both(data, at + VarIntEnd(data, h))
      BY <1>1, <1>2, <3>4, NoTokensInside
    <3> QED
      BY <1>4, <2>1, <3>1, <3>5
  <2>3. CASE w.payload_len
    <3>1. h + VarIntEnd(data, h) = at
      BY <2>1, <2>3, PayloadEnd
    <3> QED
      BY <1>3, <1>6, <2>1, <2>3, <3>1
  <2> QED
    BY <2>2, <2>3
<1> QED
  BY <1>5, <1>6

(***************************************************************************)
(* Layouts that do not take a Login of another for one of theirs           *)
(***************************************************************************)

(* What of a number's bytes is 0.                                           *)
LEMMA SmallBytes ==
    ASSUME NEW v \in Nat, v < Two24
    PROVE  /\ v < Two16 => High(v) = 0 /\ v = Low(v) + 256 * Mid(v)
           /\ v < 256 => Low(v) = v
<1> DEFINE a == Low(v)
           b == Mid(v)
           c == High(v)
<1>1. a \in Nat /\ b \in Nat /\ c \in Nat /\ v = a + 256 * (b + 256 * c)
  BY HighIs DEF FromBytes
<1> HIDE DEF a, b, c
<1>2. v < Two16 => c = 0
  BY SMT, <1>1 DEF Two16
<1>3. v < Two16 => v = a + 256 * b
  BY <1>1, <1>2
<1>4. v < 256 => a = v
  BY SMT, <1>1
<1> QED
  BY <1>2, <1>3, <1>4 DEF a, b, c

(* Where the chain's length and the texts are, in a Login.                  *)
LEMMA ChainIs ==
    ASSUME NEW data, NEW w, NEW p, NEW chain, NEW skin, NEW h, NEW at,
           LoginAt(data, w, p, chain, skin, h, at)
    PROVE  LET c == Len(chain)
               s == Len(skin)
           IN  /\ c \in Nat /\ c >= 1 /\ c < Two24 /\ s \in Nat /\ s >= 1
               /\ Low(c) \in Nat /\ Mid(c) \in Nat /\ High(c) \in Nat
               /\ c = FromBytes(Low(c), Mid(c), High(c))
               /\ at + 1 <= Len(data) => data[at + 1] = Low(c)
               /\ at + 2 <= Len(data) => data[at + 2] = Mid(c)
               /\ at + 3 <= Len(data) => data[at + 3] = High(c)
               /\ at + 4 <= Len(data) => data[at + 4] = 0
               /\ \A i \in 1..c : (at + 4) + i <= Len(data) => data[(at + 4) + i] # 0
               /\ \A i \in 1..s : ((at + 8) + c) + i <= Len(data) => data[((at + 8) + c) + i] # 0
<1>1. AreTokens(chain, skin) /\ data \in Seq(Bytes) /\ TokensAt(data, at, chain, skin)
  BY DEF LoginAt
<1>2. at \in Nat /\ at <= 8
  BY LoginIs
<1> DEFINE c == Len(chain)
           s == Len(skin)
<1>3. c \in Nat /\ c >= 1 /\ c < Two24 /\ s \in Nat /\ s >= 1
  BY <1>1, TokensAre
<1>4. /\ at + 1 <= Len(data) => data[at + 1] = Low(c)
      /\ at + 2 <= Len(data) => data[at + 2] = Mid(c)
      /\ at + 3 <= Len(data) => data[at + 3] = High(c)
      /\ at + 4 <= Len(data) => data[at + 4] = 0
      /\ \A i \in 1..c : (at + 4) + i <= Len(data) => data[(at + 4) + i] # 0
      /\ \A i \in 1..s : ((at + 8) + c) + i <= Len(data) => data[((at + 8) + c) + i] # 0
  BY <1>1, <1>2, TokenBytes
<1> HIDE DEF c, s
<1>5. /\ Low(c) \in Nat /\ Mid(c) \in Nat /\ High(c) \in Nat
      /\ c = FromBytes(Low(c), Mid(c), High(c))
  BY <1>3, HighIs
<1> QED
  BY <1>3, <1>4, <1>5 DEF c, s

(* Where a protocol ends, the data has it.                                  *)
LEMMA EndIn ==
    ASSUME NEW data \in Seq(Bytes), NEW encoding, ProtocolEnd(data, encoding) # 0
    PROVE  /\ ProtocolEnd(data, encoding) \in Nat /\ ProtocolEnd(data, encoding) <= Len(data)
           /\ encoding # "varint" => ProtocolEnd(data, encoding) = 4 /\ 4 <= Len(data)
           /\ encoding = "varint" => ProtocolEnd(data, encoding) = VarIntEnd(data, 0)
<1>1. CASE encoding = "varint"
  <2>1. 0 \in Nat
    OBVIOUS
  <2>2. VarIntEnd(data, 0) \in Nat /\ (VarIntEnd(data, 0) # 0 => 0 + VarIntEnd(data, 0) <= Len(data))
    BY <2>1, VarIntTypes
  <2>3. ProtocolEnd(data, encoding) = VarIntEnd(data, 0)
    BY <1>1 DEF ProtocolEnd
  <2> DEFINE k == VarIntEnd(data, 0)
  <2>4. k \in Nat /\ 0 + k <= Len(data)
    BY <2>2, <2>3
  <2> HIDE DEF k
  <2>5. k <= Len(data)
    BY <2>4
  <2> QED
    BY <1>1, <2>3, <2>4, <2>5 DEF k
<1>2. CASE encoding # "varint"
  <2>1. ProtocolEnd(data, encoding) = 4 /\ Has(data, 0, 4)
    BY <1>2 DEF ProtocolEnd
  <2>2. Len(data) \in Nat
    OBVIOUS
  <2>3. 4 <= Len(data)
    BY <2>1, <2>2 DEF Has
  <2> QED
    BY <1>2, <2>1, <2>3
<1> QED
  BY <1>1, <1>2

(* Behind a protocol that begins with 0 there is no variable one.           *)
LEMMA NoVarIntFirst ==
    ASSUME NEW data, NEW w, NEW p, NEW chain, NEW skin, NEW h, NEW at,
           LoginAt(data, w, p, chain, skin, h, at), w.protocol = "u32_be",
           NEW e, e.protocol = "varint"
    PROVE  ~Opens(data, e)
<1> SUFFICES ASSUME Opens(data, e) PROVE FALSE
  OBVIOUS
<1>1. data \in Seq(Bytes) /\ p \in Nat /\ p # 0 /\ p <= MaxProtocol /\ Agrees(data, 0, HeadOf(p, "u32_be"))
  BY DEF LoginAt
<1>2. ProtocolEnd(data, "varint") # 0 /\ IsProtocol(AsVarInt(data, 0))
  BY DEF Opens, Protocol
<1>3. 1 <= Len(data) /\ Len(data) \in Nat
  <2>1. ProtocolEnd(data, "varint") \in Nat /\ ProtocolEnd(data, "varint") <= Len(data)
    BY <1>1, <1>2, EndIn
  <2>2. Len(data) \in Nat
    BY <1>1
  <2> QED
    BY <1>2, <2>1, <2>2
<1>4. data[1] = 0
  <2>1. Agrees(data, 0, U32Be(p))
    BY <1>1, HeadsAre
  <2>2. Len(U32Be(p)) = 4 /\ U32Be(p)[1] = 0
    BY <1>1, ProtocolsAre, BeBytes
  <2>3. 1 \in 1..Len(U32Be(p)) /\ 0 + 1 = 1
    BY <2>2
  <2> QED
    BY <1>3, <2>1, <2>2, <2>3 DEF Agrees
<1>5. VarInt(0) = <<0>>
  <2>1. 0 \in Values /\ ~(0 > 127)
    BY Limits DEF Values
  <2> QED
    BY <2>1, VarIntWrites
<1>6. Begins(data, 0, VarInt(0))
  <2>1. Begins(data, 0, <<0>>)
    BY <1>3, <1>4 DEF Begins, Agrees
  <2> QED
    BY <1>5, <2>1
<1>7. AsVarInt(data, 0) = 0
  <2>1. 0 \in Nat /\ 0 \in Values
    BY Limits DEF Values
  <2> QED
    BY <1>1, <1>6, <2>1, VarIntReads
<1> QED
  BY <1>2, <1>7 DEF IsProtocol

(* What a Login that begins with a variable integer begins with.            *)
LEMMA VarIntHead ==
    ASSUME NEW data, NEW w, NEW p, NEW chain, NEW skin, NEW h, NEW at,
           LoginAt(data, w, p, chain, skin, h, at), w.protocol = "varint"
    PROVE  h \in 1..3 /\ \A i \in 1..h : i <= Len(data) => data[i] # 0
<1>1. p \in Nat /\ p # 0 /\ p <= MaxProtocol
  BY DEF LoginAt
<1>2. h = Len(VarInt(p)) /\ Agrees(data, 0, VarInt(p))
  BY <1>1, HeadsAre DEF LoginAt
<1>3. h \in 1..3
  BY LoginIs
<1>4. IsShort(VarInt(p), p) /\ p < Two24
  BY <1>1, ProtocolsAre, ShortVarInt
<1> DEFINE s == VarInt(p)
<1>5. h = Len(s) /\ IsShort(s, p) /\ \A i \in 1..Len(s) : 0 + i <= Len(data) => data[0 + i] = s[i]
  BY <1>2, <1>4 DEF Agrees
<1> HIDE DEF s
<1>6. \A i \in 1..Len(s) : s[i] # 0
  BY <1>1, <1>4, <1>5, ShortCases
<1>7. \A i \in 1..h : i <= Len(data) => data[i] # 0
  <2> SUFFICES ASSUME NEW i \in 1..h, i <= Len(data) PROVE data[i] # 0
    OBVIOUS
  <2>1. 0 + i = i /\ i \in 1..Len(s)
    BY <1>3, <1>5
  <2> QED
    BY <1>5, <1>6, <2>1
<1> QED
  BY <1>3, <1>7

(* It is not read as one that begins with four bytes.                       *)
LEMMA NoFixedFirst ==
    ASSUME NEW data, NEW w, NEW p, NEW chain, NEW skin, NEW h, NEW at,
           LoginAt(data, w, p, chain, skin, h, at), w.protocol = "varint",
           NEW e \in Layouts, e.protocol # "varint"
    PROVE  ~Opens(data, e)
<1> SUFFICES ASSUME Opens(data, e) PROVE FALSE
  OBVIOUS
<1> DEFINE c == Len(chain)
<1>1. /\ data \in Seq(Bytes) /\ AreTokens(chain, skin) /\ TokensAt(data, at, chain, skin)
      /\ w \in Layouts /\ (~w.payload_len => at = h)
  BY DEF LoginAt
<1>2. h \in 1..3 /\ \A i \in 1..h : i <= Len(data) => data[i] # 0
  BY VarIntHead
<1>3. at \in Nat /\ at <= 8 /\ Len(data) \in Nat /\ Len(data) < Two24
  BY LoginIs
<1>4. ProtocolEnd(data, e.protocol) = 4 /\ 4 <= Len(data)
  BY <1>1, EndIn DEF Opens
<1>5. data[1] # 0
  BY <1>2, <1>3, <1>4
<1>6. e.protocol = "u32_le"
  <2>1. CASE e.protocol = "u32_be"
    <3>1. IsProtocol(AsU32Be(data, 0))
      BY <2>1 DEF Opens, Protocol
    <3>2. data[0 + 1] = 0
      <4>1. 0 \in Nat /\ 0 + 4 <= Len(data)
        BY <1>4
      <4> QED
        BY <1>1, <3>1, <4>1, AsBe
    <3> QED
      BY <1>5, <3>2
  <2> QED
    BY <2>1, LayoutsAre
<1>7. data[4] = 0 /\ data[3] < 2 /\ data[3] \in Nat
  <2>1. IsProtocol(AsU32Le(data, 0))
    BY <1>6 DEF Opens, Protocol
  <2>2. 0 \in Nat /\ 0 + 4 <= Len(data) /\ 0 + 4 = 4 /\ 0 + 3 = 3
    BY <1>4
  <2>3. data[0 + 4] = 0 /\ data[0 + 3] < 2 /\ data[0 + 3] \in Nat
    BY <1>1, <2>1, <2>2, AsLe
  <2> QED
    BY <2>2, <2>3
<1>8. CASE at <= 3
  <2>1. at \in 1..3 /\ 4 - at \in 1..4 /\ 4 = at + (4 - at)
    <3>1. at >= 1
      BY LoginIs
    <3> QED
      BY <1>3, <1>8, <3>1
  <2>2. CASE ~e.payload_len
    <3>1. StartOf(data, e) = 4
      BY <1>4, <2>2 DEF StartOf
    <3>2. ~Both(data, at + (4 - at))
      BY <1>1, <1>3, <2>1, NoTokensInside
    <3> QED
      BY <2>1, <3>1, <3>2 DEF Opens
  <2>3. CASE e.payload_len
    <3> DEFINE k == VarIntEnd(data, 4)
    <3>1. StartOf(data, e) = 4 + k /\ k # 0
      BY <1>4, <2>3 DEF StartOf, Opens, PayloadFits
    <3>2. k \in 0..at
      <4>1. 4 + at <= Len(data) => data[4 + at] < 128
        <5>1. at + 4 = 4 + at /\ 0 < 128
          BY <1>3
        <5>2. at + 4 <= Len(data) => data[at + 4] = 0
          BY ChainIs
        <5> QED
          BY <5>1, <5>2
      <4>2. at \in 1..5 /\ 4 \in Nat
        BY <2>1
      <4> QED
        BY <1>1, <4>1, <4>2, EndsWithin
    <3> HIDE DEF k
    <3>3. (4 - at) + k \in 1..4 /\ 4 + k = at + ((4 - at) + k)
      BY <1>3, <1>8, <2>1, <3>1, <3>2
    <3>4. ~Both(data, at + ((4 - at) + k))
      BY <1>1, <1>3, <3>3, NoTokensInside
    <3> QED
      BY <3>1, <3>3, <3>4 DEF Opens
  <2>4. e.payload_len \in BOOLEAN
    BY LayoutsAre
  <2> QED
    BY <2>2, <2>3, <2>4
<1>9. CASE at > 3
  <2>1. w.payload_len
    BY <1>1, <1>2, <1>9
  <2> DEFINE b == Body(chain, skin)
             m == VarInt(b)
             M == Len(m)
  <2>2. /\ at = h + M /\ b \in Nat /\ b # 0 /\ b < Two24 /\ IsShort(m, b)
        /\ \A i \in 1..M : h + i <= Len(data) => data[h + i] = m[i]
    BY <2>1, PayloadIs
  <2> HIDE DEF b, m
  <2>3. /\ M \in Nat /\ M >= 1 /\ M <= 4 /\ \A i \in 1..M : m[i] \in Nat /\ m[i] # 0
        /\ M >= 2 => m[1] >= 128
    BY <2>2, ShortCases
  <2> HIDE DEF M
  <2>4. CASE h = 3
    <3>1. 1 \in 1..M /\ h + 1 = 4
      BY <2>3, <2>4
    <3> QED
      BY <1>4, <1>7, <2>2, <2>3, <3>1
  <2>5. CASE h = 2
    <3>1. M >= 2 /\ 1 \in 1..M /\ h + 1 = 3 /\ 3 <= Len(data)
      BY <1>3, <1>4, <1>9, <2>2, <2>3, <2>5
    <3>2. data[3] = m[1] /\ m[1] >= 128
      BY <2>2, <2>3, <3>1
    <3> QED
      BY <1>7, <3>2
  <2>6. CASE h = 1
    <3>1. 3 \in 1..M /\ h + 3 = 4
      BY <1>9, <2>2, <2>3, <2>6
    <3> QED
      BY <1>4, <1>7, <2>2, <2>3, <3>1
  <2> QED
    BY <1>2, <2>4, <2>5, <2>6
<1> QED
  BY <1>3, <1>8, <1>9

(* What a Login that begins with a little-endian protocol begins with.      *)
LEMMA LittleHead ==
    ASSUME NEW data, NEW w, NEW p, NEW chain, NEW skin, NEW h, NEW at,
           LoginAt(data, w, p, chain, skin, h, at), w.protocol = "u32_le"
    PROVE  /\ h = 4 /\ p \in Nat /\ p # 0 /\ p < Two24
           /\ 2 <= Len(data) => data[2] = Mid(p)
           /\ 3 <= Len(data) => data[3] = High(p)
           /\ 4 <= Len(data) => data[4] = 0
<1>1. p \in Nat /\ p # 0 /\ p <= MaxProtocol
  BY DEF LoginAt
<1>2. Agrees(data, 0, U32Le(p))
  BY <1>1, HeadsAre DEF LoginAt
<1>3. h = 4
  BY LoginIs
<1>4. p < Two24
  BY <1>1, ProtocolsAre
<1> DEFINE s == U32Le(p)
<1>5. Len(s) = 4 /\ s[2] = Mid(p) /\ s[3] = High(p) /\ s[4] = 0
  BY <1>1, <1>4, LeBytes
<1>6. \A i \in 1..Len(s) : 0 + i <= Len(data) => data[0 + i] = s[i]
  BY <1>2 DEF Agrees
<1> HIDE DEF s
<1>7. 2 \in 1..Len(s) /\ 3 \in 1..Len(s) /\ 4 \in 1..Len(s) /\ 0 + 2 = 2 /\ 0 + 3 = 3 /\ 0 + 4 = 4
  BY <1>5
<1>8. /\ 2 <= Len(data) => data[2] = s[2]
      /\ 3 <= Len(data) => data[3] = s[3]
      /\ 4 <= Len(data) => data[4] = s[4]
  BY <1>6, <1>7
<1> QED
  BY <1>1, <1>3, <1>4, <1>5, <1>8

(* No token begins in front of the length of its payload.                   *)
LEMMA NoTokenInHead ==
    ASSUME NEW data, NEW w, NEW p, NEW chain, NEW skin, NEW h, NEW at,
           LoginAt(data, w, p, chain, skin, h, at), w.protocol = "u32_le", w.payload_len,
           NEW x \in 1..4
    PROVE  ~TokenFits(data, x)
<1> SUFFICES ASSUME TokenFits(data, x) PROVE FALSE
  OBVIOUS
<1> DEFINE b == Body(chain, skin)
           m == VarInt(b)
           M == Len(m)
           c == Len(chain)
           s == Len(skin)
           len == Len(data)
           n == AsU32Le(data, x)
<1>1. /\ data \in Seq(Bytes) /\ at = h + M /\ b \in Nat /\ b # 0 /\ b < Two24 /\ IsShort(m, b)
      /\ \A i \in 1..M : h + i <= len => data[h + i] = m[i]
      /\ len <= at + b
  BY PayloadIs
<1>2. len < Two24 /\ len \in Nat
  BY LoginIs
<1>3. h = 4 /\ (4 <= len => data[4] = 0)
  BY LittleHead
<1>4. b = (8 + c) + s
  BY DEF Body
<1>5. /\ c \in Nat /\ c >= 1 /\ c < Two24 /\ s \in Nat /\ s >= 1 /\ Mid(c) \in Nat
      /\ at + 1 <= len => data[at + 1] = Low(c)
      /\ at + 2 <= len => data[at + 2] = Mid(c)
  BY ChainIs
<1>6. /\ x + 4 <= len /\ data[x + 4] = 0 /\ n = FromBytes(data[x + 1], data[x + 2], data[x + 3])
      /\ n \in Nat /\ (x + 4) + n <= len
  <2>1. x \in Nat
    OBVIOUS
  <2> QED
    BY <1>1, <1>2, <2>1, FitsAs
<1>7. data[x + 1] \in Nat /\ data[x + 2] \in Nat /\ data[x + 3] \in Nat
  <2>1. x \in Nat
    OBVIOUS
  <2> QED
    BY <1>1, <1>6, <2>1, AsLe
<1> HIDE DEF b, m, c, s, n
<1>8. /\ M \in Nat /\ M >= 1 /\ M <= 4
      /\ \A i \in 1..M : m[i] \in Nat /\ m[i] # 0
      /\ m[1] \in Nat /\ m[1] # 0 /\ m[1] < 256
      /\ M = 1 => b = m[1] /\ b < 128
      /\ M = 2 => /\ m[1] >= 128 /\ m[2] \in Nat /\ m[2] >= 1 /\ m[2] < 128
                  /\ b = (m[1] - 128) + 128 * m[2]
  BY <1>1, ShortCases
<1> HIDE DEF M, len
<1>9. 1 \in 1..M /\ (M >= 2 => 2 \in 1..M) /\ (M >= 3 => 3 \in 1..M)
  BY <1>8
<1>10. M = 1 => Low(c) = c
  <2>1. c < 256 => Low(c) = c
    BY <1>5, SmallBytes
  <2> QED
    BY <1>4, <1>5, <1>8, <2>1
<1>11. CASE x = 4
  <2>1. TokenFits(data, h)
    BY <1>3, <1>11
  <2> QED
    BY <2>1, NoTokenInFront
<1>12. CASE x = 1
  <2>1. data[h + 1] = m[1] /\ h + 1 = x + 4
    BY <1>1, <1>3, <1>6, <1>9, <1>12
  <2> QED
    BY <1>6, <1>8, <2>1
<1>13. CASE x = 2
  <2>1. CASE M = 1
    <3>1. at + 1 = x + 4
      BY <1>1, <1>3, <1>13, <2>1
    <3>2. data[x + 4] = c
      BY <1>5, <1>6, <1>10, <2>1, <3>1
    <3> QED
      BY <1>5, <1>6, <3>2
  <2>2. CASE M >= 2
    <3>1. data[h + 2] = m[2] /\ h + 2 = x + 4 /\ m[2] # 0
      BY <1>1, <1>3, <1>6, <1>8, <1>9, <1>13, <2>2
    <3> QED
      BY <1>6, <3>1
  <2> QED
    BY <1>8, <2>1, <2>2
<1>14. CASE x = 3
  <2>1. data[h + 1] = m[1] /\ h + 1 = x + 2
    BY <1>1, <1>2, <1>3, <1>6, <1>9, <1>14
  <2>2. CASE M >= 3
    <3>1. data[h + 3] = m[3] /\ h + 3 = x + 4 /\ m[3] # 0
      BY <1>1, <1>3, <1>6, <1>8, <1>9, <1>14, <2>2
    <3> QED
      BY <1>6, <3>1
  <2>3. CASE M < 3
    <3> DEFINE y == data[x + 1]
               z == data[x + 2]
               v == data[x + 3]
    <3>1. y \in Nat /\ z \in Nat /\ v \in Nat /\ n = y + 256 * (z + 256 * v) /\ z = m[1]
      BY <1>6, <1>7, <2>1 DEF FromBytes
    <3> HIDE DEF y, z, v
    <3>2. n >= b
      <4>1. CASE M = 1
        BY SMT, <1>8, <3>1, <4>1
      <4>2. CASE M = 2
        <5>1. data[h + 2] = m[2] /\ h + 2 = x + 3
          BY <1>1, <1>2, <1>3, <1>6, <1>9, <1>14, <4>2
        <5>2. v = m[2]
          BY <5>1 DEF v
        <5>3. z >= 128 /\ b = (z - 128) + 128 * v
          BY <1>8, <3>1, <4>2, <5>2
        <5> QED
          BY SMT, <3>1, <5>3
      <4> QED
        BY <1>8, <2>3, <4>1, <4>2
    <3> QED
      BY <1>1, <1>2, <1>3, <1>6, <1>8, <1>14, <2>3, <3>2
  <2> QED
    BY <1>8, <2>2, <2>3
<1> QED
  BY <1>11, <1>12, <1>13, <1>14

(* Numbers of a Login that leave the third of their four bytes 0.           *)
TwoBytesEach(p, chain) == p < Two16 /\ Len(chain) < Two16

(* Two tokens do not begin in front of the chain's length.                  *)
LEMMA NoTokensInFront ==
    ASSUME NEW data, NEW w, NEW p, NEW chain, NEW skin, NEW h, NEW at,
           LoginAt(data, w, p, chain, skin, h, at), w.protocol = "u32_le", ~w.payload_len,
           TwoBytesEach(p, chain), NEW x \in 1..3
    PROVE  ~Both(data, x)
<1> SUFFICES ASSUME Both(data, x) PROVE FALSE
  OBVIOUS
<1> DEFINE c == Len(chain)
           s == Len(skin)
           len == Len(data)
           n == AsU32Le(data, x)
           y == Behind(data, x)
<1>1. data \in Seq(Bytes) /\ at = h
  BY DEF LoginAt
<1>2. len < Two24 /\ len \in Nat /\ len <= ((at + 8) + c) + s
  BY LoginIs
<1>3. /\ h = 4 /\ p \in Nat /\ p < Two24
      /\ 2 <= len => data[2] = Mid(p)
      /\ 3 <= len => data[3] = High(p)
      /\ 4 <= len => data[4] = 0
  BY LittleHead
<1>4. High(p) = 0 /\ Mid(p) \in Nat /\ Mid(p) < 256
  BY <1>3, SmallBytes, HighIs DEF TwoBytesEach
<1>5. at = 4
  BY <1>1, <1>3
<1>6. /\ c \in Nat /\ c >= 1 /\ c < Two24 /\ s \in Nat /\ s >= 1
      /\ Low(c) \in Nat /\ Mid(c) \in Nat
      /\ at + 1 <= len => data[at + 1] = Low(c)
      /\ at + 2 <= len => data[at + 2] = Mid(c)
      /\ at + 3 <= len => data[at + 3] = High(c)
      /\ \A i \in 1..c : (at + 4) + i <= len => data[(at + 4) + i] # 0
      /\ \A i \in 1..s : ((at + 8) + c) + i <= len => data[((at + 8) + c) + i] # 0
  BY ChainIs
<1>7. High(c) = 0 /\ c = Low(c) + 256 * Mid(c)
  <2>1. c < Two16
    BY DEF TwoBytesEach
  <2> QED
    BY <1>6, <2>1, SmallBytes
<1>8. x \in Nat /\ TokenFits(data, x) /\ TokenFits(data, y)
  BY DEF Both
<1>9. /\ x + 4 <= len /\ data[x + 4] = 0 /\ n = FromBytes(data[x + 1], data[x + 2], data[x + 3])
      /\ n \in Nat /\ n # 0 /\ (x + 4) + n <= len /\ y = (x + 4) + n
  <2>1. n \in Nat \ {0}
    BY <1>1, <1>2, <1>8, FitsAs
  <2> QED
    BY <1>1, <1>2, <1>8, <2>1, FitsAs
<1> HIDE DEF n, y
<1>10. y \in Nat
  BY <1>8, <1>9
<1>11. y + 4 <= len /\ data[y + 4] = 0
  BY <1>1, <1>2, <1>8, <1>10, FitsAs
<1> HIDE DEF c, s, len
<1>12. \A i \in 1..s : y + 4 # (12 + c) + i
  <2> SUFFICES ASSUME NEW i \in 1..s, y + 4 = (12 + c) + i PROVE FALSE
    OBVIOUS
  <2>1. ((at + 8) + c) + i = y + 4
    BY <1>5, <1>6
  <2> QED
    BY <1>6, <1>11, <2>1
<1>13. y + 4 > 12 + c => FALSE
  <2> SUFFICES ASSUME y + 4 > 12 + c PROVE FALSE
    OBVIOUS
  <2> DEFINE i == (y + 4) - (12 + c)
  <2>1. i \in Nat /\ i >= 1 /\ i <= s /\ y + 4 = (12 + c) + i
    BY <1>2, <1>5, <1>6, <1>10, <1>11
  <2> HIDE DEF i
  <2>2. i \in 1..s
    BY <1>6, <2>1
  <2> QED
    BY <1>12, <2>1, <2>2
<1>14. CASE x = 1
  <2>1. n = Mid(p)
    <3>1. data[x + 1] = Mid(p) /\ data[x + 2] = 0 /\ data[x + 3] = 0
      BY <1>2, <1>3, <1>4, <1>9, <1>14
    <3> QED
      BY <1>4, <1>9, <3>1 DEF FromBytes
  <2>2. Low(c) = 0
    BY <1>5, <1>6, <1>9, <1>14
  <2>3. c >= 256
    BY <1>6, <1>7, <2>2
  <2>4. n + 1 \in 1..c /\ (at + 4) + (n + 1) = y + 4
    BY <1>4, <1>5, <1>6, <1>9, <1>14, <2>1, <2>3
  <2> QED
    BY <1>6, <1>11, <2>4
<1>15. CASE x = 2
  <2>1. Mid(c) = 0
    BY <1>5, <1>6, <1>9, <1>15
  <2>2. n = 65536 * c
    <3>1. data[x + 1] = 0 /\ data[x + 2] = 0 /\ data[x + 3] = Low(c)
      BY <1>2, <1>3, <1>4, <1>5, <1>6, <1>9, <1>15
    <3>2. Low(c) = c
      BY <1>6, <1>7, <2>1
    <3>3. n = 0 + 256 * (0 + 256 * c)
      BY <1>9, <3>1, <3>2 DEF FromBytes
    <3> QED
      BY SMT, <1>6, <3>3
  <2>3. y + 4 > 12 + c
    BY SMT, <1>6, <1>9, <1>15, <2>2
  <2> QED
    BY <1>13, <2>3
<1>16. CASE x = 3
  <2>1. n = 256 * c
    <3>1. data[x + 1] = 0 /\ data[x + 2] = Low(c) /\ data[x + 3] = Mid(c)
      BY <1>2, <1>3, <1>4, <1>5, <1>6, <1>9, <1>16
    <3>2. n = 0 + 256 * (Low(c) + 256 * Mid(c))
      BY <1>9, <3>1 DEF FromBytes
    <3>3. n = 256 * (Low(c) + 256 * Mid(c))
      BY <1>6, <3>2
    <3> QED
      BY <1>7, <3>3
  <2>2. y + 4 > 12 + c
    BY <1>6, <1>9, <1>16, <2>1
  <2> QED
    BY <1>13, <2>2
<1> QED
  BY <1>14, <1>15, <1>16

(* A variable protocol is found in four little-endian bytes, but nothing of *)
(* a Login that begins with them behind it, unless the tokens are the same. *)
LEMMA VarIntInLittle ==
    ASSUME NEW data, NEW w, NEW p, NEW chain, NEW skin, NEW h, NEW at,
           LoginAt(data, w, p, chain, skin, h, at), w.protocol = "u32_le",
           w.payload_len \/ TwoBytesEach(p, chain),
           NEW e \in Layouts, e.protocol = "varint", Opens(data, e)
    PROVE  StartOf(data, e) = at /\ (w.payload_len => e.payload_len)
<1> DEFINE j == ProtocolEnd(data, e.protocol)
<1>1. /\ data \in Seq(Bytes) /\ w \in Layouts /\ (~w.payload_len => at = h)
  BY DEF LoginAt
<1>2. h = 4 /\ (4 <= Len(data) => data[4] = 0)
  BY LittleHead
<1>3. Both(data, StartOf(data, e)) /\ j # 0
  BY DEF Opens
<1>4. j = VarIntEnd(data, 0) /\ j \in Nat /\ j <= Len(data)
  BY <1>1, <1>3, EndIn
<1>5. j \in 1..4
  <2>1. 0 + 4 <= Len(data) => data[0 + 4] < 128
    <3>1. 0 + 4 = 4 /\ 0 < 128
      OBVIOUS
    <3> QED
      BY <1>2, <3>1
  <2>2. 0 \in Nat /\ 4 \in 1..5
    OBVIOUS
  <2>3. VarIntEnd(data, 0) \in 0..4
    BY <1>1, <2>1, <2>2, EndsWithin
  <2> HIDE DEF j
  <2>4. j \in 0..4 /\ j # 0
    BY <1>3, <1>4, <2>3 DEF j
  <2> QED
    BY <2>4
<1>6. CASE j = 4
  <2>1. e.payload_len = w.payload_len /\ StartOf(data, e) = at
    BY <1>2, <1>4, <1>6, FromHead
  <2> QED
    BY <2>1
<1>7. CASE j # 4
  <2> DEFINE x == StartOf(data, e)
  <2>1. x \in 1..4
    <3>1. CASE ~e.payload_len
      <4>1. x = j + 0
        BY <3>1 DEF StartOf
      <4> HIDE DEF x, j
      <4> QED
        BY <1>5, <4>1
    <3>2. CASE e.payload_len
      <4> DEFINE k == VarIntEnd(data, j)
      <4>1. x = j + k
        BY <3>2 DEF StartOf
      <4>2. k \in 0..(4 - j)
        <5> HIDE DEF x, j, k
        <5>1. 4 - j \in 1..5 /\ j + (4 - j) = 4 /\ j \in Nat
          BY <1>5, <1>7
        <5>2. j + (4 - j) <= Len(data) => data[j + (4 - j)] < 128
          <6>1. 0 < 128
            OBVIOUS
          <6> QED
            BY <1>2, <5>1, <6>1
        <5> QED
          BY <1>1, <5>1, <5>2, EndsWithin DEF k
      <4> HIDE DEF x, j, k
      <4> QED
        BY <1>5, <4>1, <4>2
    <3>3. e.payload_len \in BOOLEAN
      BY LayoutsAre
    <3> QED
      BY <3>1, <3>2, <3>3
  <2>2. Both(data, x)
    BY <1>3
  <2> HIDE DEF x, j
  <2>3. CASE w.payload_len
    <3>1. ~TokenFits(data, x)
      BY <2>1, <2>3, NoTokenInHead
    <3> QED
      BY <2>2, <3>1 DEF Both
  <2>4. CASE ~w.payload_len
    <3>1. x \notin 1..3
      BY <2>2, <2>4, NoTokensInFront
    <3>2. x = 4
      BY <2>1, <3>1
    <3>3. StartOf(data, e) = at
      BY <1>1, <1>2, <2>4, <3>2 DEF x
    <3> QED
      BY <2>4, <3>3
  <2> QED
    BY <2>3, <2>4
<1> QED
  BY <1>6, <1>7

(***************************************************************************)
(* What is read of a Login                                                 *)
(***************************************************************************)

(* Its tokens are found where they are, or not at all.                      *)
LEMMA Alone ==
    ASSUME NEW data, NEW w, NEW p, NEW chain, NEW skin, NEW h, NEW at,
           LoginAt(data, w, p, chain, skin, h, at), NEW e \in Layouts, Opens(data, e),
           \/ w.payload_len \/ TwoBytesEach(p, chain)
           \/ w.protocol # "u32_le" \/ e.protocol # "varint"
    PROVE  /\ StartOf(data, e) = at
           /\ w.protocol = "varint" => e.protocol = "varint"
           /\ w.protocol = "u32_be" => e.protocol # "varint"
           /\ w.payload_len => e.payload_len
<1>1. /\ data \in Seq(Bytes) /\ p \in Nat /\ p # 0 /\ p <= MaxProtocol
      /\ h = Len(HeadOf(p, w.protocol)) /\ Agrees(data, 0, HeadOf(p, w.protocol))
  BY DEF LoginAt
<1>2. ProtocolEnd(data, e.protocol) # 0
  BY DEF Opens
<1>3. CASE w.protocol = "varint"
  <2>1. e.protocol = "varint"
    BY <1>3, NoFixedFirst
  <2>2. /\ ProtocolEnd(data, e.protocol) = VarIntEnd(data, 0)
        /\ ProtocolEnd(data, e.protocol) \in Nat /\ ProtocolEnd(data, e.protocol) <= Len(data)
    BY <1>1, <1>2, <2>1, EndIn
  <2>3. h = Len(VarInt(p)) /\ Agrees(data, 0, VarInt(p)) /\ p \in Values /\ h \in 1..3
    BY <1>1, <1>3, HeadsAre, ProtocolsAre, VarIntHead
  <2>4. 0 \in Nat /\ 0 <= Len(data) /\ Len(data) \in Nat /\ 0 + Len(VarInt(p)) = h
    BY <1>1, <2>3
  <2>5. ~(Len(data) < 0 + Len(VarInt(p)))
    BY <1>1, <1>2, <2>2, <2>3, <2>4, VarIntCut
  <2>6. h <= Len(data)
    BY <2>3, <2>4, <2>5
  <2>7. VarIntEnd(data, 0) = h
    <3>1. Begins(data, 0, VarInt(p))
      BY <2>3, <2>4, <2>6 DEF Begins
    <3> QED
      BY <1>1, <2>3, <2>4, <3>1, VarIntReads
  <2>8. e.payload_len = w.payload_len /\ StartOf(data, e) = at
    BY <2>2, <2>6, <2>7, FromHead
  <2> QED
    BY <1>3, <2>1, <2>8
<1>4. CASE w.protocol # "varint" /\ e.protocol # "varint"
  <2>1. h = 4
    BY <1>4, LoginIs
  <2>2. ProtocolEnd(data, e.protocol) = h /\ h <= Len(data)
    BY <1>1, <1>2, <1>4, <2>1, EndIn
  <2>3. e.payload_len = w.payload_len /\ StartOf(data, e) = at
    BY <2>2, FromHead
  <2> QED
    BY <1>4, <2>3
<1>5. CASE w.protocol = "u32_be" /\ e.protocol = "varint"
  BY <1>5, NoVarIntFirst
<1>6. CASE w.protocol = "u32_le" /\ e.protocol = "varint"
  <2>1. StartOf(data, e) = at /\ (w.payload_len => e.payload_len)
    BY <1>6, VarIntInLittle
  <2> QED
    BY <1>6, <2>1
<1>7. w.protocol \in {"u32_le", "u32_be", "varint"}
  BY LayoutsAre DEF LoginAt
<1> QED
  BY <1>3, <1>4, <1>5, <1>6, <1>7

(* Nothing of it is missing.                                                *)
Whole(data, chain, skin, at) == Len(data) = ((at + 8) + Len(chain)) + Len(skin)

(* Its own layout reads all of it.                                          *)
LEMMA OwnLayout ==
    ASSUME NEW data, NEW w, NEW p, NEW chain, NEW skin, NEW h, NEW at,
           LoginAt(data, w, p, chain, skin, h, at), Whole(data, chain, skin, at)
    PROVE  Opens(data, w) /\ StartOf(data, w) = at /\ Protocol(data, w.protocol) = p
<1>1. /\ data \in Seq(Bytes) /\ w \in Layouts /\ AreTokens(chain, skin)
      /\ p \in Nat /\ p # 0 /\ p <= MaxProtocol
      /\ h = Len(HeadOf(p, w.protocol)) /\ Agrees(data, 0, HeadOf(p, w.protocol))
      /\ TokensAt(data, at, chain, skin) /\ (~w.payload_len => at = h)
  BY DEF LoginAt
<1>2. h \in 1..4 /\ at \in Nat /\ at <= 8 /\ Len(data) \in Nat
      /\ (w.protocol # "varint" => h = 4) /\ (w.payload_len => at - h \in 1..4)
  BY LoginIs
<1>3. Len(chain) \in Nat /\ Len(chain) >= 1 /\ Len(skin) \in Nat /\ Len(skin) >= 1
  BY <1>1, TokensAre
<1>4. at + 10 <= Len(data) /\ 4 <= Len(data) /\ h <= Len(data)
  BY <1>2, <1>3 DEF Whole
<1>5. p < Two24 /\ IsProtocol(p) /\ p \in Values
  BY <1>1, ProtocolsAre
<1> DEFINE s == HeadOf(p, w.protocol)
<1>6. \A i \in 1..h : data[i] = s[i]
  <2> SUFFICES ASSUME NEW i \in 1..h PROVE data[i] = s[i]
    OBVIOUS
  <2>1. i \in 1..Len(s) /\ 0 + i = i /\ 0 + i <= Len(data)
    BY <1>1, <1>2, <1>4
  <2> QED
    BY <1>1, <2>1 DEF Agrees
<1>7. p = FromBytes(Low(p), Mid(p), High(p))
  BY <1>1, <1>5, HighIs
<1>8. ProtocolEnd(data, w.protocol) = h /\ Protocol(data, w.protocol) = p
  <2>1. CASE w.protocol = "u32_le"
    <3>1. h = 4 /\ 1 \in 1..h /\ 2 \in 1..h /\ 3 \in 1..h /\ 4 \in 1..h
      BY <1>2, <2>1
    <3>2. data[1] = Low(p) /\ data[2] = Mid(p) /\ data[3] = High(p) /\ data[4] = 0
      BY <1>1, <1>5, <1>6, <2>1, <3>1, HeadsAre, LeBytes
    <3>3. 0 \in Nat /\ 0 + 4 <= Len(data) /\ 0 + 1 = 1 /\ 0 + 2 = 2 /\ 0 + 3 = 3 /\ 0 + 4 = 4
      BY <1>4
    <3>4. data[0 + 4] = 0 =>
              AsU32Le(data, 0) = FromBytes(data[0 + 1], data[0 + 2], data[0 + 3])
      BY <1>1, <3>3, AsLe
    <3>5. AsU32Le(data, 0) = p
      BY <1>7, <3>2, <3>3, <3>4
    <3>6. Has(data, 0, 4)
      BY <1>2, <1>4 DEF Has
    <3> QED
      BY <2>1, <3>1, <3>5, <3>6 DEF ProtocolEnd, Protocol
  <2>2. CASE w.protocol = "u32_be"
    <3>1. h = 4 /\ 1 \in 1..h /\ 2 \in 1..h /\ 3 \in 1..h /\ 4 \in 1..h
      BY <1>2, <2>2
    <3>2. data[1] = 0 /\ data[2] = High(p) /\ data[3] = Mid(p) /\ data[4] = Low(p)
      BY <1>1, <1>5, <1>6, <2>2, <3>1, HeadsAre, BeBytes
    <3>3. 0 \in Nat /\ 0 + 4 <= Len(data) /\ 0 + 1 = 1 /\ 0 + 2 = 2 /\ 0 + 3 = 3 /\ 0 + 4 = 4
      BY <1>4
    <3>4. data[0 + 1] = 0 =>
              AsU32Be(data, 0) = FromBytes(data[0 + 4], data[0 + 3], data[0 + 2])
      BY <1>1, <3>3, AsBe
    <3>5. AsU32Be(data, 0) = p
      BY <1>7, <3>2, <3>3, <3>4
    <3>6. Has(data, 0, 4)
      BY <1>2, <1>4 DEF Has
    <3> QED
      BY <2>2, <3>1, <3>5, <3>6 DEF ProtocolEnd, Protocol
  <2>3. CASE w.protocol = "varint"
    <3>1. h = Len(VarInt(p)) /\ Agrees(data, 0, VarInt(p))
      BY <1>1, <2>3, HeadsAre
    <3>2. 0 \in Nat /\ Begins(data, 0, VarInt(p))
      BY <1>2, <1>4, <3>1 DEF Begins
    <3>3. VarIntEnd(data, 0) = h /\ AsVarInt(data, 0) = p
      BY <1>1, <1>5, <3>1, <3>2, VarIntReads
    <3> QED
      BY <2>3, <3>3 DEF ProtocolEnd, Protocol
  <2> QED
    BY <1>1, <2>1, <2>2, <2>3, LayoutsAre
<1>9. CASE ~w.payload_len
  <2>1. StartOf(data, w) = at
    BY <1>1, <1>2, <1>8, <1>9 DEF StartOf
  <2>2. Both(data, at)
    BY <1>1, <1>2, TokensRead DEF Whole
  <2> QED
    BY <1>2, <1>5, <1>8, <1>9, <2>1, <2>2 DEF Opens
<1>10. CASE w.payload_len
  <2> DEFINE b == Body(chain, skin)
             m == VarInt(b)
  <2>1. /\ h \in Nat /\ at = h + Len(m) /\ Len(m) = at - h /\ b \in Nat /\ b # 0 /\ b \in Values
        /\ Agrees(data, h, m)
    BY <1>10, PayloadIs
  <2>2. b = (8 + Len(chain)) + Len(skin)
    BY DEF Body
  <2> HIDE DEF b
  <2>3. Begins(data, h, m)
    <3>1. h + Len(m) <= Len(data)
      BY <1>2, <1>4, <2>1
    <3> QED
      BY <2>1, <3>1 DEF Begins
  <2>4. VarIntEnd(data, h) = Len(m) /\ AsVarInt(data, h) = b
    BY <1>1, <2>1, <2>3, VarIntReads
  <2>5. StartOf(data, w) = at
    BY <1>8, <1>10, <2>1, <2>4 DEF StartOf
  <2>6. Len(m) # 0 /\ h + Len(m) = at /\ at <= Len(data) /\ b <= Len(data) - at
    <3>1. Len(data) - at = b
      BY <1>2, <1>3, <2>2 DEF Whole
    <3>2. at - h # 0
      BY <1>2, <1>10
    <3> QED
      BY <1>2, <1>4, <2>1, <3>1, <3>2
  <2>7. PayloadFits(data, h)
    BY <2>1, <2>4, <2>6 DEF PayloadFits, Has
  <2>8. Both(data, at)
    BY <1>1, <1>2, TokensRead DEF Whole
  <2> QED
    BY <1>2, <1>5, <1>8, <1>10, <2>5, <2>7, <2>8 DEF Opens
<1>11. w.payload_len \in BOOLEAN
  BY <1>1, LayoutsAre
<1> QED
  BY <1>8, <1>9, <1>10, <1>11

(* A big-endian protocol that is one read backwards is the same or one of   *)
(* two.                                                                     *)
LEMMA Swapped ==
    ASSUME NEW data, NEW w, NEW p, NEW chain, NEW skin, NEW h, NEW at,
           LoginAt(data, w, p, chain, skin, h, at), w.protocol = "u32_be",
           4 <= Len(data), IsProtocol(AsU32Le(data, 0))
    PROVE  AsU32Le(data, 0) = p \/ {AsU32Le(data, 0), p} = Reversed
<1> DEFINE q == AsU32Le(data, 0)
           a == Mid(p)
           b == High(p)
<1>1. /\ data \in Seq(Bytes) /\ p \in Nat /\ p # 0 /\ p <= MaxProtocol
      /\ Agrees(data, 0, HeadOf(p, w.protocol))
  BY DEF LoginAt
<1>2. p < Two24 /\ b < 2
  BY <1>1, ProtocolsAre
<1>3. /\ Low(p) \in Nat /\ a \in Nat /\ b \in Nat /\ p = FromBytes(Low(p), a, b)
  BY <1>1, <1>2, HighIs
<1>4. data[1] = 0 /\ data[2] = b /\ data[3] = a /\ data[4] = Low(p)
  <2> DEFINE s == U32Be(p)
  <2>1. Len(s) = 4 /\ s[1] = 0 /\ s[2] = b /\ s[3] = a /\ s[4] = Low(p)
    BY <1>1, <1>2, BeBytes
  <2>2. Agrees(data, 0, s)
    BY <1>1, HeadsAre
  <2> HIDE DEF s
  <2>3. /\ 1 \in 1..Len(s) /\ 2 \in 1..Len(s) /\ 3 \in 1..Len(s) /\ 4 \in 1..Len(s)
        /\ 0 + 1 = 1 /\ 0 + 2 = 2 /\ 0 + 3 = 3 /\ 0 + 4 = 4 /\ Len(data) \in Nat
        /\ 1 <= Len(data) /\ 2 <= Len(data) /\ 3 <= Len(data)
    BY <1>1, <2>1
  <2> QED
    BY <2>1, <2>2, <2>3 DEF Agrees
<1>5. q = FromBytes(0, b, a) /\ Low(p) = 0 /\ a < 2
  <2>1. 0 \in Nat /\ 0 + 4 <= Len(data) /\ 0 + 1 = 1 /\ 0 + 2 = 2 /\ 0 + 3 = 3 /\ 0 + 4 = 4
    OBVIOUS
  <2>2. /\ data[0 + 4] = 0 => q = FromBytes(data[0 + 1], data[0 + 2], data[0 + 3])
        /\ data[0 + 4] = 0 /\ data[0 + 3] < 2
    BY <1>1, <2>1, AsLe
  <2> QED
    BY <1>4, <2>1, <2>2
<1> HIDE DEF q, a, b
<1>6. /\ q = 256 * (b + 256 * a) /\ p = 256 * (a + 256 * b)
  BY <1>3, <1>5 DEF FromBytes
<1>7. a \in {0, 1} /\ b \in {0, 1}
  BY <1>2, <1>3, <1>5
<1>8. q = p \/ (q = 256 /\ p = 65536) \/ (q = 65536 /\ p = 256)
  <2>1. CASE a = b
    BY <1>6, <2>1
  <2>2. CASE a = 0 /\ b = 1
    BY SMT, <1>6, <2>2
  <2>3. CASE a = 1 /\ b = 0
    BY SMT, <1>6, <2>3
  <2> QED
    BY <1>7, <2>1, <2>2, <2>3
<1> QED
  BY <1>8 DEF q, Reversed

LEMMA ProbesAre ==
    /\ DOMAIN Probes = 1..6
    /\ \A i \in 1..6 : Probes[i] \in Layouts
    /\ \A e \in Layouts : \E i \in 1..6 : Probes[i] = e
    /\ Probes[1].protocol = "u32_le"
    /\ ~Probes[1].payload_len /\ ~Probes[2].payload_len /\ ~Probes[3].payload_len
    /\ Probes[4].protocol = "u32_le" /\ Probes[4].payload_len
    /\ \A i \in 1..6 : Probes[i].protocol = "u32_le" => i \in {1, 4}
<1>1. Len(Probes) = 6 /\ DOMAIN Probes = 1..6
  BY DEF Probes
<1>2. /\ Probes[1] = [protocol |-> "u32_le", payload_len |-> FALSE]
      /\ Probes[2] = [protocol |-> "u32_be", payload_len |-> FALSE]
      /\ Probes[3] = [protocol |-> "varint", payload_len |-> FALSE]
      /\ Probes[4] = [protocol |-> "u32_le", payload_len |-> TRUE]
      /\ Probes[5] = [protocol |-> "u32_be", payload_len |-> TRUE]
      /\ Probes[6] = [protocol |-> "varint", payload_len |-> TRUE]
  BY DEF Probes, Layout
<1>3. \A i \in 1..6 : i = 1 \/ i = 2 \/ i = 3 \/ i = 4 \/ i = 5 \/ i = 6
  OBVIOUS
<1>4. \A i \in 1..6 : Probes[i] \in Layouts
  <2>1. \A x \in Encodings, y \in BOOLEAN : [protocol |-> x, payload_len |-> y] \in Layouts
    BY DEF Layouts
  <2>2. "u32_le" \in Encodings /\ "u32_be" \in Encodings /\ "varint" \in Encodings
    BY DEF Encodings
  <2>3. /\ Probes[1] \in Layouts /\ Probes[2] \in Layouts /\ Probes[3] \in Layouts
        /\ Probes[4] \in Layouts /\ Probes[5] \in Layouts /\ Probes[6] \in Layouts
    BY <1>2, <2>1, <2>2
  <2> QED
    BY <1>3, <2>3
<1>5. \A e \in Layouts : \E i \in 1..6 : Probes[i] = e
  <2> SUFFICES ASSUME NEW e \in Layouts PROVE \E i \in 1..6 : Probes[i] = e
    OBVIOUS
  <2>1. /\ e = [protocol |-> e.protocol, payload_len |-> e.payload_len]
        /\ e.protocol = "u32_le" \/ e.protocol = "u32_be" \/ e.protocol = "varint"
        /\ e.payload_len = TRUE \/ e.payload_len = FALSE
    BY DEF Layouts, Encodings
  <2>2. 1 \in 1..6 /\ 2 \in 1..6 /\ 3 \in 1..6 /\ 4 \in 1..6 /\ 5 \in 1..6 /\ 6 \in 1..6
    OBVIOUS
  <2>3. CASE e.payload_len = FALSE
    BY <1>2, <2>1, <2>2, <2>3
  <2>4. CASE e.payload_len = TRUE
    BY <1>2, <2>1, <2>2, <2>4
  <2> QED
    BY <2>1, <2>3, <2>4
<1>6. \A i \in 1..6 : Probes[i].protocol = "u32_le" => i \in {1, 4}
  <2>1. "u32_be" # "u32_le" /\ "varint" # "u32_le"
    OBVIOUS
  <2> QED
    BY <1>2, <1>3, <2>1
<1> QED
  BY <1>1, <1>2, <1>4, <1>5, <1>6

(* What a Login's tokens say of themselves.                                 *)
LooksRight(chain, skin) ==
    IsText(chain) /\ IsText(skin) /\ LooksLikeChain(chain) /\ LooksLikeJwt(skin)

(* A Login that has lost its end is none.                                   *)
LEMMA CutIsNone ==
    ASSUME NEW data, NEW w, NEW p, NEW chain, NEW skin, NEW h, NEW at,
           LoginAt(data, w, p, chain, skin, h, at), ~Whole(data, chain, skin, at),
           w = Layout("u32_le", FALSE) => TwoBytesEach(p, chain)
    PROVE  ParseLogin(data) = NoLogin
<1>1. w.payload_len \/ w.protocol # "u32_le" \/ TwoBytesEach(p, chain)
  <2>1. w \in Layouts
    BY DEF LoginAt
  <2>2. w = [protocol |-> w.protocol, payload_len |-> w.payload_len] /\ w.payload_len \in BOOLEAN
    BY <2>1 DEF Layouts
  <2> QED
    BY <2>2 DEF Layout
<1>2. ASSUME NEW i \in DOMAIN Probes, TryLayout(data, Probes[i]) # NoLogin PROVE FALSE
  <2>1. Probes[i] \in Layouts /\ Opens(data, Probes[i])
    BY <1>2, ProbesAre, TryOpens
  <2>2. StartOf(data, Probes[i]) = at
    BY <1>1, <2>1, Alone
  <2>3. Both(data, at)
    BY <2>1, <2>2 DEF Opens
  <2>4. AreTokens(chain, skin) /\ data \in Seq(Bytes) /\ TokensAt(data, at, chain, skin)
        /\ at \in Nat /\ at <= 8
    BY LoginIs DEF LoginAt
  <2>5. Whole(data, chain, skin, at)
    BY <2>3, <2>4, TokensRead DEF Whole
  <2> QED
    BY <2>5
<1> DEFINE found == {i \in DOMAIN Probes : TryLayout(data, Probes[i]) # NoLogin}
<1>3. found = {}
  BY <1>2
<1> QED
  BY <1>3 DEF ParseLogin

(* A Login that is all there is read in its own layout, or in one that      *)
(* reads a big-endian protocol backwards.                                   *)
LEMMA WholeIsRead ==
    ASSUME NEW data, NEW w, NEW p, NEW chain, NEW skin, NEW h, NEW at,
           LoginAt(data, w, p, chain, skin, h, at), Whole(data, chain, skin, at),
           LooksRight(chain, skin)
    PROVE  /\ ParseLogin(data).chain = chain /\ ParseLogin(data).skin = skin
           /\ \/ ParseLogin(data).protocol = p
              \/ w.protocol = "u32_be" /\ {ParseLogin(data).protocol, p} = Reversed
<1> DEFINE found == {i \in DOMAIN Probes : TryLayout(data, Probes[i]) # NoLogin}
<1>1. /\ AreTokens(chain, skin) /\ data \in Seq(Bytes) /\ TokensAt(data, at, chain, skin)
      /\ at \in Nat /\ at <= 8 /\ w \in Layouts
  BY LoginIs DEF LoginAt
<1>2. Token(data, at) = chain /\ Token(data, Behind(data, at)) = skin
  BY <1>1, TokensRead DEF Whole
<1>3. Opens(data, w) /\ StartOf(data, w) = at /\ Protocol(data, w.protocol) = p
  BY OwnLayout
<1>4. PICK own \in 1..6 : Probes[own] = w
  BY <1>1, ProbesAre
<1>5. own \in found
  <2>1. TryLayout(data, w) # NoLogin
    BY <1>2, <1>3, TryFinds DEF LooksRight
  <2> QED
    BY <1>4, <2>1, ProbesAre
<1>6. found \in SUBSET Nat /\ found # {} /\ \A i \in found : i \in 1..6
  <2>1. \A i \in found : i \in 1..6
    BY ProbesAre
  <2>2. \A i \in 1..6 : i \in Nat
    OBVIOUS
  <2> HIDE DEF found
  <2> QED
    BY <1>5, <2>1, <2>2
<1> DEFINE first == CHOOSE i \in found : \A j \in found : i <= j
           e == Probes[first]
<1>7. ParseLogin(data) = TryLayout(data, e)
  BY <1>6 DEF ParseLogin
<1>8. first \in found /\ first <= own
  <2> HIDE DEF found
  <2>1. \E i \in found : \A j \in found : i <= j
    BY <1>6, LeastNat
  <2>2. first \in found /\ \A j \in found : first <= j
    BY <2>1
  <2> QED
    BY <1>5, <2>2
<1>9. first \in 1..6 /\ e \in Layouts /\ TryLayout(data, e) # NoLogin
  <2>1. first \in 1..6 /\ TryLayout(data, Probes[first]) # NoLogin
    BY <1>6, <1>8
  <2> QED
    BY <2>1, ProbesAre
<1> HIDE DEF found, first
<1>10. Opens(data, e) /\ TryLayout(data, e) = ReadIn(data, e)
  BY <1>9, TryOpens
<1>11. w.payload_len \/ w.protocol # "u32_le" \/ e.protocol # "varint"
  <2> SUFFICES ASSUME ~w.payload_len, w.protocol = "u32_le" PROVE e.protocol # "varint"
    OBVIOUS
  <2>1. own = 1
    BY <1>4, ProbesAre
  <2>2. first = 1
    BY <1>8, <1>9, <2>1
  <2> QED
    BY <2>2, ProbesAre
<1>12. /\ StartOf(data, e) = at
       /\ w.protocol = "varint" => e.protocol = "varint"
       /\ w.protocol = "u32_be" => e.protocol # "varint"
       /\ w.payload_len => e.payload_len
  BY <1>9, <1>10, <1>11, Alone
<1>13. w.protocol = "u32_le" => e.protocol = "u32_le"
  <2> SUFFICES ASSUME w.protocol = "u32_le" PROVE e.protocol = "u32_le"
    OBVIOUS
  <2>1. own \in {1, 4}
    BY <1>4, ProbesAre
  <2>2. CASE own = 1
    <3>1. first = 1
      BY <1>8, <1>9, <2>2
    <3> QED
      BY <3>1, ProbesAre
  <2>3. CASE own = 4
    <3>1. e.payload_len
      BY <1>4, <1>12, <2>3, ProbesAre
    <3>2. first # 1 /\ first # 2 /\ first # 3
      BY <3>1, ProbesAre
    <3>3. first = 4
      BY <1>8, <1>9, <2>3, <3>2
    <3> QED
      BY <3>3, ProbesAre
  <2> QED
    BY <2>1, <2>2, <2>3
<1>14. e.protocol = w.protocol \/ (w.protocol = "u32_be" /\ e.protocol = "u32_le")
  BY <1>1, <1>9, <1>12, <1>13, LayoutsAre
<1>15. /\ ParseLogin(data).chain = chain /\ ParseLogin(data).skin = skin
       /\ ParseLogin(data).protocol = Protocol(data, e.protocol)
  BY <1>2, <1>7, <1>10, <1>12 DEF ReadIn
<1>16. CASE e.protocol = w.protocol
  BY <1>3, <1>15, <1>16
<1>17. CASE w.protocol = "u32_be" /\ e.protocol = "u32_le"
  <2>1. Protocol(data, e.protocol) = AsU32Le(data, 0)
    BY <1>17 DEF Protocol
  <2>2. IsProtocol(AsU32Le(data, 0)) /\ ProtocolEnd(data, e.protocol) # 0
    BY <1>10, <2>1 DEF Opens
  <2>3. 4 <= Len(data)
    BY <1>1, <1>17, <2>2, EndIn
  <2>4. AsU32Le(data, 0) = p \/ {AsU32Le(data, 0), p} = Reversed
    BY <1>17, <2>2, <2>3, Swapped
  <2> QED
    BY <1>15, <1>17, <2>1, <2>4
<1> QED
  BY <1>14, <1>15, <1>16, <1>17

(***************************************************************************)
(* What is written of a Login                                              *)
(***************************************************************************)

(* What is joined is there one behind the other, as far as the data goes.   *)
LEMMA AgreesParts ==
    ASSUME NEW data \in Seq(Bytes), NEW at \in Nat, NEW s \in Seq(Bytes), NEW t \in Seq(Bytes),
           Agrees(data, at, s \o t)
    PROVE  Agrees(data, at, s) /\ Agrees(data, at + Len(s), t)
<1> DEFINE all == s \o t
<1>1. /\ Len(s) \in Nat /\ Len(t) \in Nat /\ Len(data) \in Nat /\ Len(all) = Len(s) + Len(t)
      /\ \A k \in 1..Len(s) : all[k] = s[k]
      /\ \A k \in 1..Len(t) : all[Len(s) + k] = t[k]
  BY ConcatParts, LenProperties
<1>2. \A i \in 1..Len(all) : at + i <= Len(data) => data[at + i] = all[i]
  BY DEF Agrees
<1> HIDE DEF all
<1>3. \A i \in 1..Len(s) : i \in 1..Len(all)
  BY <1>1
<1>4. Agrees(data, at, s)
  BY <1>1, <1>2, <1>3 DEF Agrees
<1>5. \A k \in 1..Len(t) : (at + Len(s)) + k <= Len(data) => data[(at + Len(s)) + k] = t[k]
  <2> SUFFICES ASSUME NEW k \in 1..Len(t), (at + Len(s)) + k <= Len(data)
               PROVE  data[(at + Len(s)) + k] = t[k]
    OBVIOUS
  <2>1. Len(s) + k \in 1..Len(all) /\ at + (Len(s) + k) = (at + Len(s)) + k
    BY <1>1
  <2> QED
    BY <1>1, <1>2, <2>1
<1> QED
  BY <1>4, <1>5 DEF Agrees

(* Its tokens.                                                              *)
TokenBytesOf(chain, skin) == ((U32Le(Len(chain)) \o chain) \o U32Le(Len(skin))) \o skin

LEMMA TokensWritten ==
    ASSUME NEW chain, NEW skin, AreTokens(chain, skin)
    PROVE  LET all == TokenBytesOf(chain, skin)
           IN  /\ all \in Seq(Bytes) /\ Len(all) = Body(chain, skin)
               /\ \A data \in Seq(Bytes), at \in Nat :
                      Agrees(data, at, all) /\ Len(data) <= at + Body(chain, skin) =>
                          TokensAt(data, at, chain, skin)
<1> DEFINE c == Len(chain)
           s == Len(skin)
           u == U32Le(c)
           v == U32Le(s)
           one == u \o chain
           two == one \o v
           all == two \o skin
<1>1. /\ chain \in Seq(Bytes) /\ skin \in Seq(Bytes) /\ c \in Nat /\ c < Two24 /\ s \in Nat /\ s < Two24
  BY TokensAre
<1>2. u \in Seq(Bytes) /\ Len(u) = 4
  BY <1>1, LeBytes
<1>3. v \in Seq(Bytes) /\ Len(v) = 4
  BY <1>1, LeBytes
<1>4. all = TokenBytesOf(chain, skin)
  BY DEF TokenBytesOf
<1> HIDE DEF u, v
<1>5. one \in Seq(Bytes) /\ Len(one) = 4 + c
  <2>1. one \in Seq(Bytes) /\ Len(one) = Len(u) + Len(chain)
    BY <1>1, <1>2, ConcatParts
  <2> QED
    BY <1>2, <2>1
<1> HIDE DEF one
<1>6. two \in Seq(Bytes) /\ Len(two) = 8 + c
  <2>1. two \in Seq(Bytes) /\ Len(two) = Len(one) + Len(v)
    BY <1>3, <1>5, ConcatParts
  <2> HIDE DEF two
  <2> QED
    BY <1>1, <1>3, <1>5, <2>1
<1> HIDE DEF two
<1>7. all \in Seq(Bytes) /\ Len(all) = (8 + c) + s
  BY <1>1, <1>6, ConcatParts
<1> HIDE DEF all
<1>8. Body(chain, skin) = (8 + c) + s
  BY DEF Body
<1>9. ASSUME NEW data \in Seq(Bytes), NEW at \in Nat, Agrees(data, at, all), Len(data) <= at + ((8 + c) + s)
      PROVE  TokensAt(data, at, chain, skin)
  <2>1. Agrees(data, at, two) /\ Agrees(data, at + Len(two), skin)
    BY <1>1, <1>6, <1>9, AgreesParts DEF all
  <2>2. Agrees(data, at, one) /\ Agrees(data, at + Len(one), v)
    BY <1>3, <1>5, <2>1, AgreesParts DEF two
  <2>3. Agrees(data, at, u) /\ Agrees(data, at + Len(u), chain)
    BY <1>1, <1>2, <2>2, AgreesParts DEF one
  <2> HIDE DEF c, s
  <2>4. /\ at + Len(u) = at + 4 /\ at + Len(one) = (at + 4) + c /\ at + Len(two) = (at + 8) + c
        /\ at + ((8 + c) + s) = ((at + 8) + c) + s
    BY <1>1, <1>2, <1>5, <1>6
  <2> QED
    BY <1>9, <2>1, <2>2, <2>3, <2>4 DEF TokensAt, c, s, u, v
<1> HIDE DEF c, s
<1> QED
  BY <1>4, <1>7, <1>8, <1>9

(* What is left of a Login that loses any part of its end.                  *)
LEMMA LoginWritten ==
    ASSUME NEW login, NEW w \in Layouts, AreTokens(login.chain, login.skin),
           login.protocol \in Nat, login.protocol # 0, login.protocol <= MaxProtocol
    PROVE  LET all == LoginBytes(login, w)
           IN  /\ all \in Seq(Bytes) /\ Len(all) \in Nat
               /\ \A n \in 0..Len(all) : \E h, at :
                      /\ LoginAt(SubSeq(all, 1, n), w, login.protocol, login.chain, login.skin, h, at)
                      /\ Whole(SubSeq(all, 1, n), login.chain, login.skin, at) <=> n = Len(all)
<1> DEFINE p == login.protocol
           chain == login.chain
           skin == login.skin
           tokens == TokenBytesOf(chain, skin)
           head == HeadOf(p, w.protocol)
           b == Body(chain, skin)
           length == IF w.payload_len THEN VarInt(b) ELSE <<>>
           front == head \o length
           all == front \o tokens
           h == Len(head)
           at == Len(front)
<1>1. AreTokens(chain, skin) /\ p \in Nat /\ p # 0 /\ p <= MaxProtocol
  OBVIOUS
<1>2. tokens \in Seq(Bytes) /\ Len(tokens) = b
  BY <1>1, TokensWritten
<1>3. all = LoginBytes(login, w)
  BY <1>2 DEF LoginBytes, TokenBytesOf, HeadOf
<1>4. w.protocol \in Encodings /\ w.payload_len \in BOOLEAN
  BY LayoutsAre
<1>5. head \in Seq(Bytes) /\ h \in 1..4
  <2>1. head \in Seq(Bytes) /\ (w.protocol # "varint" => h = 4) /\ (w.protocol = "varint" => h \in 1..3)
    BY <1>1, <1>4, HeadsAre
  <2> HIDE DEF h, head
  <2> QED
    BY <2>1
<1>6. b \in Nat /\ IsShort(VarInt(b), b)
  BY <1>1, BodyIs
<1>7. length \in Seq(Bytes) /\ Len(length) \in Nat
  <2>1. VarInt(b) \in Seq(Bytes) /\ Len(VarInt(b)) \in 1..4
    BY <1>6 DEF IsShort
  <2>2. <<>> \in Seq(Bytes) /\ Len(<<>>) = 0
    OBVIOUS
  <2>3. length \in Seq(Bytes)
    BY <1>4, <2>1, <2>2
  <2> HIDE DEF length
  <2> QED
    BY <2>3, LenProperties
<1>8. /\ w.payload_len => length = VarInt(b)
      /\ ~w.payload_len => length = <<>> /\ Len(length) = 0
  OBVIOUS
<1>a. b = (8 + Len(chain)) + Len(skin) /\ Len(chain) \in Nat /\ Len(skin) \in Nat
  BY <1>1, TokensAre DEF Body
<1> HIDE DEF head, length, tokens, b
<1>9. front \in Seq(Bytes) /\ at = h + Len(length) /\ at \in Nat
  BY <1>5, <1>7, ConcatParts
<1> HIDE DEF front
<1>10. all \in Seq(Bytes) /\ Len(all) = at + b
  BY <1>2, <1>9, ConcatParts
<1> HIDE DEF all
<1>11. ASSUME NEW n \in 0..Len(all)
       PROVE  LET data == SubSeq(all, 1, n)
              IN  LoginAt(data, w, p, chain, skin, h, at) /\ (Whole(data, chain, skin, at) <=> n = Len(all))
  <2> DEFINE data == SubSeq(all, 1, n)
  <2>1. data \in Seq(Bytes) /\ Len(data) = n /\ \A i \in 1..n : data[i] = all[i]
    <3>1. 1 \in Nat /\ n \in Nat /\ n <= Len(all) /\ Len(all) \in Nat
      BY <1>6, <1>9, <1>10
    <3> QED
      BY <1>10, <3>1
  <2> HIDE DEF data
  <2>2. Agrees(data, 0, all)
    <3> SUFFICES ASSUME NEW i \in 1..Len(all), 0 + i <= Len(data) PROVE data[0 + i] = all[i]
      BY DEF Agrees
    <3>1. i \in 1..n /\ 0 + i = i
      BY <1>10, <2>1
    <3> QED
      BY <2>1, <3>1
  <2>3. Agrees(data, 0, front) /\ Agrees(data, 0 + at, tokens)
    BY <1>2, <1>9, <2>1, <2>2, AgreesParts DEF all
  <2>4. Agrees(data, 0, head) /\ Agrees(data, 0 + h, length)
    BY <1>5, <1>7, <2>1, <2>3, AgreesParts DEF front
  <2>5. 0 + at = at /\ 0 + h = h /\ Len(data) <= at + b
    BY <1>5, <1>6, <1>9, <1>10, <2>1
  <2>6. TokensAt(data, at, chain, skin)
    BY <1>1, <1>9, <2>1, <2>3, <2>5, TokensWritten DEF tokens, b
  <2>7. ~w.payload_len => at = h
    BY <1>5, <1>8, <1>9
  <2>8. w.payload_len => at = h + Len(VarInt(b)) /\ Agrees(data, h, VarInt(b))
    BY <1>8, <1>9, <2>4, <2>5
  <2>9. LoginAt(data, w, p, chain, skin, h, at)
    BY <1>1, <2>1, <2>4, <2>6, <2>7, <2>8 DEF LoginAt, h, head, b
  <2>10. Whole(data, chain, skin, at) <=> n = Len(all)
    <3> DEFINE c == Len(chain)
               s == Len(skin)
    <3>1. ((at + 8) + Len(chain)) + Len(skin) = at + b
      <4>1. b = (8 + c) + s /\ c \in Nat /\ s \in Nat
        BY <1>a
      <4> HIDE DEF c, s, at
      <4>2. ((at + 8) + c) + s = at + b
        BY <1>9, <4>1
      <4> QED
        BY <4>2 DEF c, s
    <3> QED
      BY <1>10, <2>1, <3>1 DEF Whole
  <2> QED
    BY <2>9, <2>10 DEF data
<1>12. all \in Seq(Bytes) /\ Len(all) \in Nat
  BY <1>6, <1>9, <1>10
<1> QED
  BY <1>3, <1>11, <1>12

(* A Login that may be written.                                             *)
LEMMA LoginsAre ==
    ASSUME NEW x \in Logins
    PROVE  /\ x.layout \in Layouts
           /\ x.login.protocol \in Nat /\ x.login.protocol # 0 /\ x.login.protocol <= MaxProtocol
           /\ LooksRight(x.login.chain, x.login.skin)
           /\ AreTokens(x.login.chain, x.login.skin)
<1> DEFINE chain == x.login.chain
           skin == x.login.skin
           p == x.login.protocol
<1>1. /\ x.layout \in Layouts /\ p \in 1..MaxProtocol
      /\ chain \in Seq(1..255) /\ IsText(chain) /\ LooksLikeChain(chain)
      /\ skin \in Seq(1..255) /\ IsText(skin) /\ LooksLikeJwt(skin)
      /\ Len(chain) + Len(skin) <= MaxDecompressedSize
  BY LoginsAssumption
<1>2. LooksRight(chain, skin)
  BY <1>1 DEF LooksRight
<1>3. p \in Nat /\ p # 0 /\ p <= MaxProtocol
  BY <1>1
<1>4. Len(skin) # 0
  <2>1. ASSUME Len(skin) = 0 PROVE FALSE
    <3>1. DOMAIN skin = {}
      BY <1>1, <2>1
    <3>2. {i \in DOMAIN skin : skin[i] = FullStop} = {}
      BY <3>1
    <3>3. Cardinality({}) = 0
      BY FS_EmptySet
    <3>4. Cardinality({i \in DOMAIN skin : skin[i] = FullStop}) = 2
      BY <1>1 DEF LooksLikeJwt
    <3> QED
      BY <3>2, <3>3, <3>4
  <2> QED
    BY <2>1
<1>5. Len(skin) >= 1
  <2>1. Len(skin) \in Nat
    BY <1>1, LenProperties
  <2> QED
    BY <1>4, <2>1
<1>6. Len(chain) >= 1
  <2>1. PICK i \in DOMAIN chain : chain[i] = Brace
    BY <1>1 DEF LooksLikeChain
  <2>2. i \in 1..Len(chain) /\ Len(chain) \in Nat
    BY <1>1, LenProperties
  <2> QED
    BY <2>2
<1>7. AreTokens(chain, skin)
  BY <1>1, <1>5, <1>6 DEF AreTokens
<1> QED
  BY <1>1, <1>2, <1>3, <1>7

LEMMA LoginBytesAre ==
    ASSUME NEW x \in Logins
    PROVE  /\ LoginBytes(x.login, x.layout) \in Seq(Bytes)
           /\ Len(LoginBytes(x.login, x.layout)) \in Nat
BY LoginsAre, LoginWritten

(***************************************************************************)
(* What is always true of an item on its way                               *)
(***************************************************************************)
IsPrefixOfLogin(data, x, lost) ==
    \E n \in 0..Len(LoginBytes(x.login, x.layout)) :
        /\ data = SubSeq(LoginBytes(x.login, x.layout), 1, n)
        /\ lost <=> n # Len(LoginBytes(x.login, x.layout))

CodecInv ==
    /\ phase \in {"written", "arrived", "read"}
    /\ kind = "batch" => item \in Batches /\ IsPrefixOfBatch(bytes, item)
    /\ kind = "batch" /\ phase = "read" => got = ParseBatch(bytes)
    /\ kind = "frames" =>
           /\ item \in FrameSets
           /\ bytes = FrameSetBytes(item.seq, item.frames, item.unit, item.slack)
    /\ kind = "frames" /\ phase = "read" => got = ParseFrameSet(bytes)
    /\ kind = "login" => item \in Logins /\ IsPrefixOfLogin(bytes, item, cut)
    /\ kind = "login" /\ phase = "read" => got = ParseLogin(bytes)
    /\ kind = "skin" => item \in Skins
    /\ kind = "skin" /\ phase = "read" => got = SkinSize(item.declared, item.pixels)

(* A batch that may be written is packets of bytes that are not too long.   *)
LEMMA BatchesAre ==
    ASSUME NEW packets \in Batches
    PROVE  /\ packets \in Packets /\ Small(packets)
           /\ BatchBytes(packets) \in Seq(Bytes) /\ Len(BatchBytes(packets)) \in Nat
<1>1. packets \in Seq(Seq(Bytes)) /\ \A i \in DOMAIN packets : Len(packets[i]) <= Huge
  BY BatchesAssumption DEF Bytes
<1>2. packets \in Packets /\ Small(packets)
  BY <1>1 DEF Packets, Small
<1>3. PICK g : IsJoined(g, Pieces(packets), Len(packets)) /\ BatchBytes(packets) = g[Len(packets)]
  BY <1>2, BatchJoined
<1>4. Len(packets) \in Nat
  BY <1>1
<1>5. ArePieces(Bytes, Pieces(packets), Len(packets))
  BY <1>2, PiecesAre
<1>6. JoinsSequences(Bytes, g, Pieces(packets), Len(packets))
  BY <1>3, <1>4, <1>5, JoinedTypes
<1>7. Len(packets) \in 0..Len(packets)
  BY <1>4
<1> QED
  BY <1>2, <1>3, <1>6, <1>7 DEF JoinsSequences

(* What is left of what was left.                                           *)
LEMMA PrefixOfPrefix ==
    ASSUME NEW S, NEW all \in Seq(S), NEW k \in 0..Len(all), NEW n \in 0..Len(all), n < k
    PROVE  SubSeq(SubSeq(all, 1, k), 1, n) = SubSeq(all, 1, n)
<1>1. Len(all) \in Nat
  BY LenProperties
<1>2. CASE n = 0
  BY <1>2, SubSeqEmpty
<1>3. CASE n # 0
  <2>1. /\ 1 \in 1..Len(all) /\ k \in 1..Len(all) /\ 1 \in 1..((k - 1) + 1)
        /\ n \in 1..((k - 1) + 1) /\ (1 + 1) - 1 = 1 /\ (1 + n) - 1 = n
    BY <1>1, <1>3
  <2> QED
    BY <2>1, SubSeqOfSubSeq
<1> QED
  BY <1>2, <1>3

LEMMA CodecInvInductive ==
    /\ Init => CodecInv
    /\ CodecInv /\ [Next]_vars => CodecInv'
<1>1. Init => CodecInv
  <2> SUFFICES ASSUME Init PROVE CodecInv
    OBVIOUS
  <2>1. phase = "written"
    BY DEF Init
  <2>2. CASE \E x \in FrameSets : Write("frames", x, FrameSetBytes(x.seq, x.frames, x.unit, x.slack))
    BY <2>1, <2>2 DEF Write, CodecInv
  <2>3. CASE \E x \in Batches : Write("batch", x, BatchBytes(x))
    <3>1. PICK x \in Batches : kind = "batch" /\ item = x /\ bytes = BatchBytes(x)
      BY <2>3 DEF Write
    <3> DEFINE all == BatchBytes(x)
    <3>2. all \in Seq(Bytes) /\ Len(all) \in Nat
      BY BatchesAre
    <3> HIDE DEF all
    <3>3. Len(all) \in 0..Len(all) /\ all = SubSeq(all, 1, Len(all))
      BY <3>2, SubSeqFull
    <3>4. \E n \in 0..Len(all) : all = SubSeq(all, 1, n)
      BY <3>3, Zenon
    <3>5. IsPrefixOfBatch(bytes, item)
      BY <3>1, <3>4, Zenon DEF IsPrefixOfBatch, all
    <3> QED
      BY <2>1, <3>1, <3>5 DEF CodecInv
  <2>4. CASE \E x \in Logins : Write("login", x, LoginBytes(x.login, x.layout))
    <3>1. PICK x \in Logins : kind = "login" /\ item = x /\ bytes = LoginBytes(x.login, x.layout)
      BY <2>4 DEF Write
    <3> DEFINE all == LoginBytes(x.login, x.layout)
    <3>2. all \in Seq(Bytes) /\ Len(all) \in Nat
      BY LoginBytesAre
    <3> HIDE DEF all
    <3>3. Len(all) \in 0..Len(all) /\ all = SubSeq(all, 1, Len(all))
      BY <3>2, SubSeqFull
    <3>4. cut = FALSE /\ bytes = all /\ item = x /\ kind = "login"
      BY <3>1 DEF Init, all
    <3>5. \E n \in 0..Len(all) : all = SubSeq(all, 1, n) /\ (cut <=> n # Len(all))
      BY <3>3, <3>4, Zenon
    <3>6. IsPrefixOfLogin(bytes, item, cut)
      BY <3>4, <3>5, Zenon DEF IsPrefixOfLogin, all
    <3> QED
      BY <2>1, <3>4, <3>6 DEF CodecInv
  <2>5. CASE \E x \in Skins : Write("skin", x, <<>>)
    BY <2>1, <2>5 DEF Write, CodecInv
  <2> QED
    BY <2>2, <2>3, <2>4, <2>5 DEF Init
<1>2. CodecInv /\ [Next]_vars => CodecInv'
  <2> SUFFICES ASSUME CodecInv, [Next]_vars PROVE CodecInv'
    OBVIOUS
  <2>1. CASE Arrive
    BY <2>1 DEF Arrive, CodecInv
  <2>2. CASE ArriveCut
    <3>1. /\ phase' = "arrived" /\ kind' = kind /\ item' = item /\ kind # "frames"
          /\ kind = "batch" => item \in Batches /\ IsPrefixOfBatch(bytes, item)
          /\ kind = "login" => item \in Logins /\ IsPrefixOfLogin(bytes, item, cut)
          /\ kind = "skin" => item \in Skins
          /\ cut' = TRUE
      BY <2>2 DEF ArriveCut, CodecInv
    <3>2. PICK n \in 0..(Len(bytes) - 1) : bytes' = SubSeq(bytes, 1, n)
      BY <2>2 DEF ArriveCut
    <3>3. ASSUME kind = "batch" PROVE IsPrefixOfBatch(bytes', item)
      <4>1. PICK k \in 0..Len(BatchBytes(item)) : bytes = SubSeq(BatchBytes(item), 1, k)
        BY <3>1, <3>3 DEF IsPrefixOfBatch
      <4> DEFINE all == BatchBytes(item)
      <4>2. all \in Seq(Bytes) /\ Len(all) \in Nat
        BY <3>1, <3>3, BatchesAre
      <4> HIDE DEF all
      <4>3. bytes = SubSeq(all, 1, k) /\ k \in 0..Len(all)
        BY <4>1 DEF all
      <4>4. n \in 0..Len(all) /\ n < k
        BY <3>2, <4>2, <4>3
      <4>5. bytes' = SubSeq(all, 1, n)
        BY <3>2, <4>2, <4>3, <4>4, PrefixOfPrefix
      <4> QED
        BY <4>4, <4>5 DEF IsPrefixOfBatch, all
    <3>4. ASSUME kind = "login" PROVE IsPrefixOfLogin(bytes', item, cut')
      <4> DEFINE all == LoginBytes(item.login, item.layout)
      <4>1. PICK k \in 0..Len(all) : bytes = SubSeq(all, 1, k)
        BY <3>1, <3>4 DEF IsPrefixOfLogin
      <4>2. all \in Seq(Bytes) /\ Len(all) \in Nat
        BY <3>1, <3>4, LoginBytesAre
      <4> HIDE DEF all
      <4>3. Len(bytes) = k
        BY <4>1, <4>2
      <4>4. n \in 0..Len(all) /\ n < k /\ n # Len(all)
        BY <3>2, <4>2, <4>3
      <4>5. bytes' = SubSeq(all, 1, n)
        BY <3>2, <4>1, <4>2, <4>4, PrefixOfPrefix
      <4> QED
        BY <3>1, <4>4, <4>5 DEF IsPrefixOfLogin, all
    <3> QED
      BY <3>1, <3>3, <3>4 DEF CodecInv
  <2>3. CASE Read
    <3>1. /\ phase' = "read" /\ kind' = kind /\ item' = item /\ bytes' = bytes
          /\ kind = "frames" =>
                 /\ item \in FrameSets
                 /\ bytes = FrameSetBytes(item.seq, item.frames, item.unit, item.slack)
          /\ kind = "batch" => item \in Batches /\ IsPrefixOfBatch(bytes, item)
          /\ kind = "login" => item \in Logins /\ IsPrefixOfLogin(bytes, item, cut)
          /\ kind = "skin" => item \in Skins
          /\ cut' = cut
      BY <2>3 DEF Read, CodecInv
    <3>2. ASSUME kind = "batch" PROVE got' = ParseBatch(bytes)
      BY <2>3, <3>2 DEF Read
    <3>3. ASSUME kind = "skin" PROVE got' = SkinSize(item.declared, item.pixels)
      BY <2>3, <3>3 DEF Read
    <3>4. ASSUME kind = "frames" PROVE got' = ParseFrameSet(bytes)
      BY <2>3, <3>4 DEF Read
    <3>5. ASSUME kind = "login" PROVE got' = ParseLogin(bytes)
      BY <2>3, <3>5 DEF Read
    <3> QED
      BY <3>1, <3>2, <3>3, <3>4, <3>5 DEF CodecInv
  <2>4. CASE UNCHANGED vars
    BY <2>4 DEF vars, CodecInv
  <2> QED
    BY <2>1, <2>2, <2>3, <2>4 DEF Next
<1> QED
  BY <1>1, <1>2

(* Of a batch of any packets (build_batch), however much of its end is      *)
(* lost, parse_batch returns the packets that are all there, unchanged and  *)
(* in order, and nothing else.                                              *)
THEOREM WhatIsLeftIsRead == Spec => []BatchPrefixRead
<1>1. CodecInv => BatchPrefixRead
  <2> SUFFICES ASSUME CodecInv, WasRead("batch") PROVE BatchPrefixRead
    BY DEF BatchPrefixRead
  <2>1. item \in Batches /\ IsPrefixOfBatch(bytes, item) /\ got = ParseBatch(bytes)
    BY DEF CodecInv, WasRead
  <2>2. item \in Packets /\ Small(item)
    BY <2>1, BatchesAre
  <2>3. ReadsPrefix(item, bytes, got)
    BY <2>1, <2>2, PrefixIsRead
  <2> QED
    BY <2>3 DEF ReadsPrefix, BatchPrefixRead
<1> QED
  BY <1>1, CodecInvInductive, PTL DEF Spec

(* Frames that may be written fit.                                          *)
LEMMA FrameSetsAre ==
    ASSUME NEW x \in FrameSets
    PROVE  /\ x.seq \in Nat /\ x.seq < Two24 /\ AllFit(x.frames, x.unit, x.slack)
           /\ \E S : x.frames \in Seq(S)
           /\ x.unit \in {1, 8} /\ (x.unit = 1 => x.slack = 0)
<1>1. x.seq \in Nat /\ x.seq < Two24
  BY SMT, FrameSetsAssumption DEF Two24
<1>2. /\ x.frames \in Seq(FrameFields) /\ x.slack \in 0..7
      /\ x.unit \in {1, 8} /\ (x.unit = 1 => x.slack = 0)
      /\ \A i \in DOMAIN x.frames : FieldsFit(x.frames[i], x.unit)
  BY FrameSetsAssumption
<1>3. ASSUME NEW i \in 1..Len(x.frames) PROVE FrameFits(x.frames[i], x.unit, x.slack)
  <2> DEFINE f == x.frames[i]
  <2>1. f \in FrameFields /\ i \in DOMAIN x.frames
    <3>1. x.frames \in Seq(FrameFields)
      BY <1>2
    <3> QED
      BY <3>1
  <2>2. FieldsFit(f, x.unit)
    BY <1>2, <2>1
  <2> HIDE DEF f
  <2>3. /\ f = [rel |-> f.rel, split |-> f.split, payload |-> f.payload, reliable |-> f.reliable,
                order |-> f.order, channel |-> f.channel, count |-> f.count, id |-> f.id,
                index |-> f.index]
        /\ f.rel \in 0..7 /\ f.split \in BOOLEAN /\ f.payload \in Seq(Bytes)
        /\ f.reliable \in Nat /\ f.order \in Nat /\ f.channel \in Nat /\ f.count \in Nat
        /\ f.id \in Nat /\ f.index \in Nat
    BY <2>1 DEF FrameFields, Bytes
  <2>4. Len(f.payload) \in Nat
    BY <2>3, LenProperties
  <2>5. f.reliable < Two24 /\ f.order < Two24 /\ f.id < Two16
    BY SMT, <2>2, <2>3, <2>4 DEF FieldsFit, Two16, Two24
  <2>5a. x.unit * Len(f.payload) < Two16
    <3>1. CASE x.unit = 8
      BY SMT, <2>2, <2>4, <3>1 DEF FieldsFit, Two16
    <3>2. CASE x.unit = 1
      BY SMT, <2>2, <2>4, <3>2 DEF FieldsFit, Two16
    <3> QED
      BY <1>2, <3>1, <3>2
  <2>6. /\ f.channel <= MaxChannel /\ f.count <= MaxSplitCount /\ f.index <= Huge
        /\ ~IsReliable(f.rel) => f.reliable = 0
        /\ ~IsOrdered(f.rel) => f.order = 0 /\ f.channel = 0
        /\ ~f.split => f.count = 0 /\ f.id = 0 /\ f.index = 0
    BY SMT, <2>2 DEF FieldsFit
  <2> QED
    BY <1>2, <2>3, <2>5, <2>5a, <2>6 DEF FrameFits, f
<1> QED
  BY <1>1, <1>2, <1>3 DEF AllFit

(* Frames of any kind, with any payloads, whose lengths count bits, down to *)
(* the last bit, are read by parse_frame_set as they were written, provided *)
(* that no fragment is followed by anything: no payload can make the other  *)
(* reading of the lengths look better.                                      *)
THEOREM BitsAreReadBack == Spec => [](kind = "frames" /\ item.unit = 8 => FrameSetReadBack)
<1>1. CodecInv => (kind = "frames" /\ item.unit = 8 => FrameSetReadBack)
  <2> SUFFICES ASSUME CodecInv, item.unit = 8, WasRead("frames"), ~FragmentFollowed(item.frames)
               PROVE  got = [seq |-> item.seq, frames |-> item.frames]
    BY DEF FrameSetReadBack
  <2>1. /\ item \in FrameSets /\ got = ParseFrameSet(bytes)
        /\ bytes = FrameSetBytes(item.seq, item.frames, 8, item.slack)
    BY DEF CodecInv, WasRead
  <2>2. PICK S : item.frames \in Seq(S)
    BY <2>1, FrameSetsAre
  <2>3. item.seq \in Nat /\ item.seq < Two24 /\ AllFit(item.frames, 8, item.slack)
    BY <2>1, FrameSetsAre
  <2>4. ParseFrameSet(bytes) = [seq |-> item.seq, frames |-> item.frames]
    BY <2>1, <2>2, <2>3, BitsAreRead
  <2> QED
    BY <2>1, <2>4
<1> QED
  BY <1>1, CodecInvInductive, PTL DEF Spec

(* Frames whose lengths count bytes, as of a lone batch, are read by         *)
(* parse_frame_set as they were written whenever its other reading, which   *)
(* takes the lengths for bits and is tried first, does not get to the end:  *)
(* it then prefers the reading in bytes, whatever the other one has found.  *)
THEOREM BytesAreReadBack ==
    Spec => [](kind = "frames" /\ item.unit = 1
                   /\ (item.frames # <<>> => ReadFrames(bytes, "bits").offset < Len(bytes))
               => FrameSetReadBack)
<1> DEFINE BitsEnd == item.frames # <<>> => ReadFrames(bytes, "bits").offset < Len(bytes)
<1>1. CodecInv => (kind = "frames" /\ item.unit = 1 /\ BitsEnd => FrameSetReadBack)
  <2> SUFFICES ASSUME CodecInv, item.unit = 1, BitsEnd, WasRead("frames"), ~FragmentFollowed(item.frames)
               PROVE  got = [seq |-> item.seq, frames |-> item.frames]
    BY DEF FrameSetReadBack
  <2>1. /\ item \in FrameSets /\ got = ParseFrameSet(bytes)
        /\ bytes = FrameSetBytes(item.seq, item.frames, item.unit, item.slack)
    BY DEF CodecInv, WasRead
  <2>2. /\ item.seq \in Nat /\ item.seq < Two24 /\ AllFit(item.frames, item.unit, item.slack)
        /\ item.slack = 0
    BY <2>1, FrameSetsAre
  <2>3. PICK S : item.frames \in Seq(S)
    BY <2>1, FrameSetsAre
  <2>4. AllFit(item.frames, 1, 0) /\ bytes = FrameSetBytes(item.seq, item.frames, 1, 0)
    BY <2>1, <2>2
  <2>5. ParseFrameSet(bytes) = [seq |-> item.seq, frames |-> item.frames]
    BY <2>2, <2>3, <2>4, BytesAreRead
  <2> QED
    BY <2>1, <2>5
<1> QED
  BY <1>1, CodecInvInductive, PTL DEF Spec

(* Whatever Login a client writes in whichever of the six layouts, with any *)
(* protocol and tokens, parse_login_packet reads both tokens as they were,  *)
(* and the protocol but for the two that are each other's reverse; and      *)
(* however much of its end is lost, it takes it for none, provided that, in *)
(* the layout that begins with a little-endian protocol and has no payload  *)
(* length, the protocol and the length of the chain are below 2^16.         *)
THEOREM LoginsAreReadBack ==
    Spec => []((kind = "login" /\ cut /\ item.layout = Layout("u32_le", FALSE) =>
                    item.login.protocol < Two16 /\ Len(item.login.chain) < Two16)
               => LoginReadBack)
<1> DEFINE Fits == kind = "login" /\ cut /\ item.layout = Layout("u32_le", FALSE) =>
                       item.login.protocol < Two16 /\ Len(item.login.chain) < Two16
<1>1. CodecInv => (Fits => LoginReadBack)
  <2> SUFFICES ASSUME CodecInv, Fits, WasRead("login") PROVE LoginReadBack
    BY DEF LoginReadBack
  <2> DEFINE all == LoginBytes(item.login, item.layout)
             p == item.login.protocol
             chain == item.login.chain
             skin == item.login.skin
  <2>1. kind = "login" /\ item \in Logins /\ got = ParseLogin(bytes) /\ IsPrefixOfLogin(bytes, item, cut)
    BY DEF CodecInv, WasRead
  <2>2. PICK n \in 0..Len(all) : bytes = SubSeq(all, 1, n) /\ (cut <=> n # Len(all))
    BY <2>1 DEF IsPrefixOfLogin
  <2>3. /\ item.layout \in Layouts /\ p \in Nat /\ p # 0 /\ p <= MaxProtocol
        /\ LooksRight(chain, skin) /\ AreTokens(chain, skin)
    BY <2>1, LoginsAre
  <2>4. PICK h, at : /\ LoginAt(bytes, item.layout, p, chain, skin, h, at)
                     /\ Whole(bytes, chain, skin, at) <=> n = Len(all)
    BY <2>2, <2>3, LoginWritten
  <2> HIDE DEF all
  <2>5. CASE cut
    <3>1. ~Whole(bytes, chain, skin, at)
      BY <2>2, <2>4, <2>5
    <3>2. item.layout = Layout("u32_le", FALSE) => TwoBytesEach(p, chain)
      BY <2>1, <2>5 DEF TwoBytesEach
    <3>3. got = NoLogin
      BY <2>1, <2>4, <3>1, <3>2, CutIsNone
    <3> QED
      BY <2>5, <3>3 DEF LoginReadBack
  <2>6. CASE ~cut
    <3>1. Whole(bytes, chain, skin, at)
      BY <2>2, <2>4, <2>6
    <3>2. /\ ParseLogin(bytes).chain = chain /\ ParseLogin(bytes).skin = skin
          /\ \/ ParseLogin(bytes).protocol = p
             \/ item.layout.protocol = "u32_be" /\ {ParseLogin(bytes).protocol, p} = Reversed
      BY <2>3, <2>4, <3>1, WholeIsRead
    <3> QED
      BY <2>1, <2>6, <3>2 DEF LoginReadBack
  <2> QED
    BY <2>5, <2>6
<1> QED
  BY <1>1, CodecInvInductive, PTL DEF Spec

(* Whatever size a client declares for however many pixels, the skin is     *)
(* taken exactly when that size agrees or the pixels fill rows of 64        *)
(* (parse_login_packet and ExtractedSkin::new).                             *)
THEOREM SkinsTaken == Spec => []SkinTaken
<1>1. CodecInv => SkinTaken
  <2> SUFFICES ASSUME CodecInv, WasRead("skin") PROVE SkinTaken
    BY DEF SkinTaken
  <2>1. item \in Skins /\ got = SkinSize(item.declared, item.pixels)
    BY DEF CodecInv, WasRead
  <2>2. item.pixels \in Nat \ {0}
    BY <2>1, SkinsAssumption
  <2>3. Holds(got, item.pixels) <=> Holds(item.declared, item.pixels) \/ item.pixels % 64 = 0
    BY <2>1, <2>2, SizeTaken
  <2> QED
    BY <2>3 DEF SkinTaken
<1> QED
  BY <1>1, CodecInvInductive, PTL DEF Spec
=============================================================================
