----------------------- MODULE DerivedServerProofs -------------------------
(***************************************************************************)
(* Proofs about DerivedServer, for every text, every range of i32, every   *)
(* enum, all values of its fields and every address: pieces are read as    *)
(* they were written, what the macro takes has one place for each field,   *)
(* and so links are served, reach their routes, and pages are at their     *)
(* addresses.                                                              *)
(***************************************************************************)
EXTENDS DerivedServer, SequenceFacts

-----------------------------------------------------------------------------
\* Numbers

\* The ten digits are ten characters, and each is worth its place.
LEMMA DigitFacts ==
  /\ ToSet(Digit) = {"0", "1", "2", "3", "4", "5", "6", "7", "8", "9"}
  /\ \A k \in 0..9 : Digit[k + 1] \in ToSet(Digit) /\ Worth(Digit[k + 1]) = k
  /\ \A c \in ToSet(Digit) : Worth(c) \in 0..9
<1>1. ToSet(Digit) = {"0", "1", "2", "3", "4", "5", "6", "7", "8", "9"}
  BY DEF ToSet, Digit
<1>2. ASSUME NEW k \in 0..9 PROVE Digit[k + 1] \in ToSet(Digit)
  BY DEF ToSet, Digit
<1>3. \A k \in 0..9 : \A j \in 0..9 : Digit[k + 1] = Digit[j + 1] => k = j
  <2>1. /\ Digit[0 + 1] = "0" /\ Digit[1 + 1] = "1" /\ Digit[2 + 1] = "2"
        /\ Digit[3 + 1] = "3" /\ Digit[4 + 1] = "4" /\ Digit[5 + 1] = "5"
        /\ Digit[6 + 1] = "6" /\ Digit[7 + 1] = "7" /\ Digit[8 + 1] = "8"
        /\ Digit[9 + 1] = "9"
    BY DEF Digit
  <2>2. 0..9 = {0, 1, 2, 3, 4, 5, 6, 7, 8, 9}
    OBVIOUS
  <2> QED BY <2>1, <2>2
<1>4. ASSUME NEW k \in 0..9 PROVE Worth(Digit[k + 1]) = k
  BY <1>3 DEF Worth
<1>5. ASSUME NEW c \in ToSet(Digit) PROVE Worth(c) \in 0..9
  <2>1. \E k \in 0..9 : Digit[k + 1] = c
    BY <1>1 DEF Digit
  <2> QED BY <2>1 DEF Worth
<1> QED BY <1>1, <1>2, <1>4, <1>5

Digits == Seq(ToSet(Digit))

\* The recursive function of Number.
IsValue(f, s, n) ==
  f = [i \in 0..n |-> IF i = 0 THEN 0 ELSE 10 * f[i - 1] + Worth(s[i])]

\* Number is the last value of that function.
LEMMA NumberDef ==
  ASSUME NEW s
  PROVE  Number(s) = (CHOOSE f : IsValue(f, s, Len(s)))[Len(s)]
BY DEF Number, IsValue

\* It exists, with numbers as its values.
LEMMA ValueExists ==
  ASSUME NEW s \in Digits
  PROVE  \E f \in [0..Len(s) -> Nat] : IsValue(f, s, Len(s))
<1> DEFINE A == {n \in 0..Len(s) : \E f \in [0..n -> Nat] : IsValue(f, s, n)}
<1>0. Len(s) \in Nat /\ \A i \in 1..Len(s) : Worth(s[i]) \in Nat
  BY DigitFacts DEF Digits
<1>1. 0 \in A
  <2> DEFINE f == [i \in 0..0 |-> 0]
  <2>1. f \in [0..0 -> Nat] /\ IsValue(f, s, 0)
    BY DEF IsValue
  <2> QED BY <1>0, <2>1
<1>2. ASSUME NEW n \in 1..Len(s), n - 1 \in A PROVE n \in A
  <2>1. PICK g \in [0..n - 1 -> Nat] : IsValue(g, s, n - 1)
    BY <1>2
  <2> DEFINE f == [i \in 0..n |-> IF i = n THEN 10 * g[n - 1] + Worth(s[n]) ELSE g[i]]
  <2>2. f \in [0..n -> Nat]
    BY <1>0
  <2>3. ASSUME NEW i \in 0..n
        PROVE  f[i] = IF i = 0 THEN 0 ELSE 10 * f[i - 1] + Worth(s[i])
    <3>1. CASE i = n
      <4>1. f[i - 1] = g[n - 1] /\ i # 0
        BY <3>1, <1>0
      <4> QED BY <3>1, <4>1
    <3>2. CASE i # n
      <4>1. g[i] = IF i = 0 THEN 0 ELSE 10 * g[i - 1] + Worth(s[i])
        BY <2>1, <3>2 DEF IsValue
      <4>2. f[i] = g[i] /\ (i # 0 => f[i - 1] = g[i - 1])
        BY <3>2
      <4> HIDE DEF f
      <4> QED BY <4>1, <4>2
    <3> QED BY <3>1, <3>2
  <2>4. IsValue(f, s, n)
    <3>1. f = [i \in 0..n |-> f[i]]
      OBVIOUS
    <3> HIDE DEF f
    <3> QED BY <2>3, <3>1 DEF IsValue
  <2> HIDE DEF f
  <2> QED BY <1>0, <2>2, <2>4
<1>3. Len(s) \in A
  <2> HIDE DEF A
  <2>1. \A i \in 1..Len(s) : i - 1 \in A => i \in A
    BY <1>2
  <2>2. 0..Len(s) \subseteq A
    BY <1>0, <1>1, <2>1, FromZero
  <2> QED BY <1>0, <2>2
<1> QED BY <1>3

\* So the function that Number chooses is that one.
LEMMA ValueEquation ==
  ASSUME NEW s \in Digits
  PROVE  \E f \in [0..Len(s) -> Nat] :
           /\ Number(s) = f[Len(s)]
           /\ f[0] = 0
           /\ \A i \in 1..Len(s) : f[i] = 10 * f[i - 1] + Worth(s[i])
<1> DEFINE f == CHOOSE g : IsValue(g, s, Len(s))
<1>0. Len(s) \in Nat /\ \A i \in 1..Len(s) : Worth(s[i]) \in Nat
  BY DigitFacts DEF Digits
<1>1. IsValue(f, s, Len(s))
  BY ValueExists
<1>2. Number(s) = f[Len(s)]
  BY NumberDef
<1> HIDE DEF f
<1>3. \A i \in 0..Len(s) : f[i] = IF i = 0 THEN 0 ELSE 10 * f[i - 1] + Worth(s[i])
  BY <1>1 DEF IsValue
<1>4. f[0] = 0 /\ \A i \in 1..Len(s) : f[i] = 10 * f[i - 1] + Worth(s[i])
  BY <1>0, <1>3
<1>5. DOMAIN f = 0..Len(s) /\ f = [i \in 0..Len(s) |-> f[i]]
  BY <1>1 DEF IsValue
<1>6. \A i \in 0..Len(s) : f[i] \in Nat
  <2> DEFINE B == {i \in 0..Len(s) : f[i] \in Nat}
  <2>1. 0 \in B
    BY <1>0, <1>4
  <2>2. ASSUME NEW i \in 1..Len(s), i - 1 \in B PROVE i \in B
    BY <1>0, <1>4, <2>2
  <2>3. 0..Len(s) \subseteq B
    <3> HIDE DEF B
    <3> QED BY <1>0, <2>1, <2>2, FromZero
  <2> QED BY <2>3
<1> QED BY <1>2, <1>4, <1>5, <1>6

\* Another digit is worth its place, the ones before it ten times as much.
LEMMA NumberAppend ==
  ASSUME NEW s \in Digits, NEW d \in ToSet(Digit)
  PROVE  /\ Append(s, d) \in Digits
         /\ Number(s) \in Nat
         /\ Number(Append(s, d)) = 10 * Number(s) + Worth(d)
<1> DEFINE t == Append(s, d)
           n == Len(s)
<1>1. t \in Digits /\ Len(t) = n + 1 /\ n \in Nat /\ t[n + 1] = d /\ \A i \in 1..n : t[i] = s[i]
  BY DEF Digits
<1>2. PICK f \in [0..n -> Nat] :
         /\ Number(s) = f[n] /\ f[0] = 0
         /\ \A i \in 1..n : f[i] = 10 * f[i - 1] + Worth(s[i])
  BY ValueEquation
<1> HIDE DEF t
<1>3. PICK g \in [0..n + 1 -> Nat] :
         /\ Number(t) = g[n + 1] /\ g[0] = 0
         /\ \A i \in 1..n + 1 : g[i] = 10 * g[i - 1] + Worth(t[i])
  <2>1. PICK g \in [0..Len(t) -> Nat] :
          /\ Number(t) = g[Len(t)] /\ g[0] = 0
          /\ \A i \in 1..Len(t) : g[i] = 10 * g[i - 1] + Worth(t[i])
    BY <1>1, ValueEquation
  <2> QED BY <1>1, <2>1
<1>4. f[n] = g[n]
  <2> DEFINE B == {i \in 0..n : f[i] = g[i]}
  <2>1. 0 \in B
    BY <1>1, <1>2, <1>3
  <2>2. ASSUME NEW i \in 1..n, i - 1 \in B PROVE i \in B
    <3>1. f[i - 1] = g[i - 1] /\ i \in 1..n + 1 /\ t[i] = s[i]
      BY <1>1, <2>2
    <3>2. f[i] = 10 * f[i - 1] + Worth(s[i]) /\ g[i] = 10 * g[i - 1] + Worth(t[i])
      BY <1>2, <1>3, <3>1
    <3> QED BY <1>1, <3>1, <3>2
  <2>3. 0..n \subseteq B
    <3> HIDE DEF B
    <3> QED BY <1>1, <2>1, <2>2, FromZero
  <2> QED BY <1>1, <2>3
<1>5. n + 1 \in 1..n + 1 /\ (n + 1) - 1 = n
  BY <1>1
<1>6. g[n + 1] = 10 * g[n] + Worth(t[n + 1])
  BY <1>3, <1>5
<1>7. f[n] \in Nat
  BY <1>1, <1>2
<1> QED BY <1>1, <1>2, <1>3, <1>4, <1>6, <1>7 DEF t

\* No digits are worth nothing.
LEMMA NumberNothing == <<>> \in Digits /\ Number(<<>>) = 0
<1>1. <<>> \in Digits /\ Len(<<>>) = 0
  BY DEF Digits
<1> QED BY <1>1, ValueEquation

\* The recursive function of Decimal.
IsDecimal(f, n) ==
  f = [m \in 0..n |-> IF m < 10 THEN <<Digit[m + 1]>>
                      ELSE Append(f[m \div 10], Digit[(m % 10) + 1])]

\* Decimal is the last value of its recursive function.
LEMMA DecimalDef ==
  ASSUME NEW n
  PROVE  Decimal(n) = (CHOOSE f : IsDecimal(f, n))[n]
BY DEF Decimal, IsDecimal

\* A number is ten times its tenth and the remainder.
LEMMA DivMod ==
  ASSUME NEW n \in Nat
  PROVE  /\ n \div 10 \in Nat /\ n % 10 \in 0..9
         /\ n = 10 * (n \div 10) + (n % 10)
         /\ n >= 1 => n \div 10 < n
OBVIOUS

\* It exists, with digits as its values.
LEMMA DecimalExists ==
  ASSUME NEW n \in Nat
  PROVE  \E f \in [0..n -> Digits] : IsDecimal(f, n)
<1> DEFINE A == {k \in 0..n : \E f \in [0..k -> Digits] : IsDecimal(f, k)}
           last(f, m) == IF m < 10 THEN <<Digit[m + 1]>>
                         ELSE Append(f[m \div 10], Digit[(m % 10) + 1])
<1>0. ASSUME NEW m \in 0..9 PROVE <<Digit[m + 1]>> \in Digits
  BY DigitFacts DEF Digits
<1>1. 0 \in A
  <2> DEFINE f == [m \in 0..0 |-> <<Digit[m + 1]>>]
  <2>1. f \in [0..0 -> Digits]
    BY <1>0
  <2>2. IsDecimal(f, 0)
    BY DEF IsDecimal
  <2> QED BY <2>1, <2>2
<1>2. ASSUME NEW k \in 1..n, k - 1 \in A PROVE k \in A
  <2>1. PICK g \in [0..k - 1 -> Digits] : IsDecimal(g, k - 1)
    BY <1>2
  <2> DEFINE f == [m \in 0..k |-> IF m = k THEN last(g, k) ELSE g[m]]
  <2>2. last(g, k) \in Digits
    <3>1. CASE k < 10
      BY <3>1, <1>0
    <3>2. CASE k >= 10
      <4>1. k \div 10 \in 0..k - 1 /\ k % 10 \in 0..9
        BY DivMod
      <4>2. g[k \div 10] \in Digits /\ Digit[(k % 10) + 1] \in ToSet(Digit)
        BY <4>1, <2>1, DigitFacts
      <4> QED BY <3>2, <4>2 DEF Digits
    <3> QED BY <3>1, <3>2
  <2>3. f \in [0..k -> Digits]
    <3> HIDE DEF last
    <3> QED BY <2>1, <2>2
  <2>4. ASSUME NEW m \in 0..k PROVE f[m] = last(f, m)
    <3>1. m >= 10 => m \div 10 \in 0..k - 1 /\ f[m \div 10] = g[m \div 10]
      <4>1. m >= 10 => m \div 10 \in 0..k - 1 /\ m \div 10 \in 0..k /\ m \div 10 # k
        BY DivMod
      <4> HIDE DEF last
      <4> QED BY <4>1
    <3>2. last(f, m) = last(g, m)
      <4> HIDE DEF f
      <4> QED BY <3>1
    <3>3. m # k => g[m] = last(g, m)
      <4>1. \A j \in 0..k - 1 : g[j] = last(g, j)
        BY <2>1 DEF IsDecimal
      <4>2. m # k => m \in 0..k - 1
        OBVIOUS
      <4> HIDE DEF last
      <4> QED BY <4>1, <4>2
    <3> HIDE DEF last
    <3> QED BY <3>2, <3>3
  <2>5. IsDecimal(f, k)
    <3>1. f = [m \in 0..k |-> f[m]]
      OBVIOUS
    <3> HIDE DEF f
    <3> QED BY <2>4, <3>1 DEF IsDecimal
  <2> HIDE DEF f
  <2> QED BY <2>3, <2>5
<1>3. n \in A
  <2> HIDE DEF A
  <2>1. \A k \in 1..n : k - 1 \in A => k \in A
    BY <1>2
  <2>2. 0..n \subseteq A
    BY <1>1, <2>1, FromZero
  <2> QED BY <2>2
<1> QED BY <1>3

\* What is written for a number is a sequence of digits that names it.
LEMMA NumberOfDecimal ==
  ASSUME NEW n \in Nat
  PROVE  /\ Decimal(n) \in Digits /\ Decimal(n) # <<>>
         /\ Number(Decimal(n)) = n
<1> DEFINE f == CHOOSE g : IsDecimal(g, n)
<1>1. IsDecimal(f, n)
  BY DecimalExists
<1>2. Decimal(n) = f[n]
  BY DecimalDef
<1> HIDE DEF f
<1>3. \A m \in 0..n : f[m] = IF m < 10 THEN <<Digit[m + 1]>>
                             ELSE Append(f[m \div 10], Digit[(m % 10) + 1])
  BY <1>1 DEF IsDecimal
<1> DEFINE Good(m) == f[m] \in Digits /\ f[m] # <<>> /\ Number(f[m]) = m
           T == {m \in 0..n : ~Good(m)}
<1>4. T = {}
  <2>1. SUFFICES ASSUME T # {} PROVE FALSE
    OBVIOUS
  <2>2. PICK m \in T : \A k \in T : m <= k
    <3>1. T \subseteq Nat
      OBVIOUS
    <3> HIDE DEF T
    <3> QED BY <2>1, <3>1, LeastNumber
  <2>3. m \in 0..n /\ ~Good(m) /\ \A k \in 0..n : k < m => Good(k)
    <3> HIDE DEF Good
    <3> QED BY <2>2
  <2>4. CASE m < 10
    <3>0. f[m] = <<Digit[m + 1]>>
      BY <1>3, <2>3, <2>4, Zenon
    <3>1. f[m] = Append(<<>>, Digit[m + 1]) /\ f[m] # <<>> /\ m \in 0..9
      BY <2>3, <2>4, <3>0
    <3>2. Digit[m + 1] \in ToSet(Digit) /\ Worth(Digit[m + 1]) = m
      BY <3>1, DigitFacts
    <3>3. f[m] \in Digits /\ Number(f[m]) = 10 * 0 + m
      BY <3>1, <3>2, NumberNothing, NumberAppend
    <3> QED BY <2>3, <3>1, <3>3
  <2>5. CASE m >= 10
    <3> DEFINE q == m \div 10
               d == Digit[(m % 10) + 1]
    <3>1. q \in 0..n /\ q < m /\ m % 10 \in 0..9 /\ m = 10 * q + (m % 10)
      BY <2>3, <2>5, DivMod
    <3>2. d \in ToSet(Digit) /\ Worth(d) = m % 10
      BY <3>1, DigitFacts
    <3>3. f[m] = Append(f[q], d)
      <4>1. ~ (m < 10)
        BY <2>3, <2>5
      <4> QED BY <1>3, <2>3, <4>1, Zenon
    <3>4. f[q] \in Digits /\ Number(f[q]) = q
      <4> HIDE DEF q
      <4> QED BY <2>3, <3>1
    <3> HIDE DEF q, d
    <3>5. f[m] \in Digits /\ f[m] # <<>> /\ Number(f[m]) = 10 * q + (m % 10)
      <4>1. Append(f[q], d) # <<>>
        BY <3>4 DEF Digits
      <4> QED BY <3>2, <3>3, <3>4, <4>1, NumberAppend
    <3> QED BY <2>3, <3>1, <3>5
  <2> QED BY <2>3, <2>4, <2>5
<1> QED BY <1>2, <1>4

-----------------------------------------------------------------------------
\* Pieces

Types == {"String", "i32", "bool"}

\* The values of a type.
Values(type) == CASE type = "String" -> Segment
                  [] type = "i32"    -> i32
                  [] type = "bool"   -> BOOLEAN

\* A sequence of digits is text, and no sign leads it.
LEMMA DigitsAreText ==
  ASSUME NEW s \in Digits, s # <<>>
  PROVE  /\ s \in Segment /\ IsDigits(s)
         /\ s[1] \notin {"+", "-"} /\ ~OnlyDashes(s)
<1>1. Len(s) \in Nat /\ Len(s) >= 1 /\ \A i \in 1..Len(s) : s[i] \in ToSet(Digit)
  BY DEF Digits
<1>2. IsDigits(s)
  BY <1>1 DEF IsDigits
<1>3. ToSet(Digit) \subseteq Char
  BY PieceAssumption
<1>4. s \in Segment
  <2>1. Seq(ToSet(Digit)) \subseteq Seq(Char)
    BY <1>3, SeqMonotonic
  <2> QED BY <2>1 DEF Digits, Segment
<1>5. s[1] \in ToSet(Digit)
  BY <1>1
<1>6. s[1] \notin {"+", "-"}
  BY <1>5, DigitFacts
<1>7. ~OnlyDashes(s)
  BY <1>1, <1>6, PieceAssumption DEF OnlyDashes
<1> QED BY <1>2, <1>4, <1>6, <1>7

\* A number is read as it was written.
LEMMA NumberRoundTrip ==
  ASSUME NEW v \in i32
  PROVE  LET s == render_route_piece("i32", v)
         IN /\ s \in Segment /\ parse_i32(s) = Some(v) /\ ~OnlyDashes(s)
<1>0. I32Max \in Nat /\ v \in Int /\ -v \in Int
  BY I32MaxAssumption DEF i32
<1>1. CASE v < 0
  <2> DEFINE d == Decimal(-v)
             s == <<"-">> \o d
  <2>1. -v \in Nat
    BY <1>0, <1>1
  <2>2. d \in Digits /\ d # <<>> /\ Number(d) = -v
    BY <2>1, NumberOfDecimal
  <2>3. d \in Segment /\ IsDigits(d)
    BY <2>2, DigitsAreText
  <2>4. "-" \in Char
    BY PieceAssumption, DashAssumption
  <2>5. render_route_piece("i32", v) = s
    BY <1>1 DEF render_route_piece
  <2> HIDE DEF d
  <2>6. s \in Segment /\ s # <<>> /\ s[1] = "-" /\ Tail(s) = d
    BY <2>3, <2>4, OneBefore DEF Segment
  <2>7. parse_i32(s) = IF IsDigits(d) /\ -Number(d) \in i32 THEN Some(-Number(d)) ELSE None
    <3> HIDE DEF s
    <3>1. s # <<>> /\ s[1] \in {"+", "-"}
      BY <2>6
    <3> QED BY <2>6, <3>1 DEF parse_i32
  <2>8. -Number(d) = v
    BY <1>0, <2>2
  <2>9. ~OnlyDashes(s)
    <3>1. Len(d) \in Nat /\ Len(d) >= 1 /\ d[1] \in ToSet(Digit) /\ d[1] # "-"
      BY <2>2, DigitsAreText DEF Digits
    <3>2. 2 \in 1..Len(s) /\ s[2] = d[1]
      <4>1. Len(s) = 1 + Len(d)
        BY <2>3, <2>4 DEF Segment
      <4> QED BY <2>3, <2>4, <3>1, <4>1 DEF Segment
    <3> HIDE DEF s
    <3> QED BY <3>1, <3>2, PieceAssumption DEF OnlyDashes
  <2> HIDE DEF s
  <2> QED BY <2>3, <2>5, <2>6, <2>7, <2>8, <2>9
<1>2. CASE ~ (v < 0)
  <2> DEFINE d == Decimal(v)
  <2>1. v \in Nat
    BY <1>0, <1>2
  <2>2. d \in Digits /\ d # <<>> /\ Number(d) = v
    BY <2>1, NumberOfDecimal
  <2>3. d \in Segment /\ IsDigits(d) /\ d[1] \notin {"+", "-"} /\ ~OnlyDashes(d)
    BY <2>2, DigitsAreText
  <2>4. render_route_piece("i32", v) = d
    BY <1>2 DEF render_route_piece
  <2> HIDE DEF d
  <2>5. parse_i32(d) = Some(v)
    <3>1. ~ (d # <<>> /\ d[1] \in {"+", "-"}) /\ d[1] # "-"
      BY <2>3
    <3>2. parse_i32(d) = IF IsDigits(d) /\ Number(d) \in i32 THEN Some(Number(d)) ELSE None
      BY <3>1 DEF parse_i32
    <3> QED BY <2>2, <2>3, <3>2
  <2> QED BY <2>3, <2>4, <2>5
<1> QED BY <1>1, <1>2

\* A segment of dashes is no number.
LEMMA DashesAreNoNumber ==
  ASSUME NEW s \in Segment, OnlyDashes(s)
  PROVE  parse_i32(s) = None
<1> DEFINE d == IF s # <<>> /\ s[1] \in {"+", "-"} THEN Tail(s) ELSE s
<1>1. "-" \notin ToSet(Digit)
  BY DigitFacts
<1>2. d # <<>> => Len(d) >= 1 /\ d[1] = "-"
  <2>1. Len(s) \in Nat /\ \A i \in 1..Len(s) : s[i] = "-"
    BY PieceAssumption DEF OnlyDashes, Segment
  <2>2. CASE s = <<>>
    BY <2>2
  <2>3. CASE s # <<>>
    <3>1. Len(s) >= 1 /\ Len(Tail(s)) = Len(s) - 1 /\ \A i \in 1..Len(s) - 1 : Tail(s)[i] = s[i + 1]
      BY <2>3 DEF Segment
    <3>2. d = Tail(s)
      <4>1. s[1] = "-"
        BY <2>1, <3>1
      <4> QED BY <2>3, <4>1
    <3>3. Tail(s) # <<>> => Len(Tail(s)) >= 1
      BY <2>3 DEF Segment
    <3>4. ASSUME Tail(s) # <<>> PROVE Tail(s)[1] = "-"
      <4>1. 1 \in 1..Len(s) - 1 /\ 2 \in 1..Len(s)
        BY <2>1, <3>1, <3>3, <3>4
      <4>2. Tail(s)[1] = s[1 + 1]
        BY <3>1, <4>1
      <4> QED BY <2>1, <4>1, <4>2
    <3> HIDE DEF d
    <3> QED BY <3>2, <3>3, <3>4
  <2> QED BY <2>2, <2>3
<1>3. d # <<>> => Len(d) \in Nat
  BY DEF Segment
<1>4. ~IsDigits(d)
  <2> HIDE DEF d
  <2> QED BY <1>1, <1>2, <1>3 DEF IsDigits
<1> QED BY <1>4 DEF parse_i32

\* What a number is parsed from makes it a value of its type.
LEMMA ParsedNumber ==
  ASSUME NEW s, parse_i32(s) # None
  PROVE  parse_i32(s)[1] \in i32 /\ parse_i32(s) = Some(parse_i32(s)[1])
BY DEF parse_i32, Some

\* The two words of bool are text, and different.
LEMMA WordsAreText ==
  /\ <<"true">> \in Segment /\ <<"false">> \in Segment
  /\ <<"true">> # <<"false">>
  /\ ~OnlyDashes(<<"true">>) /\ ~OnlyDashes(<<"false">>)
<1>1. "true" \in Char /\ "false" \in Char /\ Dash = "-"
  BY PieceAssumption
<1>2. <<"true">> \in Segment /\ <<"false">> \in Segment
  BY <1>1 DEF Segment
<1>3. <<"true">>[1] = "true" /\ <<"false">>[1] = "false" /\ Len(<<"true">>) = 1 /\ Len(<<"false">>) = 1
  OBVIOUS
<1> QED BY <1>1, <1>2, <1>3 DEF OnlyDashes

\* A piece is read as it was written.
THEOREM PieceRoundTrip ==
  ASSUME NEW type \in Types, NEW v \in Values(type)
  PROVE  /\ render_route_piece(type, v) \in Segment
         /\ parse_route_piece(type, render_route_piece(type, v)) = Some(v)
<1>1. CASE type = "String"
  BY <1>1 DEF Values, render_route_piece, parse_route_piece
<1>2. CASE type = "i32"
  BY <1>2, NumberRoundTrip DEF Values, parse_route_piece
<1>3. CASE type = "bool"
  <2>1. v \in BOOLEAN
    BY <1>3 DEF Values
  <2>2. CASE v = TRUE
    BY <1>3, <2>2, WordsAreText DEF render_route_piece, parse_route_piece
  <2>3. CASE v = FALSE
    BY <1>3, <2>3, WordsAreText DEF render_route_piece, parse_route_piece
  <2> QED BY <2>1, <2>2, <2>3
<1> QED BY <1>1, <1>2, <1>3 DEF Types

\* What is parsed is a value of its type.
LEMMA ParsedPiece ==
  ASSUME NEW type \in Types, NEW s \in Segment, parse_route_piece(type, s) # None
  PROVE  /\ parse_route_piece(type, s)[1] \in Values(type)
         /\ parse_route_piece(type, s) = Some(parse_route_piece(type, s)[1])
<1>1. CASE type = "String"
  BY <1>1 DEF Values, parse_route_piece, Some
<1>2. CASE type = "i32"
  BY <1>2, ParsedNumber DEF Values, parse_route_piece
<1>3. CASE type = "bool"
  BY <1>3 DEF Values, parse_route_piece, Some, None
<1> QED BY <1>1, <1>2, <1>3 DEF Types

\* What is parsed and written again is the same text, but for the spelling of a
\* number; and then it is no segment that normalization changes.
LEMMA SpelledAlike ==
  ASSUME NEW type \in Types, NEW s \in Segment, parse_route_piece(type, s) # None
  PROVE  LET t == render_route_piece(type, parse_route_piece(type, s)[1])
         IN /\ t \in Segment
            /\ SameText(t, s) /\ SameText(s, t)
            /\ t = s \/ (~OnlyDashes(s) /\ ~OnlyDashes(t))
<1> DEFINE v == parse_route_piece(type, s)[1]
           t == render_route_piece(type, v)
<1>1. v \in Values(type) /\ parse_route_piece(type, s) = Some(v)
  BY ParsedPiece
<1>2. t \in Segment
  BY <1>1, PieceRoundTrip
<1>3. CASE type = "String"
  <2>1. t = s
    BY <1>3 DEF render_route_piece, parse_route_piece, Some
  <2> QED BY <1>2, <2>1 DEF SameText
<1>4. CASE type = "i32"
  <2>1. parse_i32(s) = Some(v) /\ v \in i32
    BY <1>1, <1>4 DEF parse_route_piece, Values
  <2>2. parse_i32(t) = Some(v) /\ ~OnlyDashes(t)
    <3> HIDE DEF v
    <3> QED BY <1>4, <2>1, NumberRoundTrip
  <2>3. Some(v) # None
    BY DEF Some, None
  <2>4. ~OnlyDashes(s)
    BY <2>1, <2>3, DashesAreNoNumber
  <2> HIDE DEF t, v
  <2> QED BY <1>2, <2>1, <2>2, <2>3, <2>4 DEF SameText, t, v
<1>5. CASE type = "bool"
  <2>1. s \in {<<"true">>, <<"false">>} /\ v = (s = <<"true">>)
    BY <1>5 DEF parse_route_piece, Some, None
  <2>2. t = s
    <3>1. t = IF v THEN <<"true">> ELSE <<"false">>
      BY <1>5 DEF render_route_piece
    <3> HIDE DEF t, v
    <3>2. CASE s = <<"true">>
      BY <2>1, <3>1, <3>2
    <3>3. CASE s = <<"false">>
      BY <2>1, <3>1, <3>3, WordsAreText
    <3> QED BY <2>1, <3>2, <3>3
  <2> QED BY <1>2, <2>2 DEF SameText
<1> QED BY <1>3, <1>4, <1>5 DEF Types

-----------------------------------------------------------------------------
\* Options and addresses

\* An optional value is none or some.
LEMMA OptionCases ==
  ASSUME NEW S, NEW o \in Option(S)
  PROVE  o = None \/ (o = Some(o[1]) /\ o[1] \in S)
<1>1. o \in Seq(S) /\ Len(o) <= 1 /\ Len(o) \in Nat
  BY DEF Option
<1>2. CASE Len(o) = 0
  BY <1>1, <1>2, EmptySeq DEF None
<1>3. CASE Len(o) = 1
  <2>1. o[1] \in S
    BY <1>1, <1>3
  <2>2. o = <<o[1]>>
    BY <1>1, <1>3
  <2> QED BY <2>1, <2>2 DEF Some
<1>4. Len(o) = 0 \/ Len(o) = 1
  <2> DEFINE n == Len(o)
  <2>1. n \in Nat /\ n <= 1
    BY <1>1
  <2> HIDE DEF n
  <2>2. n = 0 \/ n = 1
    BY <2>1
  <2> QED BY <2>2 DEF n
<1> QED BY <1>2, <1>3, <1>4

\* None and the Some of a member are options.
LEMMA OptionMembers ==
  ASSUME NEW S
  PROVE  None \in Option(S) /\ \A x \in S : Some(x) \in Option(S)
BY DEF Option, None, Some

\* Some holds its value, and so it is not None.
LEMMA SomeFacts == \A x : Some(x) # None /\ Some(x)[1] = x
BY DEF Some, None

\* What rendering and parsing make of one segment.
Dashed(s) == IF OnlyDashes(s) THEN Append(s, Dash) ELSE s
Undashed(s) == IF OnlyDashes(s) THEN drop_one(s) ELSE s

\* A rendered segment is not empty, and parsing takes its dash off again.
LEMMA DashedFacts ==
  ASSUME NEW s \in Segment
  PROVE  Dashed(s) \in Segment /\ Dashed(s) # <<>> /\ Undashed(Dashed(s)) = s
<1>1. CASE ~OnlyDashes(s)
  <2>1. s # <<>>
    BY <1>1 DEF OnlyDashes
  <2> QED BY <1>1, <2>1 DEF Dashed, Undashed
<1>2. CASE OnlyDashes(s)
  <2> DEFINE t == Append(s, Dash)
  <2>1. t \in Segment /\ t # <<>> /\ Len(t) = Len(s) + 1 /\ Len(s) \in Nat
        /\ t[Len(s) + 1] = Dash /\ \A i \in 1..Len(s) : t[i] = s[i]
    BY DashAssumption DEF Segment
  <2>2. OnlyDashes(t)
    <3> HIDE DEF t
    <3> QED BY <1>2, <2>1 DEF OnlyDashes
  <2>3. drop_one(t) = s
    <3> HIDE DEF t
    <3> DEFINE u == SubSeq(t, 1, Len(s))
    <3>1. u \in Seq(Char) /\ Len(u) = Len(s) /\ \A i \in 1..Len(s) : u[i] = t[i]
      BY <2>1 DEF Segment
    <3>2. \A i \in 1..Len(s) : u[i] = s[i]
      BY <2>1, <3>1
    <3>3. u = s
      <4> HIDE DEF u
      <4> QED BY <3>1, <3>2, SeqEqual DEF Segment
    <3>4. Len(t) - 1 = Len(s)
      BY <2>1
    <3> QED BY <3>3, <3>4 DEF drop_one
  <2> QED BY <1>2, <2>1, <2>2, <2>3 DEF Dashed, Undashed
<1> QED BY <1>1, <1>2

\* And a segment that is not empty is what it is parsed to, rendered.
LEMMA UndashedFacts ==
  ASSUME NEW s \in Segment
  PROVE  Undashed(s) \in Segment /\ (s # <<>> => Dashed(Undashed(s)) = s)
<1>1. CASE ~OnlyDashes(s)
  BY <1>1 DEF Dashed, Undashed
<1>2. CASE OnlyDashes(s)
  <2> DEFINE t == drop_one(s)
  <2>1. t \in Segment
    BY DEF drop_one, Segment
  <2>2. ASSUME s # <<>> PROVE OnlyDashes(t) /\ Append(t, Dash) = s
    <3>1. Len(s) \in Nat /\ Len(s) >= 1 /\ Len(t) = Len(s) - 1
          /\ \A i \in 1..Len(s) - 1 : t[i] = s[i]
      <4>1. Len(s) \in Nat /\ Len(s) >= 1
        BY <2>2 DEF Segment
      <4>2. t = SubSeq(s, 1, Len(s) - 1)
        BY DEF drop_one
      <4>3. \A i \in 1..Len(s) - 1 : s[i] \in Char
        BY DEF Segment
      <4> DEFINE n == Len(s) - 1
      <4>4. n \in Nat /\ t = SubSeq(s, 1, n) /\ \A i \in 1..n : s[i] \in Char
        BY <4>1, <4>2, <4>3
      <4> HIDE DEF t, n
      <4>5. Len(t) = n /\ \A i \in 1..n : t[i] = s[i]
        BY <4>4, SubSeqProperties
      <4> QED BY <4>1, <4>5 DEF n
    <3>2. \A i \in 1..Len(s) : s[i] = Dash
      BY <1>2 DEF OnlyDashes
    <3> HIDE DEF t
    <3>3. OnlyDashes(t)
      BY <3>1, <3>2 DEF OnlyDashes
    <3>4. Append(t, Dash) = s
      <4>1. /\ Append(t, Dash) \in Seq(Char) /\ Len(Append(t, Dash)) = Len(s)
            /\ \A i \in 1..Len(s) - 1 : Append(t, Dash)[i] = t[i]
            /\ Append(t, Dash)[Len(s)] = Dash
        BY <2>1, <3>1, DashAssumption DEF Segment
      <4>2. \A i \in 1..Len(s) : Append(t, Dash)[i] = s[i]
        BY <3>1, <3>2, <4>1
      <4> QED BY <4>1, <4>2, SeqEqual DEF Segment
    <3> QED BY <3>3, <3>4
  <2>3. Undashed(s) = t
    BY <1>2 DEF Undashed
  <2> HIDE DEF t
  <2> QED BY <2>1, <2>2, <2>3 DEF Dashed
<1> QED BY <1>1, <1>2

\* A rendered path has no empty segment and parses to what was rendered.
LEMMA RenderThenParse ==
  ASSUME NEW p \in Seq(Segment)
  PROVE  LET rp == normalize_render_path(p)
         IN /\ rp \in Seq(Segment) /\ Len(rp) = Len(p)
            /\ \A i \in 1..Len(p) : rp[i] = Dashed(p[i])
            /\ ~HasEmptySegment(rp)
            /\ Undash(rp) = p
            /\ WirePath(rp) = rp
<1> DEFINE rp == normalize_render_path(p)
<1>1. rp = [i \in 1..Len(p) |-> Dashed(p[i])] /\ Len(p) \in Nat
  BY DEF normalize_render_path, Dashed
<1>2. \A i \in 1..Len(p) : /\ p[i] \in Segment /\ Dashed(p[i]) \in Segment
                           /\ Dashed(p[i]) # <<>> /\ Undashed(Dashed(p[i])) = p[i]
  BY DashedFacts
<1> HIDE DEF rp
<1>3. rp \in Seq(Segment) /\ Len(rp) = Len(p)
  BY <1>1, <1>2
<1>4. \A i \in 1..Len(p) : rp[i] = Dashed(p[i]) /\ rp[i] # <<>>
  BY <1>1, <1>2
<1>5. ~HasEmptySegment(rp)
  BY <1>3, <1>4 DEF HasEmptySegment
<1>6. Undash(rp) = p
  <2>1. Undash(rp) = [i \in 1..Len(p) |-> Undashed(rp[i])]
    BY <1>3 DEF Undash, Undashed
  <2>2. \A i \in 1..Len(p) : Undashed(rp[i]) = p[i]
    BY <1>2, <1>4
  <2>3. Undash(rp) = [i \in 1..Len(p) |-> p[i]]
    BY <2>1, <2>2
  <2>4. p = [i \in 1..Len(p) |-> p[i]]
    OBVIOUS
  <2> QED BY <2>3, <2>4
<1>7. WirePath(rp) = rp
  <2>1. SUFFICES ASSUME rp = << <<>> >> PROVE FALSE
    BY DEF WirePath
  <2>2. 1 \in 1..Len(rp) /\ rp[1] = <<>>
    BY <2>1
  <2> QED BY <1>5, <2>2 DEF HasEmptySegment
<1> QED BY <1>3, <1>4, <1>5, <1>6, <1>7 DEF rp

\* A redirect drops the empty segments.
LEMMA DropEmptyType ==
  ASSUME NEW p \in Seq(Segment)
  PROVE  DropEmpty(p) \in Seq(Segment)
<1> DEFINE w(s) == IF s = <<>> THEN <<>> ELSE <<s>>
           q == [i \in 1..Len(p) |-> w(p[i])]
<1>1. \A s \in Segment : w(s) \in Seq(Segment)
  OBVIOUS
<1>2. DropEmpty(p) = FlattenSeq(q)
  BY DEF DropEmpty
<1> HIDE DEF w
<1>3. q \in Seq(Seq(Segment))
  BY <1>1
<1> HIDE DEF q
<1> QED BY <1>2, <1>3, FlattenSeqType

\* A path without an empty segment loses at most dashes.
LEMMA UndashType ==
  ASSUME NEW p \in Seq(Segment)
  PROVE  /\ Undash(p) \in Seq(Segment) /\ Len(Undash(p)) = Len(p)
         /\ \A i \in 1..Len(p) : Undash(p)[i] = Undashed(p[i])
<1>1. Undash(p) = [i \in 1..Len(p) |-> Undashed(p[i])] /\ Len(p) \in Nat
  BY DEF Undash, Undashed
<1>2. \A i \in 1..Len(p) : Undashed(p[i]) \in Segment
  BY UndashedFacts
<1> QED BY <1>1, <1>2

\* What is read of an address is one.
LEMMA WireType ==
  ASSUME NEW a \in PathAndQuery
  PROVE  Wire(a) \in PathAndQuery
<1>1. a.path \in Seq(Segment) /\ a.query \in Option(Seq(QueryPair))
  BY DEF PathAndQuery
<1>2. WirePath(a.path) \in Seq(Segment)
  BY <1>1 DEF WirePath
<1>3. WireQuery(a.query) \in Option(Seq(QueryPair))
  <2>1. <<>> \in Seq(QueryPair)
    OBVIOUS
  <2> QED BY <1>1, <2>1, OptionMembers DEF WireQuery
<1> QED BY <1>2, <1>3 DEF Wire, PathAndQuery

\* The pairs that QueryMap is made from.
PairsOf(q) == IF q = None THEN <<>> ELSE q[1]

\* They are pairs.
LEMMA PairsType ==
  ASSUME NEW q \in Option(Seq(QueryPair))
  PROVE  PairsOf(q) \in Seq(QueryPair)
BY OptionCases DEF PairsOf

\* Both outcomes of normalize_parse.
LEMMA NormalizeCases ==
  ASSUME NEW a \in PathAndQuery
  PROVE  /\ HasEmptySegment(a.path) =>
              normalize_parse(a) = [ok |-> FALSE, to |-> [path |-> DropEmpty(a.path), query |-> a.query]]
         /\ ~HasEmptySegment(a.path) =>
              normalize_parse(a) = [ok |-> TRUE, to |-> [path |-> Undash(a.path), query |-> a.query]]
         /\ normalize_parse(a).to \in PathAndQuery
<1>1. a.path \in Seq(Segment) /\ a.query \in Option(Seq(QueryPair))
  BY DEF PathAndQuery
<1>2. DropEmpty(a.path) \in Seq(Segment) /\ Undash(a.path) \in Seq(Segment)
  BY <1>1, DropEmptyType, UndashType
<1>3. CASE HasEmptySegment(a.path)
  <2>1. normalize_parse(a) = [ok |-> FALSE, to |-> [path |-> DropEmpty(a.path), query |-> a.query]]
    BY <1>3 DEF normalize_parse
  <2> QED BY <1>1, <1>2, <1>3, <2>1 DEF PathAndQuery
<1>4. CASE ~HasEmptySegment(a.path)
  <2>1. normalize_parse(a) = [ok |-> TRUE, to |-> [path |-> Undash(a.path), query |-> a.query]]
    BY <1>4 DEF normalize_parse
  <2> QED BY <1>1, <1>2, <1>4, <2>1 DEF PathAndQuery
<1> QED BY <1>3, <1>4

-----------------------------------------------------------------------------
\* Variants

RouteValues(fields) == {Literal(s) : s \in Segment} \cup {Field(f) : f \in fields}

\* Field f has exactly one place, in the path or in the query.
InPath(v, f, i) ==
  /\ i \in 1..Len(v.path) /\ v.path[i] = Field(f)
  /\ \A j \in 1..Len(v.path) : v.path[j] = Field(f) => j = i
  /\ \A j \in 1..Len(v.query) : v.query[j][2] # Some(Field(f))

InQuery(v, f, i) ==
  /\ i \in 1..Len(v.query) /\ v.query[i][2] = Some(Field(f))
  /\ \A j \in 1..Len(v.query) : v.query[j][2] = Some(Field(f)) => j = i
  /\ \A j \in 1..Len(v.path) : v.path[j] # Field(f)

\* What the macro makes of a declaration that it takes.
WellFormed(v) ==
  /\ v.path \in Seq(RouteValues(DOMAIN v.types))
  /\ v.query \in Seq(Segment \X Option(RouteValues(DOMAIN v.types)))
  /\ v.query # << << <<>>, None >> >>
  /\ \A f \in DOMAIN v.types :
       /\ v.types[f] \in Types
       /\ (\E i : InPath(v, f, i)) \/ (\E i : InQuery(v, f, i))

\* Values for the fields of a variant.
Args(v) == {args \in [DOMAIN v.types -> UNION {Values(t) : t \in Types}] :
              \A f \in DOMAIN v.types : args[f] \in Values(v.types[f])}

\* The segments and pairs that a route of v is written with.
WrittenPath(v, args) == [i \in 1..Len(v.path) |-> written(v, args, v.path[i])]
WrittenPair(v, args, q) == <<q[1], IF q[2] = None THEN None ELSE Some(written(v, args, q[2][1]))>>
WrittenPairs(v, args) == [i \in 1..Len(v.query) |-> WrittenPair(v, args, v.query[i])]

\* A route value is a literal or a field, and tells which.
LEMMA ValueFacts ==
  /\ \A s : Literal(s).literal = Some(s) /\ Literal(s).literal # None /\ Literal(s).literal[1] = s
  /\ \A f : Field(f).literal = None /\ Field(f).field[1] = f
  /\ \A f, g : Field(f) = Field(g) => f = g
  /\ \A s, f : Literal(s) # Field(f)
<1>1. \A s : Literal(s).literal = Some(s) /\ Literal(s).literal # None /\ Literal(s).literal[1] = s
  BY SomeFacts DEF Literal
<1>2. \A f : Field(f).literal = None /\ Field(f).field[1] = f
  BY SomeFacts DEF Field
<1> QED BY <1>1, <1>2

\* What a route value writes, it accepts.
LEMMA WrittenIsAccepted ==
  ASSUME NEW v, WellFormed(v), NEW args \in Args(v), NEW rv \in RouteValues(DOMAIN v.types)
  PROVE  /\ written(v, args, rv) \in Segment
         /\ accepts(v, rv, written(v, args, rv))
         /\ \A f \in DOMAIN v.types :
              rv = Field(f) => parse_route_piece(v.types[f], written(v, args, rv)) = Some(args[f])
         /\ rv.literal # None => written(v, args, rv) = rv.literal[1]
<1>1. CASE \E s \in Segment : rv = Literal(s)
  <2>1. PICK s \in Segment : rv = Literal(s)
    BY <1>1
  <2>2. rv.literal # None /\ rv.literal[1] = s /\ \A f : rv # Field(f)
    BY <2>1, ValueFacts
  <2> QED BY <2>2 DEF written, accepts
<1>2. CASE \E f \in DOMAIN v.types : rv = Field(f)
  <2>1. PICK f \in DOMAIN v.types : rv = Field(f)
    BY <1>2
  <2>2. rv.literal = None /\ rv.field[1] = f /\ \A g : rv = Field(g) => g = f
    BY <2>1, ValueFacts
  <2>3. v.types[f] \in Types /\ args[f] \in Values(v.types[f])
    BY DEF WellFormed, Args
  <2> DEFINE t == render_route_piece(v.types[f], args[f])
  <2>4. t \in Segment /\ parse_route_piece(v.types[f], t) = Some(args[f])
    BY <2>3, PieceRoundTrip
  <2>5. written(v, args, rv) = t
    BY <2>2 DEF written
  <2> HIDE DEF t
  <2>6. accepts(v, rv, t)
    BY <2>2, <2>4, SomeFacts DEF accepts
  <2> QED BY <2>2, <2>4, <2>5, <2>6
<1> QED BY <1>1, <1>2 DEF RouteValues

\* A path and a query are written.
LEMMA WrittenType ==
  ASSUME NEW v, WellFormed(v), NEW args \in Args(v)
  PROVE  /\ WrittenPath(v, args) \in Seq(Segment)
         /\ Len(WrittenPath(v, args)) = Len(v.path)
         /\ WrittenPairs(v, args) \in Seq(QueryPair)
         /\ Len(WrittenPairs(v, args)) = Len(v.query)
         /\ WrittenPairs(v, args) # << << <<>>, None >> >>
<1> DEFINE D == DOMAIN v.types
<1>0. /\ Len(v.path) \in Nat /\ Len(v.query) \in Nat
      /\ \A i \in 1..Len(v.path) : v.path[i] \in RouteValues(D)
      /\ \A i \in 1..Len(v.query) : v.query[i] \in Segment \X Option(RouteValues(D))
  BY DEF WellFormed
<1>1. \A i \in 1..Len(v.path) : written(v, args, v.path[i]) \in Segment
  BY <1>0, WrittenIsAccepted
<1>2. ASSUME NEW i \in 1..Len(v.query)
      PROVE  /\ WrittenPair(v, args, v.query[i]) \in QueryPair
             /\ v.query[i] = <<v.query[i][1], v.query[i][2]>>
  <2>1. v.query[i][1] \in Segment /\ v.query[i][2] \in Option(RouteValues(D))
        /\ v.query[i] = <<v.query[i][1], v.query[i][2]>>
    BY <1>0
  <2>2. v.query[i][2] # None => v.query[i][2][1] \in RouteValues(D)
    BY <2>1, OptionCases
  <2>3. v.query[i][2] # None => written(v, args, v.query[i][2][1]) \in Segment
    BY <2>2, WrittenIsAccepted
  <2>4. (IF v.query[i][2] = None THEN None ELSE Some(written(v, args, v.query[i][2][1])))
          \in Option(Segment)
    BY <2>3, OptionMembers
  <2> QED BY <2>1, <2>4 DEF WrittenPair, QueryPair
<1>3. WrittenPath(v, args) \in Seq(Segment) /\ Len(WrittenPath(v, args)) = Len(v.path)
  BY <1>0, <1>1 DEF WrittenPath
<1>4. WrittenPairs(v, args) \in Seq(QueryPair) /\ Len(WrittenPairs(v, args)) = Len(v.query)
  BY <1>0, <1>2 DEF WrittenPairs
<1>5. WrittenPairs(v, args) # << << <<>>, None >> >>
  <2>1. SUFFICES ASSUME WrittenPairs(v, args) = << << <<>>, None >> >> PROVE FALSE
    OBVIOUS
  <2>2. Len(v.query) = 1 /\ WrittenPairs(v, args)[1] = << <<>>, None >>
    BY <1>4, <2>1
  <2>3. 1 \in 1..Len(v.query)
    BY <2>2
  <2>4. WrittenPair(v, args, v.query[1]) = << <<>>, None >>
    BY <2>2, <2>3 DEF WrittenPairs
  <2>5. v.query[1][1] = <<>> /\ v.query[1][2] = None
    BY <2>4, SomeFacts DEF WrittenPair
  <2>6. v.query[1] = << <<>>, None >>
    BY <1>2, <2>3, <2>5
  <2>7. v.query = << << <<>>, None >> >>
    <3>1. v.query \in Seq(Segment \X Option(RouteValues(D)))
      BY DEF WellFormed
    <3>2. v.query = <<v.query[1]>>
      BY <2>2, <3>1
    <3> QED BY <2>6, <3>2
  <2> QED BY <2>7 DEF WellFormed
<1> QED BY <1>3, <1>4, <1>5

-----------------------------------------------------------------------------
\* Queries

\* The only value of a key is the one that get_single finds.
LEMMA OnlyValue ==
  ASSUME NEW pairs, NEW key, NEW i \in 1..Len(pairs), valued(pairs, key) = {i}
  PROVE  get_single(pairs, key) = pairs[i][2] /\ get_single(pairs, key) # None
<1>1. i \in valued(pairs, key)
  OBVIOUS
<1>2. pairs[i][2] # None
  BY <1>1 DEF valued
<1>3. (CHOOSE k \in valued(pairs, key) : TRUE) = i
  OBVIOUS
<1>4. \E k \in valued(pairs, key) : valued(pairs, key) = {k}
  BY <1>1
<1> QED BY <1>2, <1>3, <1>4 DEF get_single

\* And what it finds is the only value.
LEMMA FoundValue ==
  ASSUME NEW pairs, NEW key, get_single(pairs, key) # None
  PROVE  \E i \in 1..Len(pairs) :
           /\ valued(pairs, key) = {i}
           /\ pairs[i][1] = key /\ pairs[i][2] # None
           /\ get_single(pairs, key) = pairs[i][2]
<1>1. \E k \in valued(pairs, key) : valued(pairs, key) = {k}
  BY DEF get_single
<1>2. PICK i \in valued(pairs, key) : valued(pairs, key) = {i}
  BY <1>1
<1>3. i \in 1..Len(pairs) /\ pairs[i][1] = key /\ pairs[i][2] # None
  BY DEF valued
<1> QED BY <1>2, <1>3, OnlyValue

\* A key has a value in a written query where it has one in its variant.
LEMMA WrittenKeys ==
  ASSUME NEW v, WellFormed(v), NEW args \in Args(v), NEW key
  PROVE  /\ contains(WrittenPairs(v, args), key) <=> contains(v.query, key)
         /\ valued(WrittenPairs(v, args), key) = valued(v.query, key)
<1> DEFINE w == WrittenPairs(v, args)
<1>1. Len(w) = Len(v.query)
  BY WrittenType
<1>2. ASSUME NEW i \in 1..Len(v.query)
      PROVE  w[i][1] = v.query[i][1] /\ (w[i][2] = None <=> v.query[i][2] = None)
  BY SomeFacts DEF WrittenPairs, WrittenPair
<1> HIDE DEF w
<1>3. contains(w, key) <=> contains(v.query, key)
  BY <1>1, <1>2 DEF contains
<1>4. valued(w, key) = valued(v.query, key)
  BY <1>1, <1>2 DEF valued
<1> QED BY <1>3, <1>4 DEF w

\* A route with single keys finds what it has written.
LEMMA WrittenIsFound ==
  ASSUME NEW v, WellFormed(v), NEW args \in Args(v), KeysAreSingle(v),
         NEW i \in 1..Len(v.query), v.query[i][2] # None
  PROVE  get_single(WrittenPairs(v, args), v.query[i][1]) = Some(written(v, args, v.query[i][2][1]))
<1> DEFINE w == WrittenPairs(v, args)
           key == v.query[i][1]
<1>1. valued(v.query, key) = {i}
  <2>1. i \in valued(v.query, key)
    BY DEF valued
  <2>2. ASSUME NEW j \in valued(v.query, key) PROVE j = i
    BY DEF valued, KeysAreSingle
  <2> QED BY <2>1, <2>2
<1>2. valued(w, key) = {i} /\ i \in 1..Len(w)
  BY <1>1, WrittenKeys, WrittenType
<1>3. w[i][2] = Some(written(v, args, v.query[i][2][1]))
  BY DEF WrittenPairs, WrittenPair
<1> HIDE DEF w, key
<1>4. get_single(w, key) = w[i][2]
  BY <1>2, OnlyValue
<1> QED BY <1>3, <1>4 DEF w, key

-----------------------------------------------------------------------------
\* Parsing

\* Its own path and query fit a variant.
LEMMA OwnPathFits ==
  ASSUME NEW v, WellFormed(v), NEW args \in Args(v)
  PROVE  path_matches(v, WrittenPath(v, args))
<1>1. \A i \in 1..Len(v.path) : v.path[i] \in RouteValues(DOMAIN v.types)
  BY DEF WellFormed
<1>2. \A i \in 1..Len(v.path) : accepts(v, v.path[i], WrittenPath(v, args)[i])
  BY <1>1, WrittenIsAccepted DEF WrittenPath
<1> QED BY <1>2, WrittenType DEF path_matches

\* And so does its query when no key has two values.
LEMMA OwnQueryFits ==
  ASSUME NEW v, WellFormed(v), NEW args \in Args(v), KeysAreSingle(v)
  PROVE  query_matches(v, WrittenPairs(v, args))
<1> DEFINE w == WrittenPairs(v, args)
           D == DOMAIN v.types
<1> SUFFICES ASSUME NEW i \in 1..Len(v.query)
             PROVE  LET key == v.query[i][1]  value == v.query[i][2]
                    IN IF value = None THEN contains(w, key)
                       ELSE get_single(w, key) # None /\ accepts(v, value[1], get_single(w, key)[1])
  BY DEF query_matches
<1>1. v.query[i][2] \in Option(RouteValues(D))
  BY DEF WellFormed
<1>2. CASE v.query[i][2] = None
  <2>1. contains(v.query, v.query[i][1])
    BY DEF contains
  <2> HIDE DEF w
  <2> QED BY <1>2, <2>1, WrittenKeys DEF w
<1>3. CASE v.query[i][2] # None
  <2> DEFINE rv == v.query[i][2][1]
  <2>1. rv \in RouteValues(D)
    BY <1>1, <1>3, OptionCases
  <2>2. accepts(v, rv, written(v, args, rv))
    BY <2>1, WrittenIsAccepted
  <2>3. get_single(w, v.query[i][1]) = Some(written(v, args, rv))
    BY <1>3, WrittenIsFound
  <2> HIDE DEF w
  <2> QED BY <1>3, <2>2, <2>3, SomeFacts
<1> QED BY <1>2, <1>3

\* A variant that is apart does not take them.
LEMMA ApartMisses ==
  ASSUME NEW p, WellFormed(p), NEW v, WellFormed(v), NEW args \in Args(v), Apart(p, v)
  PROVE  ~(path_matches(p, WrittenPath(v, args)) /\ query_matches(p, WrittenPairs(v, args)))
<1> DEFINE s == WrittenPath(v, args)
           w == WrittenPairs(v, args)
<1> SUFFICES ASSUME path_matches(p, s), query_matches(p, w) PROVE FALSE
  OBVIOUS
<1>1. Len(p.path) = Len(v.path)
  BY WrittenType DEF path_matches
<1>2. ASSUME NEW i \in 1..Len(p.path), p.path[i].literal # None, v.path[i].literal # None
      PROVE  p.path[i].literal = v.path[i].literal
  <2>1. p.path[i] \in RouteValues(DOMAIN p.types) /\ v.path[i] \in RouteValues(DOMAIN v.types)
    BY <1>1 DEF WellFormed
  <2>2. p.path[i] = Literal(p.path[i].literal[1]) /\ v.path[i] = Literal(v.path[i].literal[1])
    BY <1>2, <2>1, ValueFacts DEF RouteValues
  <2>3. s[i] = v.path[i].literal[1]
    BY <1>1, <1>2, <2>1, WrittenIsAccepted DEF WrittenPath
  <2>4. s[i] = p.path[i].literal[1]
    BY <1>2 DEF path_matches, accepts
  <2> QED BY <2>2, <2>3, <2>4
<1>3. ASSUME NEW k \in 1..Len(p.query)
      PROVE  LET key == p.query[k][1]  value == p.query[k][2]
             IN /\ contains(v.query, key)
                /\ value # None =>
                     \E i \in valued(v.query, key) :
                       value[1].literal # None /\ v.query[i][2][1].literal # None =>
                         v.query[i][2][1].literal = value[1].literal
  <2> DEFINE key == p.query[k][1]
             value == p.query[k][2]
  <2>1. IF value = None THEN contains(w, key)
        ELSE get_single(w, key) # None /\ accepts(p, value[1], get_single(w, key)[1])
    BY DEF query_matches
  <2>2. value \in Option(RouteValues(DOMAIN p.types))
    BY DEF WellFormed
  <2> HIDE DEF w, key, value
  <2>3. CASE value = None
    BY <2>1, <2>3, WrittenKeys DEF w, key, value
  <2>4. CASE value # None
    <3>1. PICK i \in 1..Len(w) : /\ valued(w, key) = {i} /\ w[i][1] = key /\ w[i][2] # None
                                 /\ get_single(w, key) = w[i][2]
      BY <2>1, <2>4, FoundValue
    <3>2. contains(w, key)
      BY <3>1 DEF contains
    <3>3. contains(v.query, key) /\ i \in valued(v.query, key)
      BY <3>1, <3>2, WrittenKeys DEF w
    <3>4. i \in 1..Len(v.query) /\ v.query[i][2] # None
      BY <3>3 DEF valued
    <3> DEFINE rv == v.query[i][2][1]
    <3>5. rv \in RouteValues(DOMAIN v.types)
      <4>1. v.query[i][2] \in Option(RouteValues(DOMAIN v.types))
        BY <3>4 DEF WellFormed
      <4> QED BY <3>4, <4>1, OptionCases
    <3>6. w[i][2] = Some(written(v, args, rv))
      BY <3>4 DEF w, WrittenPairs, WrittenPair
    <3>7. accepts(p, value[1], written(v, args, rv))
      BY <2>1, <2>4, <3>1, <3>6, SomeFacts
    <3>8. ASSUME value[1].literal # None, rv.literal # None PROVE rv.literal = value[1].literal
      <4>1. value[1] \in RouteValues(DOMAIN p.types)
        BY <2>2, <2>4, OptionCases
      <4>2. rv = Literal(rv.literal[1]) /\ value[1] = Literal(value[1].literal[1])
        BY <3>5, <3>8, <4>1, ValueFacts DEF RouteValues
      <4>3. written(v, args, rv) = rv.literal[1]
        BY <3>5, <3>8, WrittenIsAccepted
      <4>4. written(v, args, rv) = value[1].literal[1]
        BY <3>7, <3>8 DEF accepts
      <4> QED BY <4>2, <4>3, <4>4
    <3> QED BY <3>3, <3>8 DEF key, value
  <2> QED BY <2>3, <2>4
<1>4. ASSUME NEW i \in 1..Len(p.path), p.path[i].literal # None, v.path[i].literal # None,
             p.path[i].literal # v.path[i].literal
      PROVE  FALSE
  BY <1>2, <1>4
<1>5. ASSUME NEW k \in 1..Len(p.query),
             LET key == p.query[k][1]  value == p.query[k][2]
             IN \/ ~contains(v.query, key)
                \/ value # None /\ valued(v.query, key) = {}
                \/ /\ value # None /\ value[1].literal # None
                   /\ \A i \in valued(v.query, key) :
                        /\ v.query[i][2][1].literal # None
                        /\ v.query[i][2][1].literal # value[1].literal
      PROVE  FALSE
  BY <1>3, <1>5
<1> QED BY <1>1, <1>4, <1>5 DEF Apart

\* The text that construct parses for a field.
TextOf(v, segments, pairs, f) ==
  LET inPath == {i \in 1..Len(v.path) : v.path[i] = Field(f)}
      inQuery == CHOOSE i \in 1..Len(v.query) : v.query[i][2] = Some(Field(f))
  IN IF inPath # {} THEN segments[CHOOSE i \in inPath : TRUE]
     ELSE get_single(pairs, v.query[inQuery][1])[1]

\* The fields are parsed from their texts.
LEMMA ConstructDef ==
  ASSUME NEW v, NEW segments, NEW pairs
  PROVE  construct(v, segments, pairs) =
           [f \in DOMAIN v.types |-> parse_route_piece(v.types[f], TextOf(v, segments, pairs, f))[1]]
BY DEF construct, TextOf

\* It is found at the one place of the field.
LEMMA TextInPath ==
  ASSUME NEW v, NEW segments, NEW pairs, NEW f, NEW i, InPath(v, f, i)
  PROVE  TextOf(v, segments, pairs, f) = segments[i]
<1> DEFINE inPath == {j \in 1..Len(v.path) : v.path[j] = Field(f)}
<1>1. inPath = {i}
  BY DEF InPath
<1>2. inPath # {} /\ (CHOOSE j \in inPath : TRUE) = i
  BY <1>1
<1> QED BY <1>2 DEF TextOf

\* Or it is the value of its key.
LEMMA TextInQuery ==
  ASSUME NEW v, NEW segments, NEW pairs, NEW f, NEW i, InQuery(v, f, i)
  PROVE  TextOf(v, segments, pairs, f) = get_single(pairs, v.query[i][1])[1]
<1>1. {j \in 1..Len(v.path) : v.path[j] = Field(f)} = {}
  BY DEF InQuery
<1>2. (CHOOSE j \in 1..Len(v.query) : v.query[j][2] = Some(Field(f))) = i
  BY DEF InQuery
<1> QED BY <1>1, <1>2 DEF TextOf

\* A route is made of what it was written with.
LEMMA OwnFields ==
  ASSUME NEW v, WellFormed(v), NEW args \in Args(v), KeysAreSingle(v)
  PROVE  construct(v, WrittenPath(v, args), WrittenPairs(v, args)) = args
<1> DEFINE s == WrittenPath(v, args)
           w == WrittenPairs(v, args)
           D == DOMAIN v.types
<1>1. ASSUME NEW f \in D PROVE parse_route_piece(v.types[f], TextOf(v, s, w, f))[1] = args[f]
  <2>0. Field(f) \in RouteValues(D)
    BY DEF RouteValues
  <2>1. parse_route_piece(v.types[f], written(v, args, Field(f))) = Some(args[f])
    BY <2>0, WrittenIsAccepted
  <2>2. TextOf(v, s, w, f) = written(v, args, Field(f))
    <3>1. ASSUME NEW i, InPath(v, f, i) PROVE TextOf(v, s, w, f) = written(v, args, Field(f))
      <4>1. TextOf(v, s, w, f) = s[i]
        BY <3>1, TextInPath
      <4>2. s[i] = written(v, args, Field(f))
        BY <3>1 DEF InPath, WrittenPath
      <4> QED BY <4>1, <4>2
    <3>2. ASSUME NEW i, InQuery(v, f, i) PROVE TextOf(v, s, w, f) = written(v, args, Field(f))
      <4>1. TextOf(v, s, w, f) = get_single(w, v.query[i][1])[1]
        BY <3>2, TextInQuery
      <4>2. i \in 1..Len(v.query) /\ v.query[i][2] = Some(Field(f))
        BY <3>2 DEF InQuery
      <4>3. v.query[i][2] # None /\ v.query[i][2][1] = Field(f)
        BY <4>2, SomeFacts
      <4>4. get_single(w, v.query[i][1]) = Some(written(v, args, Field(f)))
        BY <4>2, <4>3, WrittenIsFound
      <4> QED BY <4>1, <4>4, SomeFacts
    <3> QED BY <3>1, <3>2 DEF WellFormed
  <2> QED BY <2>1, <2>2, SomeFacts
<1>2. args = [f \in D |-> args[f]]
  BY DEF Args
<1> HIDE DEF s, w
<1>3. construct(v, s, w) = [f \in D |-> args[f]]
  BY <1>1, ConstructDef
<1> QED BY <1>2, <1>3 DEF s, w

\* The text of each field of a variant that matches is a piece of its type.
LEMMA FieldText ==
  ASSUME NEW v, WellFormed(v), NEW segments \in Seq(Segment), NEW pairs \in Seq(QueryPair),
         path_matches(v, segments), query_matches(v, pairs), NEW f \in DOMAIN v.types
  PROVE  /\ TextOf(v, segments, pairs, f) \in Segment
         /\ parse_route_piece(v.types[f], TextOf(v, segments, pairs, f)) # None
<1> DEFINE text == TextOf(v, segments, pairs, f)
<1>1. Field(f).literal = None /\ Field(f).field[1] = f
  BY ValueFacts
<1>2. ASSUME NEW t, accepts(v, Field(f), t) PROVE parse_route_piece(v.types[f], t) # None
  BY <1>1, <1>2 DEF accepts
<1>3. ASSUME NEW i, InPath(v, f, i) PROVE text \in Segment /\ accepts(v, Field(f), text)
  <2>1. text = segments[i]
    BY <1>3, TextInPath
  <2>2. i \in 1..Len(v.path) /\ v.path[i] = Field(f)
    BY <1>3 DEF InPath
  <2>3. Len(segments) = Len(v.path) /\ accepts(v, v.path[i], segments[i])
    BY <2>2 DEF path_matches
  <2>4. segments[i] \in Segment
    BY <2>2, <2>3
  <2> HIDE DEF text
  <2> QED BY <2>1, <2>2, <2>3, <2>4
<1>4. ASSUME NEW i, InQuery(v, f, i) PROVE text \in Segment /\ accepts(v, Field(f), text)
  <2> DEFINE key == v.query[i][1]
  <2>1. text = get_single(pairs, key)[1]
    BY <1>4, TextInQuery
  <2>2. i \in 1..Len(v.query) /\ v.query[i][2] = Some(Field(f))
    BY <1>4 DEF InQuery
  <2>3. v.query[i][2] # None /\ v.query[i][2][1] = Field(f)
    BY <2>2, SomeFacts
  <2>4. get_single(pairs, key) # None /\ accepts(v, Field(f), get_single(pairs, key)[1])
    BY <2>2, <2>3 DEF query_matches
  <2> HIDE DEF key, text
  <2>5. PICK j \in 1..Len(pairs) : pairs[j][2] # None /\ get_single(pairs, key) = pairs[j][2]
    BY <2>4, FoundValue
  <2>6. pairs[j][2] \in Option(Segment)
    BY DEF QueryPair
  <2>7. get_single(pairs, key)[1] \in Segment
    BY <2>5, <2>6, OptionCases
  <2> QED BY <2>1, <2>4, <2>7
<1> HIDE DEF text
<1>5. text \in Segment /\ accepts(v, Field(f), text)
  BY <1>3, <1>4 DEF WellFormed
<1> QED BY <1>2, <1>5 DEF text

\* So the fields that are constructed have values of their types.
LEMMA ConstructedArgs ==
  ASSUME NEW v, WellFormed(v), NEW segments \in Seq(Segment), NEW pairs \in Seq(QueryPair),
         path_matches(v, segments), query_matches(v, pairs)
  PROVE  construct(v, segments, pairs) \in Args(v)
<1> DEFINE D == DOMAIN v.types
           args == construct(v, segments, pairs)
<1>1. args = [f \in D |-> parse_route_piece(v.types[f], TextOf(v, segments, pairs, f))[1]]
  BY ConstructDef
<1>2. ASSUME NEW f \in D PROVE v.types[f] \in Types /\ args[f] \in Values(v.types[f])
  <2>1. v.types[f] \in Types
    BY DEF WellFormed
  <2> HIDE DEF args
  <2>2. args[f] = parse_route_piece(v.types[f], TextOf(v, segments, pairs, f))[1]
    BY <1>1
  <2> QED BY <2>1, <2>2, FieldText, ParsedPiece
<1> HIDE DEF args
<1>3. args \in [D -> UNION {Values(t) : t \in Types}]
  BY <1>1, <1>2
<1> QED BY <1>2, <1>3 DEF Args, args

\* A text is spelled as itself.
LEMMA SameTextReflexive == \A s : SameText(s, s)
BY DEF SameText

\* And they are written as they were found, but for the spelling of numbers.
LEMMA WrittenBack ==
  ASSUME NEW v, WellFormed(v), NEW segments, NEW pairs,
         NEW rv \in RouteValues(DOMAIN v.types), NEW text \in Segment, accepts(v, rv, text),
         \A f \in DOMAIN v.types : rv = Field(f) => TextOf(v, segments, pairs, f) = text
  PROVE  LET t == written(v, construct(v, segments, pairs), rv)
         IN /\ t \in Segment
            /\ SameText(t, text) /\ SameText(text, t)
            /\ t = text \/ (~OnlyDashes(text) /\ ~OnlyDashes(t))
<1> DEFINE args == construct(v, segments, pairs)
<1>1. CASE \E s \in Segment : rv = Literal(s)
  <2>1. PICK s \in Segment : rv = Literal(s)
    BY <1>1
  <2>2. rv.literal # None /\ rv.literal[1] = s
    BY <2>1, ValueFacts
  <2>3. text = s /\ written(v, args, rv) = s
    BY <2>2 DEF accepts, written
  <2> QED BY <2>3, SameTextReflexive
<1>2. CASE \E f \in DOMAIN v.types : rv = Field(f)
  <2>1. PICK f \in DOMAIN v.types : rv = Field(f)
    BY <1>2
  <2>2. rv.literal = None /\ rv.field[1] = f
    BY <2>1, ValueFacts
  <2>3. v.types[f] \in Types
    BY DEF WellFormed
  <2>4. parse_route_piece(v.types[f], text) # None
    BY <2>2 DEF accepts
  <2>5. args[f] = parse_route_piece(v.types[f], text)[1]
    BY <2>1, ConstructDef
  <2>6. written(v, args, rv) = render_route_piece(v.types[f], parse_route_piece(v.types[f], text)[1])
    BY <2>2, <2>5 DEF written
  <2> QED BY <2>3, <2>4, <2>6, SpelledAlike
<1> QED BY <1>1, <1>2 DEF RouteValues

\* The segments that matched are those of the route that is made of them.
LEMMA PathShown ==
  ASSUME NEW v, WellFormed(v), NEW segments \in Seq(Segment), NEW pairs,
         path_matches(v, segments), NEW i \in 1..Len(v.path)
  PROVE  LET t == WrittenPath(v, construct(v, segments, pairs))[i]
         IN /\ t \in Segment /\ segments[i] \in Segment
            /\ SameText(t, segments[i])
            /\ t = segments[i] \/ (~OnlyDashes(segments[i]) /\ ~OnlyDashes(t))
<1> DEFINE rv == v.path[i]
<1>1. rv \in RouteValues(DOMAIN v.types)
  BY DEF WellFormed
<1>2. accepts(v, rv, segments[i]) /\ Len(segments) = Len(v.path)
  BY DEF path_matches
<1>3. segments[i] \in Segment
  BY <1>2
<1>4. ASSUME NEW f \in DOMAIN v.types, rv = Field(f)
      PROVE  TextOf(v, segments, pairs, f) = segments[i]
  <2>1. PICK k : InPath(v, f, k) \/ InQuery(v, f, k)
    BY DEF WellFormed
  <2>2. InPath(v, f, k) /\ k = i
    BY <1>4, <2>1 DEF InPath, InQuery
  <2> QED BY <2>2, TextInPath
<1>5. WrittenPath(v, construct(v, segments, pairs))[i] = written(v, construct(v, segments, pairs), rv)
  BY DEF WrittenPath
<1> HIDE DEF rv
<1> QED BY <1>1, <1>2, <1>3, <1>4, <1>5, WrittenBack

\* And so are the pairs.
LEMMA PairShown ==
  ASSUME NEW v, WellFormed(v), NEW segments \in Seq(Segment), NEW pairs \in Seq(QueryPair),
         query_matches(v, pairs), NEW i \in 1..Len(v.query)
  PROVE  LET key == v.query[i][1]
             t == WrittenPairs(v, construct(v, segments, pairs))[i]
         IN /\ t[1] = key
            /\ contains(pairs, key)
            /\ t[2] # None => \A j \in 1..Len(pairs) :
                 pairs[j][1] = key /\ pairs[j][2] # None => SameText(pairs[j][2][1], t[2][1])
<1> DEFINE key == v.query[i][1]
           value == v.query[i][2]
           args == construct(v, segments, pairs)
           t == WrittenPairs(v, args)[i]
<1>1. value \in Option(RouteValues(DOMAIN v.types))
  BY DEF WellFormed
<1>2. IF value = None THEN contains(pairs, key)
      ELSE get_single(pairs, key) # None /\ accepts(v, value[1], get_single(pairs, key)[1])
  BY DEF query_matches
<1>3. t[1] = key /\ (value = None => t[2] = None)
      /\ (value # None => t[2] = Some(written(v, args, value[1])))
  BY DEF WrittenPairs, WrittenPair
<1>4. ASSUME NEW f, value = Some(Field(f)), f \in DOMAIN v.types
      PROVE  TextOf(v, segments, pairs, f) = get_single(pairs, key)[1]
  <2>1. PICK k : InPath(v, f, k) \/ InQuery(v, f, k)
    BY <1>4 DEF WellFormed
  <2>2. InQuery(v, f, k) /\ k = i
    BY <1>4, <2>1 DEF InPath, InQuery
  <2> QED BY <2>2, TextInQuery
<1> HIDE DEF key, value, args, t
<1>5. CASE value = None
  BY <1>2, <1>3, <1>5 DEF key, args, t
<1>6. CASE value # None
  <2>1. PICK k \in 1..Len(pairs) : /\ valued(pairs, key) = {k} /\ pairs[k][1] = key
                                   /\ pairs[k][2] # None /\ get_single(pairs, key) = pairs[k][2]
    BY <1>2, <1>6, FoundValue
  <2>2. pairs[k][2] \in Option(Segment)
    BY DEF QueryPair
  <2>3. pairs[k][2][1] \in Segment
    BY <2>1, <2>2, OptionCases
  <2>4. value[1] \in RouteValues(DOMAIN v.types) /\ value = Some(value[1])
    BY <1>1, <1>6, OptionCases
  <2>5. accepts(v, value[1], pairs[k][2][1])
    BY <1>2, <1>6, <2>1
  <2>6. \A f \in DOMAIN v.types : value[1] = Field(f) => TextOf(v, segments, pairs, f) = pairs[k][2][1]
    BY <1>4, <2>1, <2>4
  <2>7. SameText(pairs[k][2][1], written(v, args, value[1]))
    BY <2>3, <2>4, <2>5, <2>6, WrittenBack DEF args
  <2>8. t[2][1] = written(v, args, value[1])
    BY <1>3, <1>6, SomeFacts
  <2>9. contains(pairs, key)
    BY <2>1 DEF contains
  <2>10. \A j \in 1..Len(pairs) : pairs[j][1] = key /\ pairs[j][2] # None => j = k
    BY <2>1 DEF valued
  <2> QED BY <1>3, <2>7, <2>8, <2>9, <2>10 DEF key, args, t
<1> QED BY <1>5, <1>6

-----------------------------------------------------------------------------
\* The macro

\* The two sides of a route attribute are text.
LEMMA RawTypes ==
  ASSUME NEW route \in Segment
  PROVE  /\ raw_segments(route) \in Seq(Segment)
         /\ raw_query(route) \in Option(Segment)
<1> DEFINE i == find(route, "?")
<1>1. i \in 0..Len(route) /\ Len(route) \in Nat
  BY FindType DEF Segment
<1> HIDE DEF i
<1>2. SubSeq(route, 1, i - 1) \in Segment /\ SubSeq(route, i + 1, Len(route)) \in Segment
  BY <1>1 DEF Segment
<1>3. ASSUME NEW s \in Segment PROVE strip_prefix(s, "/") \in Segment
  BY DEF strip_prefix, Segment
<1>4. raw_path(route) \in Segment
  <2>1. raw_path(route) = strip_prefix(IF i = 0 THEN route ELSE SubSeq(route, 1, i - 1), "/")
    BY DEF raw_path, i
  <2> QED BY <1>2, <1>3, <2>1
<1>5. raw_segments(route) \in Seq(Segment)
  <2>1. split(raw_path(route), "/") \in Seq(Segment)
    BY <1>4, SplitType DEF Segment
  <2> QED BY <2>1 DEF raw_segments
<1>6. raw_query(route) = IF i = 0 THEN None ELSE Some(SubSeq(route, i + 1, Len(route)))
  BY DEF raw_query, i
<1>7. raw_query(route) \in Option(Segment)
  BY <1>2, <1>6, OptionMembers
<1> QED BY <1>5, <1>7

\* So is each pair; only an empty text makes one of nothing.
LEMMA RawPair ==
  ASSUME NEW s \in Segment
  PROVE  /\ raw_pair(s) \in QueryPair
         /\ raw_pair(s) = << <<>>, None >> => s = <<>>
<1> DEFINE i == find(s, "=")
<1>1. i \in 0..Len(s) /\ Len(s) \in Nat
  BY FindType DEF Segment
<1>2. raw_pair(s) = IF i = 0 THEN <<s, None>>
                    ELSE <<SubSeq(s, 1, i - 1), Some(SubSeq(s, i + 1, Len(s)))>>
  BY DEF raw_pair
<1> HIDE DEF i
<1>3. SubSeq(s, 1, i - 1) \in Segment /\ SubSeq(s, i + 1, Len(s)) \in Segment
  BY <1>1 DEF Segment
<1>4. raw_pair(s) \in QueryPair
  <2> DEFINE a == SubSeq(s, 1, i - 1)
             b == SubSeq(s, i + 1, Len(s))
  <2>1. None \in Option(Segment) /\ Some(b) \in Option(Segment) /\ a \in Segment
    BY <1>3, OptionMembers
  <2> HIDE DEF a, b
  <2>2. <<s, None>> \in QueryPair /\ <<a, Some(b)>> \in QueryPair
    BY <2>1 DEF QueryPair
  <2> QED BY <1>2, <2>2 DEF a, b
<1>5. raw_pair(s) = << <<>>, None >> => s = <<>>
  BY <1>2, SomeFacts
<1> QED BY <1>4, <1>5

\* They are pairs, and never the one that a query loses.
LEMMA RawPairs ==
  ASSUME NEW route \in Segment, raw_query(route) # Some(<<>>)
  PROVE  /\ raw_pairs(route) \in Seq(QueryPair)
         /\ raw_pairs(route) # << << <<>>, None >> >>
<1>1. CASE raw_query(route) = None
  <2>1. raw_pairs(route) = <<>>
    BY <1>1 DEF raw_pairs
  <2> QED BY <2>1
<1>2. CASE raw_query(route) # None
  <2> DEFINE q == raw_query(route)[1]
             parts == split(q, "&")
  <2>1. q \in Segment /\ q # <<>>
    BY <1>2, RawTypes, OptionCases
  <2>2. parts \in Seq(Segment) /\ (parts = << <<>> >> => q = <<>>)
    <3> DEFINE S == Char \cup {"&"}
    <3>1. split(q, "&") \in Seq(Segment)
      <4>1. q \in Seq(Char)
        BY <2>1 DEF Segment
      <4> HIDE DEF q
      <4> QED BY <4>1, SplitType DEF Segment
    <3>2. q \in Seq(S) /\ "&" \in S
      <4>1. q \in Seq(Char) /\ Char \subseteq S
        BY <2>1 DEF Segment
      <4> HIDE DEF q, S
      <4>2. q \in Seq(S)
        BY <4>1, SeqMonotonic
      <4> QED BY <4>2 DEF S
    <3> HIDE DEF q, S
    <3>3. split(q, "&") = << <<>> >> => q = <<>>
      BY <3>2, SplitOfNothing
    <3> QED BY <3>1, <3>3
  <2>3. raw_pairs(route) = [i \in 1..Len(parts) |-> raw_pair(parts[i])]
    BY <1>2 DEF raw_pairs
  <2> HIDE DEF q, parts
  <2>4. Len(parts) \in Nat /\ \A i \in 1..Len(parts) : parts[i] \in Segment
    BY <2>2
  <2>5. \A i \in 1..Len(parts) : raw_pair(parts[i]) \in QueryPair
    BY <2>4, RawPair
  <2>6. raw_pairs(route) \in Seq(QueryPair) /\ Len(raw_pairs(route)) = Len(parts)
    BY <2>3, <2>4, <2>5
  <2>7. raw_pairs(route) # << << <<>>, None >> >>
    <3>1. SUFFICES ASSUME raw_pairs(route) = << << <<>>, None >> >> PROVE FALSE
      OBVIOUS
    <3>2. Len(parts) = 1 /\ raw_pairs(route)[1] = << <<>>, None >>
      BY <2>6, <3>1
    <3>3. raw_pair(parts[1]) = << <<>>, None >> /\ parts[1] \in Segment
      BY <2>3, <2>4, <3>2
    <3>4. parts[1] = <<>>
      BY <3>3, RawPair
    <3>5. parts = << <<>> >>
      BY <2>2, <3>2, <3>4
    <3> QED BY <2>1, <2>2, <3>5
  <2> QED BY <2>6, <2>7
<1> QED BY <1>1, <1>2

\* Each place of a route attribute has its text: a segment, or the value of a pair.
LEMMA RawValues ==
  ASSUME NEW route \in Segment, raw_query(route) # Some(<<>>)
  PROVE  LET m == Len(raw_segments(route))
             n == Len(raw_pairs(route))
             raws == raw_values(route)
         IN /\ m \in Nat /\ n \in Nat
            /\ raws \in Seq(Option(Segment)) /\ Len(raws) = m + n
            /\ \A i \in 1..m : raws[i] = Some(raw_segments(route)[i])
            /\ \A i \in 1..n : raws[m + i] = raw_pairs(route)[i][2]
<1> DEFINE segments == raw_segments(route)
           pairs == raw_pairs(route)
           m == Len(segments)
           n == Len(pairs)
           a == [i \in 1..m |-> Some(segments[i])]
           b == [i \in 1..n |-> pairs[i][2]]
           raws == raw_values(route)
<1>1. segments \in Seq(Segment) /\ pairs \in Seq(QueryPair) /\ m \in Nat /\ n \in Nat
  BY RawTypes, RawPairs
<1>2. raws = a \o b
  BY DEF raw_values
<1> HIDE DEF segments, pairs, raws
<1>3. a \in Seq(Option(Segment)) /\ Len(a) = m
  <2>1. \A i \in 1..m : Some(segments[i]) \in Option(Segment)
    BY <1>1, OptionMembers
  <2> QED BY <1>1, <2>1
<1>4. b \in Seq(Option(Segment)) /\ Len(b) = n
  <2>1. \A i \in 1..n : pairs[i][2] \in Option(Segment)
    BY <1>1 DEF QueryPair
  <2> QED BY <1>1, <2>1
<1>5. (\A i \in 1..m : a[i] = Some(segments[i])) /\ (\A i \in 1..n : b[i] = pairs[i][2])
  OBVIOUS
<1> HIDE DEF a, b
<1>6. raws \in Seq(Option(Segment)) /\ Len(raws) = m + n
  <2> DEFINE S == Option(Segment)
  <2> HIDE DEF S, m, n
  <2>1. a \o b \in Seq(S) /\ Len(a \o b) = Len(a) + Len(b)
    BY <1>3, <1>4, ConcatProperties DEF S
  <2> QED BY <1>2, <1>3, <1>4, <2>1 DEF S
<1>7. \A i \in 1..m + n : raws[i] = IF i <= m THEN a[i] ELSE b[i - m]
  BY <1>2, <1>3, <1>4, ConcatElement
<1> HIDE DEF m, n
<1>8. ASSUME NEW i \in 1..m PROVE raws[i] = Some(segments[i])
  BY <1>1, <1>5, <1>7
<1>9. ASSUME NEW i \in 1..n PROVE raws[m + i] = pairs[i][2]
  <2>1. m + i \in 1..m + n /\ ~ (m + i <= m) /\ (m + i) - m = i
    BY <1>1
  <2> QED BY <1>5, <1>7, <2>1
<1> QED BY <1>1, <1>6, <1>8, <1>9 DEF m, n, raws, segments, pairs

\* The places of a route attribute that take a field, and the field they take.
Places(decl) ==
  LET raws == raw_values(decl.route)
  IN {i \in 1..Len(raws) : raws[i] # None /\ interpolates(raws[i][1])}

FieldAt(decl, place) ==
  IF decl.shape = "named" THEN name(raw_values(decl.route)[place][1])
  ELSE CHOOSE k \in 1..Len(fields_used(decl.route)) : fields_used(decl.route)[k] = place

Names(decl) == {decl.fields[i].name : i \in 1..Len(decl.fields)}

FieldsOf(decl) == IF decl.shape = "named" THEN Names(decl) ELSE 1..Len(decl.fields)

\* Each place that takes a field is where one field is taken.
LEMMA FieldsUsed ==
  ASSUME NEW decl \in Declaration, raw_query(decl.route) # Some(<<>>)
  PROVE  LET u == fields_used(decl.route)
         IN /\ u \in Seq(Places(decl))
            /\ \A i \in Places(decl) : \E k \in 1..Len(u) : u[k] = i
            /\ \A j, k \in 1..Len(u) : u[j] = u[k] => j = k
<1> DEFINE raws == raw_values(decl.route)
           n == Len(raws)
           S == Places(decl)
           u == fields_used(decl.route)
<1>1. n \in Nat
  <2>1. decl.route \in Segment
    BY DEF Declaration
  <2>2. raws \in Seq(Option(Segment))
    BY <2>1, RawValues
  <2> HIDE DEF raws
  <2> QED BY <2>2
<1>2. S \subseteq 1..n
  BY DEF Places
<1>3. u = Among([i \in 1..n |-> i], S)
  BY DEF fields_used, Places
<1> HIDE DEF n, S, u
<1>4. /\ u \in Seq(S \cap 1..n)
      /\ \A i \in S \cap 1..n : \E k \in 1..Len(u) : u[k] = i
      /\ \A j, k \in 1..Len(u) : u[j] = u[k] => j = k
  BY <1>1, <1>3, AmongNumbers
<1>5. S \cap 1..n = S
  BY <1>2
<1> QED BY <1>4, <1>5 DEF S, u

\* A declaration that compiles has one place for each field, and no other.
LEMMA OnePlaceEach ==
  ASSUME NEW decl \in Declaration, Accepted(decl), RustcAccepts(decl)
  PROVE  /\ \A i \in Places(decl) : FieldAt(decl, i) \in FieldsOf(decl)
         /\ \A f \in FieldsOf(decl) : \E i \in Places(decl) :
              \A j \in Places(decl) : FieldAt(decl, j) = f <=> j = i
<1> DEFINE u == fields_used(decl.route)
           S == Places(decl)
<1>1. /\ u \in Seq(S)
      /\ \A i \in S : \E k \in 1..Len(u) : u[k] = i
      /\ \A j, k \in 1..Len(u) : u[j] = u[k] => j = k
  BY FieldsUsed DEF Accepted
<1>2. Len(u) = Len(decl.fields)
  BY DEF Accepted
<1>3. CASE decl.shape = "named"
  <2> DEFINE named(k) == name(raw_values(decl.route)[u[k]][1])
  <2>1. /\ \A k \in 1..Len(u) : named(k) \in Names(decl)
        /\ \A f \in Names(decl) : \E k \in 1..Len(u) : \A j \in 1..Len(u) : named(j) = f <=> j = k
    BY <1>3 DEF RustcAccepts, Names
  <2>2. \A i : FieldAt(decl, i) = name(raw_values(decl.route)[i][1])
    BY <1>3 DEF FieldAt
  <2>3. \A k : named(k) = FieldAt(decl, u[k])
    BY <2>2
  <2>4. FieldsOf(decl) = Names(decl)
    BY <1>3 DEF FieldsOf
  <2> HIDE DEF named, u, S
  <2>5. ASSUME NEW i \in S PROVE FieldAt(decl, i) \in FieldsOf(decl)
    BY <1>1, <2>1, <2>3, <2>4
  <2>6. ASSUME NEW f \in FieldsOf(decl)
        PROVE  \E i \in S : \A j \in S : FieldAt(decl, j) = f <=> j = i
    <3>1. PICK k \in 1..Len(u) : \A j \in 1..Len(u) : named(j) = f <=> j = k
      BY <2>1, <2>4
    <3>2. u[k] \in S
      BY <1>1
    <3>3. ASSUME NEW j \in S PROVE FieldAt(decl, j) = f <=> j = u[k]
      <4>1. PICK l \in 1..Len(u) : u[l] = j
        BY <1>1
      <4>2. FieldAt(decl, j) = f <=> l = k
        BY <2>3, <3>1, <4>1
      <4>3. l = k <=> u[l] = u[k]
        BY <1>1
      <4> QED BY <4>1, <4>2, <4>3
    <3> QED BY <3>2, <3>3
  <2> QED BY <2>5, <2>6 DEF S
<1>4. CASE decl.shape # "named"
  <2>1. \A i : FieldAt(decl, i) = CHOOSE k \in 1..Len(u) : u[k] = i
    BY <1>4 DEF FieldAt
  <2>2. FieldsOf(decl) = 1..Len(u)
    BY <1>2, <1>4 DEF FieldsOf
  <2> HIDE DEF u, S
  <2>3. ASSUME NEW i \in S PROVE FieldAt(decl, i) \in 1..Len(u) /\ u[FieldAt(decl, i)] = i
    <3>1. \E k \in 1..Len(u) : u[k] = i
      BY <1>1
    <3> QED BY <2>1, <3>1
  <2>4. ASSUME NEW f \in 1..Len(u)
        PROVE  \E i \in S : \A j \in S : FieldAt(decl, j) = f <=> j = i
    <3>1. u[f] \in S
      BY <1>1
    <3>2. ASSUME NEW j \in S PROVE FieldAt(decl, j) = f <=> j = u[f]
      <4>1. FieldAt(decl, j) \in 1..Len(u) /\ u[FieldAt(decl, j)] = j
        BY <2>3
      <4>2. u[FieldAt(decl, j)] = u[f] => FieldAt(decl, j) = f
        BY <1>1, <4>1
      <4> QED BY <4>1, <4>2
    <3> QED BY <3>1, <3>2
  <2> QED BY <2>2, <2>3, <2>4 DEF S
<1> QED BY <1>3, <1>4

\* What the macro writes down for a place.
ValueAt(decl, place) ==
  IF place \in Places(decl) THEN Field(FieldAt(decl, place))
  ELSE Literal(raw_values(decl.route)[place][1])

\* The macro writes down the value of each place.
LEMMA VariantDef ==
  ASSUME NEW decl \in Declaration, raw_query(decl.route) # Some(<<>>)
  PROVE  LET segments == raw_segments(decl.route)
             pairs == raw_pairs(decl.route)
             m == Len(segments)
             v == Variant(decl)
         IN /\ v.path = [i \in 1..m |-> ValueAt(decl, i)]
            /\ v.query = [i \in 1..Len(pairs) |->
                            <<pairs[i][1],
                              IF pairs[i][2] = None THEN None ELSE Some(ValueAt(decl, m + i))>>]
            /\ DOMAIN v.types = FieldsOf(decl)
            /\ \A f \in DOMAIN v.types : v.types[f] \in Types
<1> DEFINE route == decl.route
           segments == raw_segments(route)
           pairs == raw_pairs(route)
           raws == raw_values(route)
           used == fields_used(route)
           m == Len(segments)
           n == Len(pairs)
           v == Variant(decl)
           value_of(raw, place) ==
             IF ~interpolates(raw) THEN Literal(raw)
             ELSE Field(IF decl.shape = "named" THEN name(raw)
                        ELSE CHOOSE k \in 1..Len(used) : used[k] = place)
<1>0. route \in Segment /\ decl.fields \in Seq([name : Segment, type : Types])
  BY DEF Declaration, Types
<1>1. /\ m \in Nat /\ n \in Nat /\ Len(raws) = m + n
      /\ \A i \in 1..m : raws[i] = Some(segments[i])
      /\ \A i \in 1..n : raws[m + i] = pairs[i][2]
  <2> HIDE DEF route
  <2> QED BY <1>0, RawValues DEF route
<1>2. ASSUME NEW place \in 1..m + n, raws[place] # None
      PROVE  value_of(raws[place][1], place) = ValueAt(decl, place)
  BY <1>1, <1>2 DEF ValueAt, Places, FieldAt
<1>3. v.path = [i \in 1..m |-> value_of(segments[i], i)]
  BY DEF Variant
<1>4. v.query = [i \in 1..n |-> <<pairs[i][1], IF pairs[i][2] = None THEN None
                                               ELSE Some(value_of(pairs[i][2][1], m + i))>>]
  BY DEF Variant
<1>5. v.types = IF decl.shape = "named"
                THEN [f \in Names(decl) |-> (CHOOSE d \in ToSet(decl.fields) : d.name = f).type]
                ELSE [i \in 1..Len(decl.fields) |-> decl.fields[i].type]
  BY DEF Variant, Names
<1> HIDE DEF value_of, m, n, segments, pairs, raws, v
<1>6. \A i \in 1..m : value_of(segments[i], i) = ValueAt(decl, i)
  <2> SUFFICES ASSUME NEW i \in 1..m PROVE value_of(segments[i], i) = ValueAt(decl, i)
    OBVIOUS
  <2>1. i \in 1..m + n /\ raws[i] # None /\ raws[i][1] = segments[i]
    BY <1>1, SomeFacts
  <2> QED BY <1>2, <2>1
<1>7. \A i \in 1..n : pairs[i][2] # None => value_of(pairs[i][2][1], m + i) = ValueAt(decl, m + i)
  <2> SUFFICES ASSUME NEW i \in 1..n, pairs[i][2] # None
               PROVE  value_of(pairs[i][2][1], m + i) = ValueAt(decl, m + i)
    OBVIOUS
  <2>1. m + i \in 1..m + n /\ raws[m + i] = pairs[i][2]
    BY <1>1
  <2> QED BY <1>2, <2>1
<1>8. v.path = [i \in 1..m |-> ValueAt(decl, i)]
  BY <1>3, <1>6
<1>9. v.query = [i \in 1..n |-> <<pairs[i][1], IF pairs[i][2] = None THEN None
                                               ELSE Some(ValueAt(decl, m + i))>>]
  BY <1>4, <1>7
<1>10. DOMAIN v.types = FieldsOf(decl)
  BY <1>5 DEF FieldsOf
<1>11. ASSUME NEW f \in DOMAIN v.types PROVE v.types[f] \in Types
  <2>1. \A i \in 1..Len(decl.fields) : decl.fields[i].type \in Types
    <3> DEFINE F == decl.fields
               S == [name : Segment, type : Types]
    <3>1. F \in Seq(S)
      BY <1>0
    <3>2. \A i \in 1..Len(F) : F[i] \in S
      <4> HIDE DEF F, S
      <4> QED BY <3>1
    <3> QED BY <3>2
  <2>2. CASE decl.shape = "named"
    <3>1. f \in Names(decl) /\ v.types[f] = (CHOOSE d \in ToSet(decl.fields) : d.name = f).type
      BY <1>5, <1>10, <2>2 DEF FieldsOf
    <3>2. \E d \in ToSet(decl.fields) : d.name = f
      BY <1>0, <3>1 DEF Names, ToSet
    <3>3. \A d \in ToSet(decl.fields) : d.type \in Types
      BY <1>0, <2>1 DEF ToSet
    <3> QED BY <3>1, <3>2, <3>3
  <2>3. CASE decl.shape # "named"
    BY <1>5, <1>10, <2>1, <2>3 DEF FieldsOf
  <2> QED BY <2>2, <2>3
<1> QED BY <1>8, <1>9, <1>10, <1>11 DEF m, n, segments, pairs, v

\* So what is compiled is a variant whose generated functions agree.
THEOREM VariantWellFormed ==
  ASSUME NEW decl \in Declaration, Accepted(decl), RustcAccepts(decl)
  PROVE  WellFormed(Variant(decl))
<1> DEFINE segments == raw_segments(decl.route)
           pairs == raw_pairs(decl.route)
           raws == raw_values(decl.route)
           m == Len(segments)
           n == Len(pairs)
           v == Variant(decl)
           D == FieldsOf(decl)
           q(i) == IF pairs[i][2] = None THEN None ELSE Some(ValueAt(decl, m + i))
<1>0. decl.route \in Segment /\ raw_query(decl.route) # Some(<<>>)
  BY DEF Declaration, Accepted
<1>1. /\ m \in Nat /\ n \in Nat
      /\ raws \in Seq(Option(Segment)) /\ Len(raws) = m + n
      /\ \A i \in 1..m : raws[i] = Some(segments[i])
      /\ \A i \in 1..n : raws[m + i] = pairs[i][2]
  BY <1>0, RawValues
<1>2. pairs \in Seq(QueryPair) /\ pairs # << << <<>>, None >> >>
  BY <1>0, RawPairs
<1>3. /\ v.path = [i \in 1..m |-> ValueAt(decl, i)]
      /\ v.query = [i \in 1..n |-> <<pairs[i][1], q(i)>>]
      /\ DOMAIN v.types = D
      /\ \A f \in DOMAIN v.types : v.types[f] \in Types
  BY <1>0, VariantDef
<1> HIDE DEF segments, pairs, raws, m, n, v, D
<1>4. /\ \A i \in Places(decl) : FieldAt(decl, i) \in D
      /\ \A f \in D : \E i \in Places(decl) : \A j \in Places(decl) : FieldAt(decl, j) = f <=> j = i
  BY OnePlaceEach DEF D
<1>5. ASSUME NEW i \in 1..m + n, raws[i] # None PROVE ValueAt(decl, i) \in RouteValues(D)
  <2>1. raws[i][1] \in Segment
    <3>1. raws[i] \in Option(Segment)
      BY <1>1
    <3> QED BY <1>5, <3>1, OptionCases
  <2>2. ValueAt(decl, i) = IF i \in Places(decl) THEN Field(FieldAt(decl, i)) ELSE Literal(raws[i][1])
    BY DEF ValueAt, raws
  <2> QED BY <1>4, <2>1, <2>2 DEF RouteValues
<1>6. \A i : \A f : ValueAt(decl, i) = Field(f) <=> i \in Places(decl) /\ FieldAt(decl, i) = f
  BY ValueFacts DEF ValueAt
<1>7. v.path \in Seq(RouteValues(D)) /\ Len(v.path) = m
  <2>1. \A i \in 1..m : raws[i] # None /\ i \in 1..m + n
    BY <1>1, SomeFacts
  <2>2. \A i \in 1..m : ValueAt(decl, i) \in RouteValues(D)
    BY <1>5, <2>1
  <2> QED BY <1>1, <1>3, <2>2
<1>8. /\ v.query \in Seq(Segment \X Option(RouteValues(D))) /\ Len(v.query) = n
      /\ \A i \in 1..n : v.query[i][1] = pairs[i][1] /\ v.query[i][2] = q(i)
  <2>1. ASSUME NEW i \in 1..n
        PROVE  pairs[i][1] \in Segment /\ q(i) \in Option(RouteValues(D))
    <3>1. pairs[i][1] \in Segment
      <4>1. i \in 1..Len(pairs)
        BY DEF n
      <4>2. pairs[i] \in QueryPair
        BY <1>2, <4>1
      <4> QED BY <4>2 DEF QueryPair
    <3>2. m + i \in 1..m + n /\ raws[m + i] = pairs[i][2]
      BY <1>1
    <3>3. pairs[i][2] # None => ValueAt(decl, m + i) \in RouteValues(D)
      BY <1>5, <3>2
    <3> QED BY <3>1, <3>3, OptionMembers
  <2> HIDE DEF q
  <2> QED BY <1>1, <1>3, <2>1
<1>9. v.query # << << <<>>, None >> >>
  <2>1. SUFFICES ASSUME v.query = << << <<>>, None >> >> PROVE FALSE
    OBVIOUS
  <2>2. n = 1 /\ v.query[1][1] = <<>> /\ v.query[1][2] = None
    BY <1>8, <2>1
  <2>3. pairs[1][1] = <<>> /\ q(1) = None /\ pairs[1] \in QueryPair /\ Len(pairs) = 1
    BY <1>2, <1>8, <2>2 DEF n
  <2>4. pairs[1][2] = None
    BY <2>3, SomeFacts
  <2>5. pairs[1] = << <<>>, None >>
    BY <2>3, <2>4 DEF QueryPair
  <2>6. pairs = << pairs[1] >>
    BY <1>2, <2>3
  <2> QED BY <1>2, <2>5, <2>6
<1>10. ASSUME NEW f \in D PROVE (\E i : InPath(v, f, i)) \/ (\E i : InQuery(v, f, i))
  <2>1. PICK i \in Places(decl) : \A j \in Places(decl) : FieldAt(decl, j) = f <=> j = i
    BY <1>4
  <2>2. i \in 1..m + n /\ raws[i] # None
    BY <1>1 DEF Places, raws
  <2>3. \A j \in 1..m : v.path[j] = Field(f) <=> j = i
    <3>1. \A j \in 1..m : v.path[j] = ValueAt(decl, j)
      BY <1>3
    <3> QED BY <1>6, <2>1, <3>1
  <2>4. \A j \in 1..n : v.query[j][2] = Some(Field(f)) <=> m + j = i
    <3> SUFFICES ASSUME NEW j \in 1..n PROVE v.query[j][2] = Some(Field(f)) <=> m + j = i
      OBVIOUS
    <3>1. v.query[j][2] = q(j)
      BY <1>8
    <3>2. q(j) = Some(Field(f)) <=> pairs[j][2] # None /\ ValueAt(decl, m + j) = Field(f)
      BY SomeFacts
    <3>3. m + j = i => pairs[j][2] # None
      BY <1>1, <2>2
    <3>4. ValueAt(decl, m + j) = Field(f) <=> m + j = i
      BY <1>6, <2>1
    <3> HIDE DEF q
    <3> QED BY <3>1, <3>2, <3>3, <3>4
  <2>5. CASE i \in 1..m
    <3>1. \A j \in 1..n : m + j # i
      BY <1>1, <2>5
    <3>2. InPath(v, f, i)
      BY <1>7, <1>8, <2>3, <2>4, <2>5, <3>1 DEF InPath
    <3> QED BY <3>2
  <2>6. CASE i \notin 1..m
    <3>1. i - m \in 1..n /\ m + (i - m) = i /\ \A j \in 1..n : m + j = i => j = i - m
      BY <1>1, <2>2, <2>6
    <3>2. InQuery(v, f, i - m)
      <4>1. \A j \in 1..m : v.path[j] # Field(f)
        BY <2>3, <2>6
      <4> QED BY <1>7, <1>8, <2>4, <3>1, <4>1 DEF InQuery
    <3> QED BY <3>2
  <2> QED BY <2>5, <2>6
<1> QED BY <1>3, <1>7, <1>8, <1>9, <1>10 DEF WellFormed, v

-----------------------------------------------------------------------------
\* The application

\* Every variant of a table is one that the macro has made.
TableOK(t) == Len(t) \in Nat /\ \A i \in 1..Len(t) : WellFormed(t[i])

Hit(v, segments, pairs) == path_matches(v, segments) /\ query_matches(v, pairs)

\* The three outcomes of the generated parse.
LEMMA ParseCases ==
  ASSUME NEW t, Len(t) \in Nat, NEW a \in PathAndQuery
  PROVE  LET segments == Undash(a.path)
             pairs == PairsOf(a.query)
         IN \/ /\ HasEmptySegment(a.path)
               /\ parse(t, a) = [outcome |-> "redirect", to |-> normalize_parse(a).to]
            \/ /\ ~HasEmptySegment(a.path)
               /\ \A i \in 1..Len(t) : ~Hit(t[i], segments, pairs)
               /\ parse(t, a) = [outcome |-> "no match"]
            \/ /\ ~HasEmptySegment(a.path)
               /\ \E i \in 1..Len(t) :
                    /\ Hit(t[i], segments, pairs)
                    /\ \A j \in 1..i - 1 : ~Hit(t[j], segments, pairs)
                    /\ parse(t, a) = [outcome |-> "route",
                                      route |-> <<i, construct(t[i], segments, pairs)>>]
<1> DEFINE result == normalize_parse(a)
           segments == result.to.path
           pairs == PairsOf(result.to.query)
           hits == {i \in 1..Len(t) : Hit(t[i], segments, pairs)}
           first == CHOOSE i \in hits : \A j \in hits : i <= j
<1>1. parse(t, a) =
        CASE ~result.ok -> [outcome |-> "redirect", to |-> result.to]
          [] result.ok /\ hits = {} -> [outcome |-> "no match"]
          [] result.ok /\ hits # {} ->
               [outcome |-> "route", route |-> <<first, construct(t[first], segments, pairs)>>]
  BY DEF parse, Hit, PairsOf
<1>2. CASE HasEmptySegment(a.path)
  <2>1. ~result.ok
    BY <1>2, NormalizeCases
  <2> QED BY <1>1, <1>2, <2>1
<1>3. CASE ~HasEmptySegment(a.path)
  <2>1. result.ok /\ segments = Undash(a.path) /\ result.to.query = a.query
    BY <1>3, NormalizeCases
  <2>2. pairs = PairsOf(a.query)
    BY <2>1
  <2> HIDE DEF result
  <2>3. CASE hits = {}
    BY <1>1, <1>3, <2>1, <2>2, <2>3
  <2>4. CASE hits # {}
    <3>1. hits \subseteq Nat
      OBVIOUS
    <3>2. \E i \in hits : \A j \in hits : i <= j
      BY <2>4, <3>1, LeastNumber
    <3>3. first \in hits /\ \A j \in hits : first <= j
      BY <3>2
    <3>4. parse(t, a) = [outcome |-> "route", route |-> <<first, construct(t[first], segments, pairs)>>]
      BY <1>1, <2>1, <2>4
    <3>5. first \in 1..Len(t) /\ Hit(t[first], segments, pairs)
      BY <3>3
    <3>6. \A j \in 1..first - 1 : ~Hit(t[j], segments, pairs)
      <4> HIDE DEF first
      <4> QED BY <3>3, <3>5
    <3> HIDE DEF first, hits
    <3> QED BY <1>3, <2>1, <2>2, <3>4, <3>5, <3>6
  <2> QED BY <2>3, <2>4
<1> QED BY <1>2, <1>3

\* The fields of a route are values of its variant.
LEMMA RoutesAre ==
  ASSUME NEW t, TableOK(t), NEW r \in Routes(t)
  PROVE  \E i \in 1..Len(t) : \E args \in Args(t[i]) : r = <<i, args>>
<1> DEFINE Of(i) == { <<i, [f \in DOMAIN t[i].types |-> parse_route_piece(t[i].types[f], texts[f])[1]]>> :
                        texts \in {x \in [DOMAIN t[i].types -> Texts] :
                                     \A f \in DOMAIN t[i].types :
                                       parse_route_piece(t[i].types[f], x[f]) # None} }
<1>1. Routes(t) = UNION {Of(i) : i \in 1..Len(t)}
  BY DEF Routes
<1>2. PICK i \in 1..Len(t) : r \in Of(i)
  <2> HIDE DEF Of
  <2> QED BY <1>1
<1> DEFINE D == DOMAIN t[i].types
           type(f) == t[i].types[f]
<1>3. PICK texts \in [D -> Texts] :
        /\ \A f \in D : parse_route_piece(type(f), texts[f]) # None
        /\ r = <<i, [f \in D |-> parse_route_piece(type(f), texts[f])[1]]>>
  BY <1>2
<1> DEFINE args == [f \in D |-> parse_route_piece(type(f), texts[f])[1]]
<1>4. \A f \in D : type(f) \in Types
  BY DEF TableOK, WellFormed
<1>5. ASSUME NEW f \in D PROVE args[f] \in Values(type(f)) /\ type(f) \in Types
  <2>1. texts[f] \in Segment
    BY <1>3, TextsAssumption
  <2>2. parse_route_piece(type(f), texts[f])[1] \in Values(type(f))
    BY <1>3, <1>4, <2>1, ParsedPiece
  <2> QED BY <1>4, <2>2
<1>6. args \in Args(t[i])
  <2>1. DOMAIN args = D
    OBVIOUS
  <2>2. args \in [D -> UNION {Values(u) : u \in Types}]
    BY <1>5
  <2> HIDE DEF args
  <2> QED BY <1>5, <2>2 DEF Args
<1> QED BY <1>3, <1>6

\* The address of a link: nothing of it is lost, and parsing undoes what
\* normalization did when it was rendered.
LEMMA LinkAddress ==
  ASSUME NEW t, NEW i, WellFormed(t[i]), NEW args \in Args(t[i])
  PROVE  LET a == Wire([path |-> path(t, <<i, args>>), query |-> query(t, <<i, args>>)])
         IN /\ a \in PathAndQuery
            /\ ~HasEmptySegment(a.path)
            /\ Undash(a.path) = WrittenPath(t[i], args)
            /\ PairsOf(a.query) = WrittenPairs(t[i], args)
<1> DEFINE p == path(t, <<i, args>>)
           q == query(t, <<i, args>>)
           wp == WrittenPath(t[i], args)
           ws == WrittenPairs(t[i], args)
           a == Wire([path |-> p, query |-> q])
<1>1. /\ wp \in Seq(Segment) /\ ws \in Seq(QueryPair)
      /\ Len(ws) = Len(t[i].query) /\ ws # << << <<>>, None >> >>
  BY WrittenType
<1>2. p = normalize_render_path(wp)
  BY DEF path, WrittenPath
<1>3. q = IF t[i].query = <<>> THEN None ELSE Some(ws)
  BY DEF query, WrittenPairs, WrittenPair
<1> HIDE DEF wp, ws, p, q
<1>4. p \in Seq(Segment) /\ ~HasEmptySegment(p) /\ Undash(p) = wp /\ WirePath(p) = p
  BY <1>1, <1>2, RenderThenParse
<1>5. q \in Option(Seq(QueryPair)) /\ WireQuery(q) = q /\ PairsOf(q) = ws
  <2>1. CASE t[i].query = <<>>
    <3>1. q = None
      BY <1>3, <2>1
    <3>2. ws = <<>>
      BY <1>1, <2>1
    <3>3. None # Some(<< << <<>>, None >> >>)
      BY SomeFacts
    <3> QED BY <3>1, <3>2, <3>3, OptionMembers DEF WireQuery, PairsOf
  <2>2. CASE t[i].query # <<>>
    <3>1. q = Some(ws)
      BY <1>3, <2>2
    <3>2. Some(ws) # Some(<< << <<>>, None >> >>)
      BY <1>1, SomeFacts
    <3>3. Some(ws) # None /\ Some(ws)[1] = ws
      BY SomeFacts
    <3>4. Some(ws) \in Option(Seq(QueryPair))
      BY <1>1, OptionMembers
    <3> QED BY <3>1, <3>2, <3>3, <3>4 DEF WireQuery, PairsOf
  <2> QED BY <2>1, <2>2
<1>6. a.path = p /\ a.query = q /\ a = [path |-> p, query |-> q]
  BY <1>4, <1>5 DEF Wire
<1>7. a \in PathAndQuery
  BY <1>4, <1>5, <1>6 DEF PathAndQuery
<1> QED BY <1>4, <1>5, <1>6, <1>7 DEF a, p, q, wp, ws

\* A link with single keys is routed, and to its own route when the variants
\* before it are apart.
LEMMA LinkIsRouted ==
  ASSUME NEW t, TableOK(t), NEW i \in 1..Len(t), NEW args \in Args(t[i]), KeysAreSingle(t[i])
  PROVE  LET a == Wire([path |-> path(t, <<i, args>>), query |-> query(t, <<i, args>>)])
         IN /\ parse(t, a).outcome = "route"
            /\ (\A j \in 1..i - 1 : Apart(t[j], t[i])) =>
                 parse(t, a) = [outcome |-> "route", route |-> <<i, args>>]
<1> DEFINE a == Wire([path |-> path(t, <<i, args>>), query |-> query(t, <<i, args>>)])
           wp == WrittenPath(t[i], args)
           ws == WrittenPairs(t[i], args)
<1>0. WellFormed(t[i]) /\ Len(t) \in Nat
  BY DEF TableOK
<1>1. /\ a \in PathAndQuery /\ ~HasEmptySegment(a.path)
      /\ Undash(a.path) = wp /\ PairsOf(a.query) = ws
  BY <1>0, LinkAddress
<1>2. Hit(t[i], wp, ws)
  BY <1>0, OwnPathFits, OwnQueryFits DEF Hit
<1> HIDE DEF a
<1>3. PICK k \in 1..Len(t) :
        /\ \A j \in 1..k - 1 : ~Hit(t[j], wp, ws)
        /\ Hit(t[k], wp, ws)
        /\ parse(t, a) = [outcome |-> "route", route |-> <<k, construct(t[k], wp, ws)>>]
  <2> HIDE DEF wp, ws
  <2> QED BY <1>0, <1>1, <1>2, ParseCases
<1>4. ASSUME \A j \in 1..i - 1 : Apart(t[j], t[i])
      PROVE  parse(t, a) = [outcome |-> "route", route |-> <<i, args>>]
  <2>1. \A j \in 1..i - 1 : ~Hit(t[j], wp, ws)
    <3> SUFFICES ASSUME NEW j \in 1..i - 1 PROVE ~Hit(t[j], wp, ws)
      OBVIOUS
    <3>1. j \in 1..Len(t)
      BY <1>0
    <3>2. WellFormed(t[j])
      BY <3>1 DEF TableOK
    <3> QED BY <1>0, <1>4, <3>2, ApartMisses DEF Hit
  <2>2. k = i
    <3>1. k \notin 1..i - 1
      BY <1>3, <2>1
    <3>2. i \notin 1..k - 1
      BY <1>2, <1>3
    <3> QED BY <1>0, <3>1, <3>2
  <2>3. construct(t[i], wp, ws) = args
    BY <1>0, OwnFields
  <2> QED BY <1>3, <2>2, <2>3
<1> QED BY <1>3, <1>4 DEF a

\* A route that was parsed has values of its fields' types.
LEMMA RoutedIsTyped ==
  ASSUME NEW t, TableOK(t), NEW a \in PathAndQuery, parse(t, a).outcome = "route"
  PROVE  LET segments == Undash(a.path)
             pairs == PairsOf(a.query)
         IN /\ ~HasEmptySegment(a.path)
            /\ segments \in Seq(Segment) /\ pairs \in Seq(QueryPair)
            /\ \E i \in 1..Len(t) :
                 /\ WellFormed(t[i]) /\ Hit(t[i], segments, pairs)
                 /\ construct(t[i], segments, pairs) \in Args(t[i])
                 /\ parse(t, a).route = <<i, construct(t[i], segments, pairs)>>
<1> DEFINE segments == Undash(a.path)
           pairs == PairsOf(a.query)
<1>1. Len(t) \in Nat /\ a.path \in Seq(Segment) /\ a.query \in Option(Seq(QueryPair))
  BY DEF TableOK, PathAndQuery
<1>2. segments \in Seq(Segment) /\ pairs \in Seq(QueryPair)
  BY <1>1, UndashType, PairsType
<1>3. \/ /\ HasEmptySegment(a.path)
         /\ parse(t, a) = [outcome |-> "redirect", to |-> normalize_parse(a).to]
      \/ /\ ~HasEmptySegment(a.path)
         /\ \A i \in 1..Len(t) : ~Hit(t[i], segments, pairs)
         /\ parse(t, a) = [outcome |-> "no match"]
      \/ /\ ~HasEmptySegment(a.path)
         /\ \E i \in 1..Len(t) :
              /\ Hit(t[i], segments, pairs)
              /\ \A j \in 1..i - 1 : ~Hit(t[j], segments, pairs)
              /\ parse(t, a) = [outcome |-> "route",
                                route |-> <<i, construct(t[i], segments, pairs)>>]
  BY <1>1, ParseCases
<1> HIDE DEF segments, pairs
<1>4. /\ ~HasEmptySegment(a.path)
      /\ \E i \in 1..Len(t) :
           /\ Hit(t[i], segments, pairs)
           /\ parse(t, a) = [outcome |-> "route", route |-> <<i, construct(t[i], segments, pairs)>>]
  <2>1. [outcome |-> "redirect", to |-> normalize_parse(a).to].outcome # "route"
    OBVIOUS
  <2>2. [outcome |-> "no match"].outcome # "route"
    OBVIOUS
  <2> QED BY <1>3, <2>1, <2>2
<1>5. PICK i \in 1..Len(t) :
        /\ Hit(t[i], segments, pairs)
        /\ parse(t, a) = [outcome |-> "route", route |-> <<i, construct(t[i], segments, pairs)>>]
  BY <1>4
<1>6. WellFormed(t[i])
  BY DEF TableOK
<1>7. construct(t[i], segments, pairs) \in Args(t[i])
  BY <1>2, <1>5, <1>6, ConstructedArgs DEF Hit
<1>8. parse(t, a).route = <<i, construct(t[i], segments, pairs)>>
  BY <1>5
<1> QED BY <1>2, <1>4, <1>5, <1>6, <1>7, <1>8 DEF segments, pairs

\* Its page is at its address.
LEMMA RoutedIsShown ==
  ASSUME NEW t, TableOK(t), NEW a \in PathAndQuery, parse(t, a).outcome = "route"
  PROVE  LET segments == path(t, parse(t, a).route)
             pairs == query(t, parse(t, a).route)
             asked == PairsOf(a.query)
         IN /\ Len(segments) = Len(a.path)
            /\ \A i \in 1..Len(segments) : SameText(segments[i], a.path[i])
            /\ pairs # None => \A i \in 1..Len(pairs[1]) :
                 /\ contains(asked, pairs[1][i][1])
                 /\ pairs[1][i][2] # None => \A j \in 1..Len(asked) :
                      asked[j][1] = pairs[1][i][1] /\ asked[j][2] # None =>
                        SameText(asked[j][2][1], pairs[1][i][2][1])
<1> DEFINE segs == Undash(a.path)
           asked == PairsOf(a.query)
           args(k) == construct(t[k], segs, asked)
<1>1. /\ ~HasEmptySegment(a.path)
      /\ segs \in Seq(Segment) /\ asked \in Seq(QueryPair)
      /\ \E k \in 1..Len(t) :
           /\ WellFormed(t[k]) /\ Hit(t[k], segs, asked) /\ args(k) \in Args(t[k])
           /\ parse(t, a).route = <<k, args(k)>>
  BY RoutedIsTyped
<1>2. PICK k \in 1..Len(t) :
           /\ WellFormed(t[k]) /\ Hit(t[k], segs, asked) /\ args(k) \in Args(t[k])
           /\ parse(t, a).route = <<k, args(k)>>
  BY <1>1
<1> DEFINE r == <<k, args(k)>>
           wp == WrittenPath(t[k], args(k))
           ws == WrittenPairs(t[k], args(k))
<1>3. path_matches(t[k], segs) /\ query_matches(t[k], asked)
  BY <1>2 DEF Hit
<1>4. /\ a.path \in Seq(Segment) /\ Len(a.path) \in Nat
      /\ Len(segs) = Len(a.path) /\ \A i \in 1..Len(a.path) : segs[i] = Undashed(a.path[i])
  BY UndashType DEF PathAndQuery
<1>5. Len(t[k].path) = Len(a.path)
  BY <1>3, <1>4 DEF path_matches
<1>6. path(t, r) = normalize_render_path(wp)
  BY DEF path, WrittenPath
<1>7. query(t, r) = IF t[k].query = <<>> THEN None ELSE Some(ws)
  BY DEF query, WrittenPairs, WrittenPair
<1>8. /\ wp \in Seq(Segment) /\ Len(wp) = Len(a.path)
      /\ Len(ws) = Len(t[k].query)
  BY <1>2, <1>5, WrittenType
<1>9. /\ Len(path(t, r)) = Len(a.path)
      /\ \A i \in 1..Len(a.path) : path(t, r)[i] = Dashed(wp[i])
  <2> HIDE DEF wp, r
  <2> QED BY <1>6, <1>8, RenderThenParse
<1>10. ASSUME NEW i \in 1..Len(a.path) PROVE SameText(path(t, r)[i], a.path[i])
  <2>1. a.path[i] \in Segment /\ a.path[i] # <<>>
    BY <1>1, <1>4 DEF HasEmptySegment
  <2>2. segs[i] = Undashed(a.path[i]) /\ Dashed(segs[i]) = a.path[i]
    BY <1>4, <2>1, UndashedFacts
  <2>3. /\ SameText(wp[i], segs[i])
        /\ wp[i] = segs[i] \/ (~OnlyDashes(segs[i]) /\ ~OnlyDashes(wp[i]))
    BY <1>1, <1>2, <1>3, <1>5, PathShown
  <2>4. path(t, r)[i] = Dashed(wp[i])
    BY <1>9
  <2> HIDE DEF wp, segs, r
  <2>5. CASE wp[i] = segs[i]
    BY <2>2, <2>4, <2>5, SameTextReflexive
  <2>6. CASE ~OnlyDashes(segs[i]) /\ ~OnlyDashes(wp[i])
    BY <2>2, <2>3, <2>4, <2>6 DEF Dashed
  <2> QED BY <2>3, <2>5, <2>6
<1>11. ASSUME query(t, r) # None, NEW i \in 1..Len(query(t, r)[1])
       PROVE  /\ contains(asked, ws[i][1])
              /\ ws[i][2] # None => \A j \in 1..Len(asked) :
                   asked[j][1] = ws[i][1] /\ asked[j][2] # None => SameText(asked[j][2][1], ws[i][2][1])
              /\ query(t, r)[1][i] = ws[i]
  <2>1. query(t, r)[1] = ws
    BY <1>7, <1>11, SomeFacts
  <2>2. i \in 1..Len(t[k].query)
    BY <1>8, <1>11, <2>1
  <2>3. /\ ws[i][1] = t[k].query[i][1]
        /\ contains(asked, t[k].query[i][1])
        /\ ws[i][2] # None => \A j \in 1..Len(asked) :
             asked[j][1] = t[k].query[i][1] /\ asked[j][2] # None => SameText(asked[j][2][1], ws[i][2][1])
    BY <1>1, <1>2, <1>3, <2>2, PairShown
  <2> HIDE DEF ws, asked, r
  <2> QED BY <2>1, <2>3
<1>12. parse(t, a).route = r
  BY <1>2
<1> HIDE DEF ws, asked, r
<1>13. query(t, r) # None => \A i \in 1..Len(query(t, r)[1]) :
         /\ contains(asked, query(t, r)[1][i][1])
         /\ query(t, r)[1][i][2] # None => \A j \in 1..Len(asked) :
              asked[j][1] = query(t, r)[1][i][1] /\ asked[j][2] # None =>
                SameText(asked[j][2][1], query(t, r)[1][i][2][1])
  BY <1>11
<1> QED BY <1>9, <1>10, <1>12, <1>13 DEF asked

\* Where the link of a route leads.
AddressOf(t, r) == Wire([path |-> path(t, r), query |-> query(t, r)])

(***************************************************************************)
(* The inductive invariant.  The table holds variants of the macro's       *)
(* making; nothing is requested before there is one; a link is that of a   *)
(* route, and the browser is still where it leads, for it is never         *)
(* redirected; and a page is what parsing made of the address.             *)
(***************************************************************************)
IInv ==
  /\ source \in Enums
  /\ build \in {"source", "built", "rejected"}
  /\ TableOK(table)
  /\ request \in Option(PathAndQuery)
  /\ build # "built" => request = None
  /\ request = None => link = None /\ page = None
  /\ link # None => \E r \in Routes(table) :
       link = Some(r) /\ request = Some(AddressOf(table, r))
  /\ page # None =>
       /\ page = Some(parse(table, request[1]))
       /\ parse(table, request[1]).outcome # "redirect"

\* Nothing is compiled yet.
LEMMA InitIInv == Init => IInv
<1> SUFFICES ASSUME Init PROVE IInv
  OBVIOUS
<1>1. TableOK(table)
  BY DEF Init, TableOK
<1>2. request \in Option(PathAndQuery)
  BY OptionMembers DEF Init
<1> QED BY <1>1, <1>2 DEF Init, IInv

\* Every action keeps the invariant: what Derive compiles is well formed, and
\* a link is not redirected.
LEMMA StepIInv == IInv /\ [Next]_vars => IInv'
<1> SUFFICES ASSUME IInv, [Next]_vars PROVE IInv'
  OBVIOUS
<1>1. CASE Derive
  <2>1. /\ request = None /\ link = None /\ page = None
        /\ UNCHANGED <<source, request, link, page>>
    BY <1>1 DEF Derive, IInv
  <2>2. TableOK(table)' /\ build' \in {"source", "built", "rejected"}
    <3>1. CASE \A i \in 1..Len(source) : Accepted(source[i]) /\ RustcAccepts(source[i])
      <4>1. build' = "built" /\ table' = [i \in 1..Len(source) |-> Variant(source[i])]
        BY <1>1, <3>1 DEF Derive
      <4>2. source \in Seq(Declaration)
        BY EnumsAssumption DEF IInv
      <4>3. Len(source) \in Nat /\ \A i \in 1..Len(source) : source[i] \in Declaration
        <5> DEFINE D == Declaration
        <5> HIDE DEF D
        <5>1. source \in Seq(D)
          BY <4>2 DEF D
        <5>2. Len(source) \in Nat /\ \A i \in 1..Len(source) : source[i] \in D
          BY <5>1
        <5> QED BY <5>2 DEF D
      <4>4. \A i \in 1..Len(source) : WellFormed(Variant(source[i]))
        BY <3>1, <4>3, VariantWellFormed
      <4>5. Len(table') = Len(source) /\ \A i \in 1..Len(source) : table'[i] = Variant(source[i])
        BY <4>1, <4>3
      <4>6. Len(table') \in Nat /\ \A i \in 1..Len(table') : WellFormed(table'[i])
        BY <4>3, <4>4, <4>5
      <4> QED BY <4>1, <4>6 DEF TableOK
    <3>2. CASE ~(\A i \in 1..Len(source) : Accepted(source[i]) /\ RustcAccepts(source[i]))
      BY <1>1, <3>2 DEF Derive, IInv
    <3> QED BY <3>1, <3>2
  <2> QED BY <2>1, <2>2 DEF IInv
<1>2. CASE Edit
  BY <1>2 DEF Edit, IInv
<1>3. CASE Type
  <2>1. PICK a \in Address : request' = Some(a)
    BY <1>3 DEF Type
  <2>2. a \in PathAndQuery
    BY AddressAssumption
  <2>3. request' \in Option(PathAndQuery) /\ request' # None
    BY <2>1, <2>2, OptionMembers, SomeFacts
  <2>4. request = None /\ link = None /\ page = None
    BY <1>3 DEF Type, IInv
  <2> QED BY <1>3, <2>3, <2>4 DEF Type, IInv
<1>4. ASSUME NEW r \in Routes(table), Follow(r) PROVE IInv'
  <2>1. /\ build = "built" /\ request = None /\ page = None
        /\ request' = Some(AddressOf(table, r)) /\ link' = Some(r)
        /\ UNCHANGED <<source, build, table, page>>
    BY <1>4 DEF Follow, AddressOf, IInv
  <2>2. PICK i \in 1..Len(table) : \E args \in Args(table[i]) : r = <<i, args>>
    BY RoutesAre DEF IInv
  <2>3. PICK args \in Args(table[i]) : r = <<i, args>>
    BY <2>2
  <2>4. AddressOf(table, r) \in PathAndQuery
    <3>1. WellFormed(table[i])
      BY DEF IInv, TableOK
    <3> QED BY <2>3, <3>1, LinkAddress DEF AddressOf
  <2>5. request' \in Option(PathAndQuery) /\ request' # None
    BY <2>1, <2>4, OptionMembers, SomeFacts
  <2>6. \E s \in Routes(table)' : link' = Some(s) /\ request' = Some(AddressOf(table, s)')
    <3>1. Routes(table)' = Routes(table) /\ AddressOf(table, r)' = AddressOf(table, r)
      BY <2>1
    <3> QED BY <2>1, <3>1
  <2> QED BY <2>1, <2>5, <2>6 DEF IInv
<1>5. CASE Dispatch
  <2>1. /\ request # None
        /\ parse(table, request[1]).outcome # "redirect"
        /\ page' = Some(parse(table, request[1]))
        /\ UNCHANGED <<source, build, table, request, link>>
    BY <1>5 DEF Dispatch
  <2> QED BY <2>1 DEF IInv
<1>6. CASE Redirect
  <2>1. /\ request # None /\ page = None
        /\ parse(table, request[1]).outcome = "redirect"
        /\ request' = Some(Wire(parse(table, request[1]).to))
        /\ UNCHANGED <<source, build, table, link, page>>
    BY <1>6 DEF Redirect
  <2>2. request[1] \in PathAndQuery /\ request = Some(request[1])
    BY <2>1, OptionCases DEF IInv
  <2>3. /\ HasEmptySegment(request[1].path)
        /\ parse(table, request[1]) =
             [outcome |-> "redirect", to |-> normalize_parse(request[1]).to]
    <3> DEFINE a == request[1]
               segments == Undash(a.path)
               pairs == PairsOf(a.query)
    <3>1. Len(table) \in Nat
      BY DEF IInv, TableOK
    <3>2. parse(table, a).outcome = "redirect" /\ a \in PathAndQuery
      BY <2>1, <2>2
    <3>3. \/ /\ HasEmptySegment(a.path)
             /\ parse(table, a) = [outcome |-> "redirect", to |-> normalize_parse(a).to]
          \/ parse(table, a) = [outcome |-> "no match"]
          \/ \E i \in 1..Len(table) :
               parse(table, a) = [outcome |-> "route",
                                  route |-> <<i, construct(table[i], segments, pairs)>>]
      <4> HIDE DEF a
      <4> QED BY <3>1, <3>2, ParseCases
    <3>4. parse(table, a) # [outcome |-> "no match"]
      <4>1. [outcome |-> "no match"].outcome # "redirect"
        OBVIOUS
      <4> HIDE DEF a
      <4> QED BY <3>2, <4>1, Zenon
    <3>5. \A route : parse(table, a) # [outcome |-> "route", route |-> route]
      BY <3>2
    <3> QED BY <3>3, <3>4, <3>5
  <2>4. Wire(parse(table, request[1]).to) \in PathAndQuery
    <3>1. normalize_parse(request[1]).to \in PathAndQuery
      BY <2>2, NormalizeCases
    <3> QED BY <2>3, <3>1, WireType
  <2>5. request' \in Option(PathAndQuery) /\ request' # None
    BY <2>1, <2>4, OptionMembers, SomeFacts
  <2>6. link = None
    <3> SUFFICES ASSUME link # None PROVE FALSE
      OBVIOUS
    <3>1. PICK r \in Routes(table) : request = Some(AddressOf(table, r))
      BY DEF IInv
    <3>2. PICK i \in 1..Len(table) : \E args \in Args(table[i]) : r = <<i, args>>
      BY RoutesAre DEF IInv
    <3>3. PICK args \in Args(table[i]) : r = <<i, args>>
      BY <3>2
    <3>4. WellFormed(table[i])
      BY DEF IInv, TableOK
    <3>5. ~HasEmptySegment(AddressOf(table, r).path)
      BY <3>3, <3>4, LinkAddress DEF AddressOf
    <3> QED BY <2>3, <3>1, <3>5, SomeFacts
  <2> QED BY <2>1, <2>5, <2>6 DEF IInv
<1>7. CASE Close
  <2>1. /\ request' = None /\ link' = None /\ page' = None
        /\ UNCHANGED <<source, build, table>>
    BY <1>7 DEF Close
  <2> QED BY <2>1, OptionMembers DEF IInv
<1>8. CASE UNCHANGED vars
  BY <1>8 DEF vars, IInv
<1> QED BY <1>1, <1>2, <1>3, <1>4, <1>5, <1>6, <1>7, <1>8 DEF Next

\* So it holds always.
LEMMA Invariance == Spec => []IInv
<1> QED BY InitIInv, StepIInv, PTL DEF Spec

\* The link that the browser has followed is that of a route, and it is there.
LEMMA LinkIsRoute ==
  ASSUME IInv, link # None
  PROVE  \E i \in 1..Len(table) : \E args \in Args(table[i]) :
           link = Some(<<i, args>>) /\ request = Some(AddressOf(table, <<i, args>>))
<1>1. PICK r \in Routes(table) : link = Some(r) /\ request = Some(AddressOf(table, r))
  BY DEF IInv
<1>2. PICK i \in 1..Len(table) : \E args \in Args(table[i]) : r = <<i, args>>
  BY RoutesAre DEF IInv
<1> QED BY <1>1, <1>2

\* A page that is served is the outcome of parsing the address.
LEMMA ServedIsParsed ==
  ASSUME IInv, NEW p \in Served
  PROVE  /\ request[1] \in PathAndQuery
         /\ p = parse(table, request[1])
         /\ parse(table, request[1]).outcome = "route"
<1>1. p \in ToSet(page) /\ p.outcome = "route"
  BY DEF Served
<1>2. page # None
  BY <1>1 DEF ToSet, None
<1>3. page = Some(parse(table, request[1])) /\ request # None
  BY <1>2 DEF IInv
<1>4. p = parse(table, request[1])
  BY <1>1, <1>3 DEF ToSet, Some
<1>5. request[1] \in PathAndQuery
  BY <1>3, OptionCases DEF IInv
<1> QED BY <1>1, <1>4, <1>5

\* So it is of a variant, with values of its types.
LEMMA ServedIsRouted ==
  ASSUME IInv, NEW p \in Served
  PROVE  \E i \in 1..Len(table) :
           /\ WellFormed(table[i])
           /\ \E args \in Args(table[i]) : p.route = <<i, args>>
<1> DEFINE a == request[1]
<1>1. a \in PathAndQuery /\ p = parse(table, a) /\ parse(table, a).outcome = "route"
  BY ServedIsParsed
<1>2. TableOK(table)
  BY DEF IInv
<1> HIDE DEF a
<1> QED BY <1>1, <1>2, RoutedIsTyped

\* The types follow.
LEMMA InvIsTyped == IInv => TypeOK
<1> SUFFICES ASSUME IInv PROVE TypeOK
  OBVIOUS
<1>1. ASSUME NEW p \in Served
      PROVE  LET types == table[p.route[1]].types
             IN /\ DOMAIN p.route[2] = DOMAIN types
                /\ \A f \in DOMAIN types :
                     CASE types[f] = "String" -> p.route[2][f] \in Segment
                       [] types[f] = "i32"    -> p.route[2][f] \in i32
                       [] types[f] = "bool"   -> p.route[2][f] \in BOOLEAN
  <2>1. PICK i \in 1..Len(table) :
          /\ WellFormed(table[i])
          /\ \E args \in Args(table[i]) : p.route = <<i, args>>
    BY <1>1, ServedIsRouted
  <2>2. PICK args \in Args(table[i]) : p.route = <<i, args>>
    BY <2>1
  <2> DEFINE types == table[i].types
  <2>3. p.route[1] = i /\ p.route[2] = args
    BY <2>2
  <2>4. DOMAIN args = DOMAIN types /\ \A f \in DOMAIN types : args[f] \in Values(types[f])
    BY DEF Args
  <2>5. \A f \in DOMAIN types : types[f] \in Types
    BY <2>1 DEF WellFormed
  <2> HIDE DEF types
  <2>6. ASSUME NEW f \in DOMAIN types
        PROVE  CASE types[f] = "String" -> args[f] \in Segment
                 [] types[f] = "i32"    -> args[f] \in i32
                 [] types[f] = "bool"   -> args[f] \in BOOLEAN
    <3>1. args[f] \in Values(types[f]) /\ types[f] \in Types
      BY <2>4, <2>5
    <3> QED BY <3>1 DEF Types, Values
  <2> QED BY <2>3, <2>4, <2>6 DEF types
<1> QED BY <1>1 DEF IInv, TypeOK

\* Every variable has its type, and the fields of a route that is served have
\* values of theirs.
THEOREM TypeCorrect == Spec => []TypeOK
<1> QED BY Invariance, InvIsTyped, PTL

\* A link that was followed is at its address, which its own variant takes.
LEMMA InvServesLinks == IInv => LinkIsServed
<1> SUFFICES ASSUME IInv, link # None, KeysAreSingle(table[link[1][1]])
             PROVE  /\ parse(table, request[1]).outcome = "route"
                    /\ page # None => page[1].outcome = "route"
  BY DEF LinkIsServed
<1>1. PICK i \in 1..Len(table) : \E args \in Args(table[i]) :
        link = Some(<<i, args>>) /\ request = Some(AddressOf(table, <<i, args>>))
  BY LinkIsRoute
<1>2. PICK args \in Args(table[i]) :
        link = Some(<<i, args>>) /\ request = Some(AddressOf(table, <<i, args>>))
  BY <1>1
<1>3. link[1] = <<i, args>> /\ request[1] = AddressOf(table, <<i, args>>)
  BY <1>2, SomeFacts
<1>4. link[1][1] = i
  BY <1>3
<1>5. KeysAreSingle(table[i])
  BY <1>4
<1>6. parse(table, request[1]).outcome = "route"
  BY <1>3, <1>5, LinkIsRouted DEF IInv, AddressOf
<1>7. page # None => page[1] = parse(table, request[1])
  BY SomeFacts DEF IInv
<1> QED BY <1>6, <1>7

\* The link of a route is served with a page, whatever the values of its fields
\* are, when no key of the route has two values.
THEOREM LinksAreServed == Spec => []LinkIsServed
<1> QED BY Invariance, InvServesLinks, PTL

\* And no variant before it takes the address of one that it is apart from.
LEMMA InvReachesRoutes == IInv => LinkReachesItsRoute
<1> SUFFICES ASSUME IInv, NEW r \in ToSet(link), page # None, KeysAreSingle(table[r[1]]),
                    \A i \in 1..r[1] - 1 : Apart(table[i], table[r[1]])
             PROVE  page = Some([outcome |-> "route", route |-> r])
  BY DEF LinkReachesItsRoute
<1>1. link # None
  BY DEF ToSet, None
<1>2. PICK i \in 1..Len(table) : \E args \in Args(table[i]) :
        link = Some(<<i, args>>) /\ request = Some(AddressOf(table, <<i, args>>))
  BY <1>1, LinkIsRoute
<1>3. PICK args \in Args(table[i]) :
        link = Some(<<i, args>>) /\ request = Some(AddressOf(table, <<i, args>>))
  BY <1>2
<1>4. r = <<i, args>>
  BY <1>3 DEF ToSet, Some
<1>5. request[1] = AddressOf(table, <<i, args>>)
  BY <1>3, SomeFacts
<1>6. r[1] = i
  BY <1>4
<1>7. KeysAreSingle(table[i]) /\ \A j \in 1..i - 1 : Apart(table[j], table[i])
  BY <1>6
<1>8. parse(table, request[1]) = [outcome |-> "route", route |-> <<i, args>>]
  BY <1>5, <1>7, LinkIsRouted DEF IInv, AddressOf
<1>9. page = Some(parse(table, request[1]))
  BY DEF IInv
<1> QED BY <1>4, <1>8, <1>9

\* The page that a link leads to is that of the very route it was made from,
\* with its fields, when the route is apart from those declared before it.
THEOREM LinksReachTheirRoutes == Spec => []LinkReachesItsRoute
<1> QED BY Invariance, InvReachesRoutes, PTL

\* What was parsed from an address is written as the address reads.
LEMMA InvShowsPages == IInv => PageIsAtItsAddress
<1> SUFFICES ASSUME IInv, NEW p \in Served
             PROVE  LET segments == path(table, p.route)
                        pairs == query(table, p.route)
                        asked == IF request[1].query = None THEN <<>> ELSE request[1].query[1]
                    IN /\ Len(segments) = Len(request[1].path)
                       /\ \A i \in 1..Len(segments) : SameText(segments[i], request[1].path[i])
                       /\ pairs # None => \A i \in 1..Len(pairs[1]) :
                            LET key == pairs[1][i][1]  value == pairs[1][i][2]
                            IN /\ contains(asked, key)
                               /\ value # None => \A j \in 1..Len(asked) :
                                    asked[j][1] = key /\ asked[j][2] # None =>
                                      SameText(asked[j][2][1], value[1])
  BY DEF PageIsAtItsAddress
<1>1. /\ request[1] \in PathAndQuery
      /\ p = parse(table, request[1])
      /\ parse(table, request[1]).outcome = "route"
  BY ServedIsParsed
<1>2. TableOK(table)
  BY DEF IInv
<1> DEFINE a == request[1]
<1> HIDE DEF a
<1>3. a \in PathAndQuery /\ p = parse(table, a) /\ parse(table, a).outcome = "route"
  BY <1>1 DEF a
<1> QED BY <1>2, <1>3, RoutedIsShown DEF PairsOf, a

\* A page is shown at its own address only: what the route on it is written
\* with is what was requested, up to the spelling of numbers.
THEOREM PagesAreAtTheirAddresses == Spec => []PageIsAtItsAddress
<1> QED BY Invariance, InvShowsPages, PTL
=============================================================================
