------------------------ MODULE NavigationTextProofs ------------------------
(***************************************************************************)
(* The text of a URL carries the address that it was written for: what     *)
(* raw.rs renders it parses to the same address, whatever characters its   *)
(* segments, keys and values are made of.  So the navigation over text is  *)
(* the one over addresses, and every link is an absolute path.             *)
(***************************************************************************)
EXTENDS NavigationText, SequenceFacts

-----------------------------------------------------------------------------
\* Characters and their escapes

Set == {PATH_SET, QUERY_SET}

\* The characters that have an escape, their escapes, and that the two are apart.
LEMMA CodeFacts ==
  /\ DOMAIN Code = {"%", " ", "=", "&", "?", "/", Backslash, Replacement}
  /\ Digits = {"25", "20", "3D", "26", "3F", "2F", "5C", "EFBFBD", "FF"}
  /\ DOMAIN Code \cap Digits = {}
  /\ DOMAIN Code \subseteq Char /\ Digits \subseteq Char
<1>1. DOMAIN Code = {"%", " ", "=", "&", "?", "/", Backslash, Replacement}
  BY DEF Code
<1>2. Digits = {"25", "20", "3D", "26", "3F", "2F", "5C", "EFBFBD", "FF"}
  BY DEF Code, Digits, InvalidByte, Replacement, Backslash
<1>3. DOMAIN Code \cap Digits = {}
  BY <1>1, <1>2 DEF Replacement, Backslash
<1> QED BY <1>1, <1>2, <1>3, CharAssumption

\* Escapes are digits that name the character.
LEMMA CodeNames ==
  ASSUME NEW c \in DOMAIN Code
  PROVE  Code[c] \in Digits /\ Uncode(Code[c]) = c
<1>1. Code[c] \in Digits
  BY DEF Digits
<1>2. Code[c] # InvalidByte
  BY DEF Code, InvalidByte, Replacement, Backslash
<1>3. \A d \in DOMAIN Code : Code[d] = Code[c] => d = c
  BY DEF Code, Replacement, Backslash
<1> QED BY <1>1, <1>2, <1>3 DEF Uncode

\* What an escape is read as is a character.
LEMMA UncodeType ==
  ASSUME NEW d \in Digits
  PROVE  Uncode(d) \in Char
BY CodeFacts DEF Uncode, Digits, InvalidByte

-----------------------------------------------------------------------------
\* Writing

\* What is written for one character.
Escaped(c, set) == IF c \in set THEN <<"%", Code[c]>> ELSE <<c>>

\* A set of characters to escape holds the percent sign and what is escaped everywhere.
LEMMA SetFacts ==
  ASSUME NEW set \in Set
  PROVE  set \subseteq DOMAIN Code /\ "%" \in set /\ " " \in set /\ Replacement \in set
BY CodeFacts DEF Set, PATH_SET, QUERY_SET, BASE

\* Text is written as text.
LEMMA EscapedType ==
  ASSUME NEW set \in Set, NEW c \in Char
  PROVE  Escaped(c, set) \in Seq(Char)
<1>1. c \in set => "%" \in Char /\ Code[c] \in Char
  BY SetFacts, CodeFacts, CodeNames
<1> QED BY <1>1 DEF Escaped

LEMMA EncodeIsFlat ==
  ASSUME NEW s, NEW set
  PROVE  encode(s, set) = FlattenSeq([i \in 1..Len(s) |-> Escaped(s[i], set)])
BY DEF encode, Escaped

LEMMA EncodeNothing == ASSUME NEW set PROVE encode(<<>>, set) = <<>>
<1>1. [i \in 1..Len(<<>>) |-> Escaped(<<>>[i], set)] = <<>>
  OBVIOUS
<1> QED BY <1>1, EncodeIsFlat, FlattenNothing

\* Text is written one character after the other.
LEMMA EncodeAppend ==
  ASSUME NEW set \in Set, NEW s \in Seq(Char), NEW c \in Char
  PROVE  encode(Append(s, c), set) = encode(s, set) \o Escaped(c, set)
<1> DEFINE q(t) == [i \in 1..Len(t) |-> Escaped(t[i], set)]
<1>1. q(s) \in Seq(Seq(Char))
  BY EscapedType
<1>2. q(Append(s, c)) = Append(q(s), Escaped(c, set))
  OBVIOUS
<1>3. Escaped(c, set) \in Seq(Char)
  BY EscapedType
<1> HIDE DEF q
<1>4. FlattenSeq(q(Append(s, c))) = FlattenSeq(q(s)) \o Escaped(c, set)
  BY <1>1, <1>2, <1>3, FlattenAppend
<1> QED BY <1>4, EncodeIsFlat DEF q

\* No separator is left in it, and a percent sign is always that of an escape.
Safe(t, set) ==
  \A i \in 1..Len(t) :
    /\ t[i] \notin set \ {"%"}
    /\ t[i] = "%" => i < Len(t) /\ t[i + 1] \in Digits

LEMMA SafeConcat ==
  ASSUME NEW set, NEW s \in Seq(Char), NEW t \in Seq(Char), Safe(s, set), Safe(t, set)
  PROVE  Safe(s \o t, set)
BY DEF Safe

LEMMA SafeEscaped ==
  ASSUME NEW set \in Set, NEW c \in Char
  PROVE  Safe(Escaped(c, set), set)
<1>1. CASE c \in set
  <2>1. Code[c] \in Digits /\ Code[c] \notin set
    BY <1>1, SetFacts, CodeFacts, CodeNames
  <2>2. Code[c] # "%"
    BY <2>1, CodeFacts
  <2> QED BY <1>1, <2>1, <2>2 DEF Safe, Escaped
<1>2. CASE c \notin set
  <2>1. Escaped(c, set) = <<c>> /\ c # "%"
    BY <1>2, SetFacts DEF Escaped
  <2> QED BY <1>2, <2>1 DEF Safe
<1> QED BY <1>1, <1>2

\* What is written is safe.
LEMMA EncodeIsSafe ==
  ASSUME NEW set \in Set, NEW s \in Seq(Char)
  PROVE  encode(s, set) \in Seq(Char) /\ Safe(encode(s, set), set)
<1> DEFINE A == {t \in Seq(Char) : encode(t, set) \in Seq(Char) /\ Safe(encode(t, set), set)}
<1>1. <<>> \in A
  <2>1. encode(<<>>, set) = <<>> /\ <<>> \in Seq(Char) /\ Safe(<<>>, set)
    BY EncodeNothing DEF Safe
  <2> QED BY <2>1
<1>2. ASSUME NEW t \in Seq(Char), NEW c \in Char, t \in A PROVE Append(t, c) \in A
  <2>1. encode(t, set) \in Seq(Char) /\ Escaped(c, set) \in Seq(Char)
        /\ Safe(encode(t, set), set) /\ Safe(Escaped(c, set), set)
    BY <1>2, EscapedType, SafeEscaped
  <2>2. encode(Append(t, c), set) = encode(t, set) \o Escaped(c, set)
    BY EncodeAppend
  <2> QED BY <2>1, <2>2, SafeConcat, ConcatProperties, AppendProperties
<1>3. Seq(Char) \subseteq A
  <2> HIDE DEF A
  <2> QED BY <1>1, <1>2, AppendInduction
<1> QED BY <1>3

-----------------------------------------------------------------------------
\* Reading

Escapes(s, i) == i \in 1..Len(s) - 1 /\ s[i] = "%" /\ s[i + 1] \in Digits
Decoded(s, i) ==
  IF Escapes(s, i) THEN <<Uncode(s[i + 1])>>
  ELSE IF Escapes(s, i - 1) THEN <<>> ELSE <<s[i]>>
Pieces(s) == [i \in 1..Len(s) |-> Decoded(s, i)]

\* Text is read character by character, each with what is before it.
LEMMA DecodeIsFlat == ASSUME NEW s PROVE decode(s) = FlattenSeq(Pieces(s))
BY DEF decode, Pieces, Decoded, Escapes

LEMMA PiecesType ==
  ASSUME NEW s \in Seq(Char)
  PROVE  Pieces(s) \in Seq(Seq(Char)) /\ Len(Pieces(s)) = Len(s)
<1>1. ASSUME NEW i \in 1..Len(s) PROVE Decoded(s, i) \in Seq(Char)
  BY UncodeType DEF Decoded, Escapes
<1> QED BY <1>1 DEF Pieces

LEMMA DecodeType ==
  ASSUME NEW s \in Seq(Char)
  PROVE  decode(s) \in Seq(Char)
BY DecodeIsFlat, PiecesType, FlattenSeqType

\* Text may be read in two halves if the first does not end in a percent sign.
LEMMA DecodeConcat ==
  ASSUME NEW s \in Seq(Char), NEW t \in Seq(Char), s # <<>> => s[Len(s)] # "%"
  PROVE  decode(s \o t) = decode(s) \o decode(t)
<1> DEFINE u == s \o t
           n == Len(s)
<1>1. u \in Seq(Char) /\ Len(u) = n + Len(t) /\ n \in Nat /\ Len(t) \in Nat
      /\ (\A i \in 1..n : u[i] = s[i])
      /\ (\A i \in 1..Len(t) : u[n + i] = t[i])
  OBVIOUS
<1>2. n > 0 => s[n] # "%"
  OBVIOUS
<1> HIDE DEF u, n
<1>3. ASSUME NEW i \in Int, i <= n PROVE Escapes(u, i) <=> Escapes(s, i)
  BY <1>1, <1>2, <1>3 DEF Escapes, n
<1>4. ASSUME NEW i \in Nat PROVE Escapes(u, n + i) <=> Escapes(t, i)
  BY <1>1, <1>2 DEF Escapes
<1>5. ASSUME NEW i \in 1..n PROVE Decoded(u, i) = Decoded(s, i)
  <2>1. Escapes(u, i) <=> Escapes(s, i)
    BY <1>1, <1>3
  <2>2. Escapes(u, i - 1) <=> Escapes(s, i - 1)
    BY <1>1, <1>3
  <2>3. Escapes(s, i) => u[i + 1] = s[i + 1]
    BY <1>1 DEF Escapes, n
  <2> QED BY <1>1, <2>1, <2>2, <2>3 DEF Decoded
<1>6. ASSUME NEW i \in 1..Len(t) PROVE Decoded(u, n + i) = Decoded(t, i)
  <2>1. Escapes(u, n + i) <=> Escapes(t, i)
    BY <1>1, <1>4
  <2>2. Escapes(u, n + i - 1) <=> Escapes(t, i - 1)
    <3>1. i - 1 \in Nat /\ n + i - 1 = n + (i - 1)
      BY <1>1
    <3> QED BY <3>1, <1>4
  <2>3. Escapes(t, i) => u[n + i + 1] = t[i + 1]
    <3>1. Escapes(t, i) => i + 1 \in 1..Len(t) /\ n + i + 1 = n + (i + 1)
      BY <1>1 DEF Escapes
    <3> QED BY <3>1, <1>1
  <2> QED BY <1>1, <2>1, <2>2, <2>3 DEF Decoded
<1>7. Pieces(u) = Pieces(s) \o Pieces(t)
  <2>1. /\ Pieces(s) \in Seq(Seq(Char)) /\ Len(Pieces(s)) = n
        /\ Pieces(t) \in Seq(Seq(Char)) /\ Len(Pieces(t)) = Len(t)
        /\ Pieces(u) \in Seq(Seq(Char)) /\ Len(Pieces(u)) = Len(u)
    BY <1>1, PiecesType DEF n
  <2> DEFINE v == Pieces(s) \o Pieces(t)
  <2>2. v \in Seq(Seq(Char)) /\ Len(v) = Len(u)
        /\ \A i \in 1..Len(u) : v[i] = IF i <= n THEN Pieces(s)[i] ELSE Pieces(t)[i - n]
    <3> DEFINE p == Pieces(s)
               q == Pieces(t)
    <3> HIDE DEF p, q
    <3>1. p \in Seq(Seq(Char)) /\ q \in Seq(Seq(Char)) /\ Len(p) = n /\ Len(u) = n + Len(q)
      BY <1>1, <2>1 DEF p, q
    <3>2. p \o q \in Seq(Seq(Char)) /\ Len(p \o q) = Len(u)
          /\ \A i \in 1..Len(u) : (p \o q)[i] = IF i <= n THEN p[i] ELSE q[i - n]
      BY <3>1, ConcatProperties
    <3> QED BY <3>2 DEF p, q
  <2> HIDE DEF v
  <2>3. ASSUME NEW i \in 1..Len(u) PROVE Pieces(u)[i] = v[i]
    <3>1. Pieces(u)[i] = Decoded(u, i)
      BY DEF Pieces
    <3>2. CASE i <= n
      <4>1. i \in 1..n /\ Pieces(s)[i] = Decoded(s, i)
        BY <1>1, <3>2 DEF Pieces, n
      <4> QED BY <1>5, <2>2, <3>1, <3>2, <4>1
    <3>3. CASE ~ (i <= n)
      <4>1. i - n \in 1..Len(t) /\ n + (i - n) = i
        BY <1>1, <3>3
      <4>2. Pieces(t)[i - n] = Decoded(t, i - n)
        BY <4>1 DEF Pieces
      <4>3. Decoded(u, i) = Decoded(t, i - n)
        BY <1>6, <4>1
      <4> QED BY <2>2, <3>1, <3>3, <4>2, <4>3
    <3> QED BY <3>2, <3>3
  <2> QED BY <2>1, <2>2, <2>3, SeqEqual DEF v
<1>8. FlattenSeq(Pieces(s) \o Pieces(t)) = FlattenSeq(Pieces(s)) \o FlattenSeq(Pieces(t))
  BY PiecesType, FlattenConcat
<1> QED BY <1>7, <1>8, DecodeIsFlat DEF u

\* One character is read as it was written.
LEMMA DecodeEscaped ==
  ASSUME NEW set \in Set, NEW c \in Char
  PROVE  decode(Escaped(c, set)) = <<c>>
<1> DEFINE s == Escaped(c, set)
<1>0. <<c>> \in Seq(Char)
  OBVIOUS
<1>1. CASE c \in set
  <2>1. c \in DOMAIN Code /\ Code[c] \in Digits /\ Uncode(Code[c]) = c
    BY <1>1, SetFacts, CodeNames
  <2>2. s = <<"%", Code[c]>>
    BY <1>1 DEF Escaped
  <2>3. Escapes(s, 1) /\ ~ Escapes(s, 2)
    BY <2>1, <2>2 DEF Escapes
  <2>4. Pieces(s) = <<<<c>>, <<>>>>
    BY <2>1, <2>2, <2>3 DEF Pieces, Decoded
  <2>5. Pieces(s) = Append(<<<<c>>>>, <<>>)
    BY <2>4
  <2>6. <<<<c>>>> \in Seq(Seq(Char)) /\ <<>> \in Seq(Char)
    OBVIOUS
  <2>7. FlattenSeq(Pieces(s)) = FlattenSeq(<<<<c>>>>) \o <<>>
    BY <2>5, <2>6, FlattenAppend
  <2> QED BY <1>0, <2>7, FlattenOne, ConcatEmptySeq, DecodeIsFlat
<1>2. CASE c \notin set
  <2>1. s = <<c>>
    BY <1>2 DEF Escaped
  <2>2. Pieces(s) = <<<<c>>>>
    BY <2>1 DEF Pieces, Decoded, Escapes
  <2> QED BY <1>0, <2>2, FlattenOne, DecodeIsFlat
<1> QED BY <1>1, <1>2

LEMMA DecodeNothing == decode(<<>>) = <<>>
<1>1. Pieces(<<>>) = <<>>
  BY DEF Pieces
<1> QED BY <1>1, DecodeIsFlat, FlattenNothing

\* What is written for a text is read as that text, whatever characters it has.
LEMMA DecodeEncode ==
  ASSUME NEW set \in Set, NEW s \in Seq(Char)
  PROVE  decode(encode(s, set)) = s
<1> DEFINE A == {t \in Seq(Char) : decode(encode(t, set)) = t}
<1>1. <<>> \in A
  <2>1. <<>> \in Seq(Char)
    OBVIOUS
  <2> QED BY <2>1, EncodeNothing, DecodeNothing
<1>2. ASSUME NEW t \in Seq(Char), NEW c \in Char, t \in A PROVE Append(t, c) \in A
  <2> DEFINE e == encode(t, set)
  <2>1. e \in Seq(Char) /\ Safe(e, set)
    BY EncodeIsSafe
  <2> HIDE DEF e
  <2>2. e # <<>> => e[Len(e)] # "%"
    BY <2>1 DEF Safe
  <2>3. Escaped(c, set) \in Seq(Char)
    BY EscapedType
  <2>4. decode(e \o Escaped(c, set)) = decode(e) \o <<c>>
    BY <2>1, <2>2, <2>3, DecodeConcat, DecodeEscaped
  <2>5. decode(e) = t
    BY <1>2 DEF e
  <2>6. decode(encode(Append(t, c), set)) = Append(t, c)
    BY <2>4, <2>5, EncodeAppend, AppendIsConcat DEF e
  <2> QED BY <2>6, AppendProperties
<1>3. Seq(Char) \subseteq A
  <2> HIDE DEF A
  <2> QED BY <1>1, <1>2, AppendInduction
<1> QED BY <1>3

\* Only the empty text is read as the empty text.
LEMMA DecodeNonempty ==
  ASSUME NEW s \in Seq(Char), s # <<>>
  PROVE  decode(s) # <<>>
<1> DEFINE p == Pieces(s)
           t == Tail(p)
<1>1. p \in Seq(Seq(Char)) /\ Len(p) = Len(s) /\ Len(s) >= 1
  BY PiecesType
<1>2. ~ Escapes(s, 0) /\ p[1] = Decoded(s, 1)
  BY <1>1 DEF Escapes, Pieces
<1>3. p[1] \in Seq(Char) /\ Len(p[1]) = 1
  BY <1>2, <1>1, UncodeType DEF Decoded, Escapes
<1> HIDE DEF p
<1>4. p = <<p[1]>> \o t /\ t \in Seq(Seq(Char)) /\ <<p[1]>> \in Seq(Seq(Char))
  BY <1>1, <1>3
<1> DEFINE x == p[1]
           f == FlattenSeq(t)
<1>5. FlattenSeq(<<x>> \o t) = FlattenSeq(<<x>>) \o FlattenSeq(t) /\ FlattenSeq(<<x>>) = x
  BY <1>3, <1>4, FlattenConcat, FlattenOne
<1>6. f \in Seq(Char)
  BY <1>4, FlattenSeqType
<1>7. FlattenSeq(p) = x \o f
  BY <1>4, <1>5
<1>8. x \in Seq(Char) /\ Len(x) = 1
  BY <1>3
<1> HIDE DEF x, f
<1>9. x \o f # <<>>
  <2>1. x # <<>>
    <3>1. Len(<<>>) = 0
      OBVIOUS
    <3>2. Len(x) # 0
      BY <1>8
    <3> QED BY <3>1, <3>2, Zenon
  <2> QED BY <1>6, <1>8, <2>1, ConcatEqualIffEmpty
<1> QED BY <1>7, <1>9, DecodeIsFlat DEF p



-----------------------------------------------------------------------------
\* Paths

PathText(p) == FlattenSeq([i \in 1..Len(p) |-> <<"/">> \o encode(p[i], PATH_SET)])
Written(p) == [i \in 1..Len(p) |-> encode(p[i], PATH_SET)]

LEMMA PathTextAppend ==
  ASSUME NEW p \in Seq(Segment), NEW s \in Segment
  PROVE  PathText(Append(p, s)) = PathText(p) \o (<<"/">> \o encode(s, PATH_SET))
<1> DEFINE w(t) == <<"/">> \o encode(t, PATH_SET)
           q(r) == [i \in 1..Len(r) |-> w(r[i])]
<1>1. ASSUME NEW t \in Segment PROVE w(t) \in Seq(Char)
  <2>1. "/" \in Char /\ t \in Seq(Char) /\ PATH_SET \in Set
    BY CodeFacts DEF Segment, Set
  <2>2. encode(t, PATH_SET) \in Seq(Char)
    BY <2>1, EncodeIsSafe
  <2> QED BY <2>1, <2>2, OneBefore
<1> HIDE DEF w
<1>2. q(p) \in Seq(Seq(Char))
  BY <1>1
<1>3. q(Append(p, s)) = Append(q(p), w(s))
  OBVIOUS
<1> HIDE DEF q
<1>4. FlattenSeq(q(Append(p, s))) = FlattenSeq(q(p)) \o w(s)
  BY <1>1, <1>2, <1>3, FlattenAppend
<1> QED BY <1>4 DEF PathText, q, w

LEMMA PathTextNothing == PathText(<<>>) = <<>>
<1>1. [i \in 1..Len(<<>>) |-> <<"/">> \o encode(<<>>[i], PATH_SET)] = <<>>
  OBVIOUS
<1> QED BY <1>1, FlattenNothing DEF PathText

\* The separators are those between the segments, and no other.
LEMMA PathTextSplits ==
  ASSUME NEW p \in Seq(Segment)
  PROVE  /\ PathText(p) \in Seq(Char)
         /\ Safe(PathText(p), PATH_SET \ {"/"})
         /\ p # <<>> => /\ PathText(p) # <<>>
                        /\ PathText(p)[1] = "/"
                        /\ split(Tail(PathText(p)), "/") = Written(p)
<1> DEFINE Good(r) ==
             /\ PathText(r) \in Seq(Char)
             /\ Safe(PathText(r), PATH_SET \ {"/"})
             /\ r # <<>> => /\ PathText(r) # <<>>
                            /\ PathText(r)[1] = "/"
                            /\ split(Tail(PathText(r)), "/") = Written(r)
           A == {r \in Seq(Segment) : Good(r)}
<1>1. <<>> \in A
  <2>1. <<>> \in Seq(Segment) /\ <<>> \in Seq(Char)
    OBVIOUS
  <2>2. Safe(<<>>, PATH_SET \ {"/"})
    BY DEF Safe
  <2>3. Good(<<>>)
    BY <2>1, <2>2, PathTextNothing, Zenon
  <2> HIDE DEF Good
  <2> QED BY <2>1, <2>3
<1>2. ASSUME NEW r \in Seq(Segment), NEW s \in Segment, r \in A PROVE Append(r, s) \in A
  <2> DEFINE e == encode(s, PATH_SET)
             t == PathText(r)
             u == PathText(Append(r, s))
  <2>1. e \in Seq(Char) /\ Safe(e, PATH_SET) /\ t \in Seq(Char) /\ Safe(t, PATH_SET \ {"/"})
    BY <1>2, EncodeIsSafe DEF Segment, Set
  <2>2. u = t \o (<<"/">> \o e)
    BY PathTextAppend
  <2>3. \A i \in 1..Len(e) : e[i] # "/"
    BY <2>1 DEF Safe, PATH_SET
  <2> HIDE DEF e, t, u
  <2>0. "/" \in Char
    BY CodeFacts
  <2>4. /\ <<"/">> \in Seq(Char) /\ <<"/">> \o e \in Seq(Char)
        /\ <<"/">> \o e # <<>> /\ (<<"/">> \o e)[1] = "/" /\ Tail(<<"/">> \o e) = e
    BY <2>0, <2>1, OneBefore
  <2>5. Safe(<<"/">> \o e, PATH_SET \ {"/"})
    <3>1. Safe(<<"/">>, PATH_SET \ {"/"}) /\ Safe(e, PATH_SET \ {"/"}) 
      BY <2>1 DEF Safe
    <3> QED BY <2>1, <2>4, <3>1, SafeConcat
  <2>6. u \in Seq(Char) /\ Safe(u, PATH_SET \ {"/"}) /\ u # <<>>
    <3> DEFINE v == <<"/">> \o e
    <3>1. v \in Seq(Char) /\ v # <<>> /\ u = t \o v /\ Safe(v, PATH_SET \ {"/"})
      BY <2>2, <2>4, <2>5
    <3> HIDE DEF v
    <3>2. u \in Seq(Char) /\ u # <<>>
      BY <2>1, <3>1
    <3> QED BY <2>1, <3>1, <3>2, SafeConcat
  <2>9. u[1] = "/" /\ split(Tail(u), "/") = Written(Append(r, s))
    <3>7. CASE r = <<>>
      <4>1. t = <<>> /\ u = <<"/">> \o e
        BY <2>2, <2>4, <3>7, PathTextNothing, ConcatEmptySeq DEF t
      <4>2. u[1] = "/" /\ Tail(u) = e
        BY <2>4, <4>1
      <4>3. split(e, "/") = <<e>>
        BY <2>1, <2>3, SplitOne
      <4>4. Written(Append(r, s)) = <<e>>
        <5>1. Append(<<>>, s) = <<s>> /\ Len(<<s>>) = 1 /\ <<s>>[1] = s
          OBVIOUS
        <5> QED BY <3>7, <5>1 DEF Written, e
      <4> QED BY <4>2, <4>3, <4>4
    <3>8. CASE r # <<>>
      <4>1. t # <<>> /\ t[1] = "/" /\ split(Tail(t), "/") = Written(r)
        BY <1>2, <3>8 DEF t
      <4>2. Tail(t) \in Seq(Char)
        BY <2>1, <4>1
      <4>3. u[1] = "/" /\ Tail(u) = Tail(t) \o (<<"/">> \o e)
        BY <2>1, <2>2, <2>4, <4>1, TailConcat
      <4>6. Tail(u) = (Tail(t) \o <<"/">>) \o e
        <5>1. Tail(t) \o (<<"/">> \o e) = (Tail(t) \o <<"/">>) \o e
          BY <2>0, <2>1, <4>2, OneBetween
        <5> QED BY <4>3, <5>1
      <4>7. split((Tail(t) \o <<"/">>) \o e, "/") = split(Tail(t), "/") \o <<e>>
        BY <2>0, <2>1, <2>3, <4>2, SplitLast
      <4>4. split(Tail(u), "/") = Written(r) \o <<e>>
        BY <4>1, <4>6, <4>7
      <4>5. Written(Append(r, s)) = Written(r) \o <<e>>
        <5>1. Append(r, s) \in Seq(Segment) /\ Len(Append(r, s)) = Len(r) + 1 /\ Len(r) \in Nat
              /\ (\A i \in 1..Len(r) : Append(r, s)[i] = r[i])
              /\ Append(r, s)[Len(r) + 1] = s
          OBVIOUS
        <5>2. Written(Append(r, s)) = [i \in 1..Len(r) + 1 |-> IF i <= Len(r) THEN encode(r[i], PATH_SET) ELSE e]
          BY <5>1 DEF Written, e
        <5>3. Written(r) \in Seq(Seq(Char)) /\ Len(Written(r)) = Len(r)
          <6>1. \A i \in 1..Len(r) : encode(r[i], PATH_SET) \in Seq(Char)
            BY EncodeIsSafe DEF Segment, Set
          <6> QED BY <6>1 DEF Written
        <5>4. \A i \in 1..Len(r) : Written(r)[i] = encode(r[i], PATH_SET)
          BY DEF Written
        <5> DEFINE w == Written(r)
        <5> HIDE DEF w
        <5>5. w \o <<e>> = [i \in 1..Len(r) + 1 |-> IF i <= Len(r) THEN w[i] ELSE e]
          BY <5>1, <5>3 DEF w
        <5> QED BY <5>1, <5>2, <5>4, <5>5 DEF w
      <4> QED BY <4>3, <4>4, <4>5
    <3> QED BY <3>7, <3>8
  <2>10. Append(r, s) \in Seq(Segment)
    OBVIOUS
  <2>11. Good(Append(r, s))
    BY <2>6, <2>9 DEF u
  <2> HIDE DEF Good
  <2> QED BY <2>10, <2>11
<1>3. Seq(Segment) \subseteq A
  <2> HIDE DEF A
  <2> QED BY <1>1, <1>2, AppendInduction
<1> QED BY <1>3

\* A path is read as it was written, except that one empty segment is none.
LEMMA ParsePathText ==
  ASSUME NEW p \in Seq(Segment)
  PROVE  parse_path(IF PathText(p) = <<>> THEN <<"/">> ELSE PathText(p)) = WirePath(p)
<1> DEFINE t == IF PathText(p) = <<>> THEN <<"/">> ELSE PathText(p)
<1>1. parse_path(<<"/">>) = <<>>
  <2>1. strip_prefix(<<"/">>, "/") = <<>>
    BY DEF strip_prefix
  <2> QED BY <2>1 DEF parse_path
<1>2. CASE p = <<>>
  BY <1>1, <1>2, PathTextNothing DEF WirePath
<1>3. CASE p = <<<<>>>>
  <2>1. <<>> \in Seq(Segment) /\ <<>> \in Segment /\ p = Append(<<>>, <<>>)
    BY <1>3 DEF Segment
  <2>2. PathText(p) = <<>> \o (<<"/">> \o <<>>)
    BY <2>1, PathTextAppend, PathTextNothing, EncodeNothing
  <2>3. PathText(p) = <<"/">>
    BY <2>2
  <2> QED BY <1>1, <1>3, <2>3 DEF WirePath
<1>4. CASE p # <<>> /\ p # <<<<>>>>
  <2>1. /\ t = PathText(p) /\ t \in Seq(Char) /\ t # <<>>
        /\ t[1] = "/" /\ split(Tail(t), "/") = Written(p)
    BY <1>4, PathTextSplits
  <2> HIDE DEF t
  <2>2. strip_prefix(t, "/") = Tail(t)
    BY <2>1 DEF strip_prefix
  <2>3. ASSUME NEW i \in 1..Len(p) PROVE decode(Written(p)[i]) = p[i]
    BY DecodeEncode DEF Written, Segment, Set
  <2>4. Len(Written(p)) = Len(p)
    BY DEF Written
  <2>5. Tail(t) # <<>>
    <3> SUFFICES ASSUME Tail(t) = <<>> PROVE FALSE
      OBVIOUS
    <3>1. <<>> \in Seq(Char) /\ \A i \in 1..Len(<<>>) : <<>>[i] # "/"
      OBVIOUS
    <3>2. split(<<>>, "/") = <<<<>>>>
      BY <3>1, SplitOne
    <3>3. Written(p) = <<<<>>>>
      BY <2>1, <3>2
    <3>4. Len(p) = 1 /\ p[1] = <<>>
      BY <2>3, <2>4, <3>3, DecodeNothing
    <3> QED BY <1>4, <3>4
  <2>6. parse_path(t) = [i \in 1..Len(Written(p)) |-> decode(Written(p)[i])]
    BY <2>1, <2>2, <2>5 DEF parse_path
  <2>7. parse_path(t) = [i \in 1..Len(p) |-> p[i]]
    BY <2>3, <2>4, <2>6
  <2> QED BY <1>4, <2>7 DEF WirePath, t
<1> QED BY <1>2, <1>3, <1>4

-----------------------------------------------------------------------------
\* Queries

\* An optional value is none or some.
LEMMA OptionCases ==
  ASSUME NEW S, NEW o \in Option(S)
  PROVE  o = None \/ (o = <<o[1]>> /\ o[1] \in S)
<1>1. o \in Seq(S) /\ Len(o) <= 1 /\ Len(o) \in Nat
  BY DEF Option
<1>2. CASE Len(o) = 0
  BY <1>1, <1>2, EmptySeq DEF None
<1>3. CASE Len(o) = 1
  <2>1. o[1] \in S
    BY <1>1, <1>3
  <2>2. o = <<o[1]>>
    BY <1>1, <1>3
  <2> QED BY <2>1, <2>2
<1>4. Len(o) = 0 \/ Len(o) = 1
  <2> DEFINE n == Len(o)
  <2>1. n \in Nat /\ n <= 1
    BY <1>1
  <2> HIDE DEF n
  <2>2. n = 0 \/ n = 1
    BY <2>1
  <2> QED BY <2>2 DEF n
<1> QED BY <1>2, <1>3, <1>4

LEMMA OptionMembers ==
  ASSUME NEW S
  PROVE  None \in Option(S) /\ \A x \in S : Some(x) \in Option(S)
BY DEF Option, None, Some

\* The text of one pair, and that it holds no separator of pairs.
LEMMA PairTextType ==
  ASSUME NEW pr \in QueryPair
  PROVE  /\ encode_pair(pr) \in Seq(Char)
         /\ Safe(encode_pair(pr), QUERY_SET \ {"="})
         /\ \A i \in 1..Len(encode_pair(pr)) : encode_pair(pr)[i] # "&"
<1> DEFINE k == encode(pr[1], QUERY_SET)
           v == encode(pr[2][1], QUERY_SET)
<1>1. pr[1] \in Seq(Char) /\ (pr[2] = <<>> \/ (pr[2] = <<pr[2][1]>> /\ pr[2][1] \in Seq(Char)))
  <2>1. pr[1] \in Segment /\ pr[2] \in Option(Segment)
    BY DEF QueryPair
  <2>2. pr[2] = None \/ (pr[2] = <<pr[2][1]>> /\ pr[2][1] \in Segment)
    BY <2>1, OptionCases
  <2> QED BY <2>1, <2>2 DEF None, Segment
<1>2. QUERY_SET \in Set /\ "=" \in Char
  BY CodeFacts DEF Set
<1>3. k \in Seq(Char) /\ Safe(k, QUERY_SET)
  BY <1>1, <1>2, EncodeIsSafe
<1>4. pr[2] # <<>> => v \in Seq(Char) /\ Safe(v, QUERY_SET)
  BY <1>1, <1>2, EncodeIsSafe
<1> DEFINE w == IF pr[2] = <<>> THEN <<>> ELSE <<"=">> \o v
<1>5. encode_pair(pr) = k \o w
  BY DEF encode_pair, None
<1> HIDE DEF k, v
<1>6. Safe(k, QUERY_SET \ {"="})
  BY <1>3 DEF Safe
<1>7. w \in Seq(Char) /\ Safe(w, QUERY_SET \ {"="})
  <2>1. CASE pr[2] = <<>>
    <3>1. w = <<>> /\ <<>> \in Seq(Char)
      BY <2>1
    <3>2. Safe(<<>>, QUERY_SET \ {"="})
      BY DEF Safe
    <3> QED BY <3>1, <3>2
  <2>2. CASE pr[2] # <<>>
    <3>1. v \in Seq(Char) /\ <<"=">> \in Seq(Char) /\ <<"=">> \o v \in Seq(Char)
      BY <1>2, <1>4, <2>2, OneBefore
    <3>2. Safe(v, QUERY_SET \ {"="}) /\ Safe(<<"=">>, QUERY_SET \ {"="})
      BY <1>4, <2>2 DEF Safe
    <3>3. Safe(<<"=">> \o v, QUERY_SET \ {"="})
      BY <3>1, <3>2, SafeConcat
    <3> QED BY <2>2, <3>1, <3>3
  <2> QED BY <2>1, <2>2
<1> HIDE DEF w
<1>8. k \o w \in Seq(Char) /\ Safe(k \o w, QUERY_SET \ {"="})
  BY <1>3, <1>6, <1>7, SafeConcat, ConcatProperties
<1>9. \A i \in 1..Len(k \o w) : (k \o w)[i] # "&"
  BY <1>8 DEF Safe, QUERY_SET
<1> QED BY <1>5, <1>8, <1>9

\* A pair is read as it was written: without a value, or with an empty one.
LEMMA ParsePairText ==
  ASSUME NEW pr \in QueryPair
  PROVE  parse_query_pair(encode_pair(pr)) = pr
<1> DEFINE k == encode(pr[1], QUERY_SET)
           v == encode(pr[2][1], QUERY_SET)
<1>1. pr = <<pr[1], pr[2]>> /\ pr[1] \in Seq(Char)
      /\ (pr[2] = <<>> \/ (pr[2] = <<pr[2][1]>> /\ pr[2][1] \in Seq(Char)))
  <2>1. pr[1] \in Segment /\ pr[2] \in Option(Segment) /\ pr = <<pr[1], pr[2]>>
    BY DEF QueryPair
  <2>2. pr[2] = None \/ (pr[2] = <<pr[2][1]>> /\ pr[2][1] \in Segment)
    BY <2>1, OptionCases
  <2> QED BY <2>1, <2>2 DEF None, Segment
<1>2. QUERY_SET \in Set /\ "=" \in Char
  BY CodeFacts DEF Set
<1>3. k \in Seq(Char) /\ Safe(k, QUERY_SET) /\ decode(k) = pr[1]
  BY <1>1, <1>2, EncodeIsSafe, DecodeEncode
<1>4. pr[2] # <<>> => v \in Seq(Char) /\ decode(v) = pr[2][1]
  BY <1>1, <1>2, EncodeIsSafe, DecodeEncode
<1>5. \A i \in 1..Len(k) : k[i] # "="
  BY <1>3 DEF Safe, QUERY_SET
<1>6. CASE pr[2] = <<>>
  <2>1. encode_pair(pr) = k
    <3>1. encode_pair(pr) = k \o <<>>
      BY <1>6 DEF encode_pair, None
    <3> QED BY <1>3, <3>1, ConcatEmptySeq
  <2>2. find(k, "=") = 0
    BY <1>5, FindNone
  <2> HIDE DEF k
  <2>3. parse_query_pair(k) = <<decode(k), <<>>>>
    BY <2>2 DEF parse_query_pair, None
  <2> QED BY <1>1, <1>3, <1>6, <2>1, <2>3
<1>7. CASE pr[2] # <<>>
  <2>1. encode_pair(pr) = k \o (<<"=">> \o v)
    BY <1>7 DEF encode_pair, None
  <2> HIDE DEF k, v
  <2>2. v \in Seq(Char) /\ decode(v) = pr[2][1] /\ pr[2] = <<pr[2][1]>>
    BY <1>1, <1>4, <1>7
  <2> DEFINE t == (k \o <<"=">>) \o v
  <2>3. k \o (<<"=">> \o v) = t
    BY <1>2, <1>3, <2>2, OneBetween
  <2>4. find(t, "=") = Len(k) + 1
    BY <1>2, <1>3, <1>5, <2>2, FindFirst
  <2>5. SubSeq(t, 1, Len(k)) = k /\ SubSeq(t, Len(k) + 2, Len(t)) = v
    BY <1>2, <1>3, <2>2, AroundOne
  <2>6. Len(k) \in Nat /\ Len(k) + 1 # 0 /\ (Len(k) + 1) - 1 = Len(k) /\ (Len(k) + 1) + 1 = Len(k) + 2
    BY <1>3
  <2> HIDE DEF t
  <2>7. parse_query_pair(t) = <<decode(k), <<decode(v)>>>>
    BY <2>4, <2>5, <2>6 DEF parse_query_pair, Some
  <2> QED BY <1>1, <1>3, <2>1, <2>2, <2>3, <2>7
<1> QED BY <1>6, <1>7

QueryText(q) ==
  FlattenSeq([i \in 1..Len(q) |-> (IF i = 1 THEN <<>> ELSE <<"&">>) \o encode_pair(q[i])])

PairTexts(q) == [i \in 1..Len(q) |-> encode_pair(q[i])]

\* The text of a query grows by "&" and a pair.
LEMMA QueryTextNothing == QueryText(<<>>) = <<>>
<1>1. [i \in 1..Len(<<>>) |-> (IF i = 1 THEN <<>> ELSE <<"&">>) \o encode_pair(<<>>[i])] = <<>>
  OBVIOUS
<1> QED BY <1>1, FlattenNothing DEF QueryText

LEMMA QueryTextAppend ==
  ASSUME NEW q \in Seq(QueryPair), NEW pr \in QueryPair
  PROVE  QueryText(Append(q, pr)) =
           IF q = <<>> THEN encode_pair(pr)
                       ELSE QueryText(q) \o (<<"&">> \o encode_pair(pr))
<1> DEFINE w(i, x) == (IF i = 1 THEN <<>> ELSE <<"&">>) \o encode_pair(x)
           r(y) == [i \in 1..Len(y) |-> w(i, y[i])]
           n == Len(q)
<1>1. ASSUME NEW i, NEW x \in QueryPair PROVE w(i, x) \in Seq(Char)
  <2>1. encode_pair(x) \in Seq(Char) /\ "&" \in Char
    BY PairTextType, CodeFacts
  <2> QED BY <2>1
<1> HIDE DEF w
<1>2. r(q) \in Seq(Seq(Char))
  BY <1>1
<1>3. r(Append(q, pr)) = Append(r(q), w(n + 1, pr))
  OBVIOUS
<1>4. w(n + 1, pr) \in Seq(Char)
  BY <1>1
<1>5. FlattenSeq(r(Append(q, pr))) = FlattenSeq(r(q)) \o w(n + 1, pr)
  <2> HIDE DEF r
  <2> QED BY <1>2, <1>3, <1>4, FlattenAppend
<1>6. QueryText(Append(q, pr)) = QueryText(q) \o w(n + 1, pr)
  BY <1>5 DEF QueryText, w
<1>7. CASE q = <<>>
  <2>1. w(n + 1, pr) = <<>> \o encode_pair(pr)
    BY <1>7 DEF w
  <2>2. encode_pair(pr) \in Seq(Char)
    BY PairTextType
  <2>3. w(n + 1, pr) = encode_pair(pr)
    BY <2>1, <2>2, ConcatEmptySeq
  <2> QED BY <1>6, <1>7, <2>2, <2>3, QueryTextNothing, ConcatEmptySeq
<1>8. CASE q # <<>>
  <2>1. n + 1 # 1
    BY <1>8
  <2> QED BY <1>6, <1>8, <2>1 DEF w
<1> QED BY <1>7, <1>8

\* The text of a query falls apart into the texts of its pairs.
LEMMA QueryTextSplits ==
  ASSUME NEW q \in Seq(QueryPair)
  PROVE  /\ QueryText(q) \in Seq(Char)
         /\ Safe(QueryText(q), BASE)
         /\ q # <<>> => split(QueryText(q), "&") = PairTexts(q)
<1> DEFINE Good(r) ==
             /\ QueryText(r) \in Seq(Char)
             /\ Safe(QueryText(r), BASE)
             /\ r # <<>> => split(QueryText(r), "&") = PairTexts(r)
           A == {r \in Seq(QueryPair) : Good(r)}
<1>1. <<>> \in A
  <2>1. <<>> \in Seq(QueryPair) /\ <<>> \in Seq(Char)
    OBVIOUS
  <2>2. Safe(<<>>, BASE)
    BY DEF Safe
  <2>3. Good(<<>>)
    BY <2>1, <2>2, QueryTextNothing, Zenon
  <2> HIDE DEF Good
  <2> QED BY <2>1, <2>3
<1>2. ASSUME NEW r \in Seq(QueryPair), NEW pr \in QueryPair, r \in A PROVE Append(r, pr) \in A
  <2> DEFINE e == encode_pair(pr)
             t == QueryText(r)
             u == QueryText(Append(r, pr))
  <2>1. e \in Seq(Char) /\ (\A i \in 1..Len(e) : e[i] # "&") /\ t \in Seq(Char) /\ Safe(t, BASE)
    BY <1>2, PairTextType
  <2>2. Safe(e, BASE)
    <3>1. Safe(e, QUERY_SET \ {"="})
      BY PairTextType
    <3> HIDE DEF e
    <3> QED BY <3>1 DEF Safe, QUERY_SET, BASE, Replacement
  <2>3. u = IF r = <<>> THEN e ELSE t \o (<<"&">> \o e)
    BY QueryTextAppend
  <2>4. Append(r, pr) \in Seq(QueryPair)
    OBVIOUS
  <2> HIDE DEF e, t, u
  <2>5. CASE r = <<>>
    <3>1. u = e /\ split(e, "&") = <<e>>
      BY <2>1, <2>3, <2>5, SplitOne
    <3>2. PairTexts(Append(r, pr)) = <<e>>
      <4>1. Append(<<>>, pr) = <<pr>> /\ Len(<<pr>>) = 1 /\ <<pr>>[1] = pr
        OBVIOUS
      <4> QED BY <2>5, <4>1 DEF PairTexts, e
    <3>3. Good(Append(r, pr))
      BY <2>1, <2>2, <3>1, <3>2 DEF u
    <3> HIDE DEF Good
    <3> QED BY <2>4, <3>3
  <2>6. CASE r # <<>>
    <3>0. "&" \in Char
      BY CodeFacts
    <3> DEFINE v == <<"&">> \o e
    <3>1. v \in Seq(Char) /\ <<"&">> \in Seq(Char)
      BY <2>1, <3>0, OneBefore
    <3>2. Safe(v, BASE)
      <4>1. Safe(<<"&">>, BASE)
        <5>1. Len(<<"&">>) = 1 /\ <<"&">>[1] = "&"
          OBVIOUS
        <5>2. "&" \notin BASE /\ "&" # "%"
          BY DEF BASE, Replacement
        <5> QED BY <5>1, <5>2 DEF Safe
      <4> QED BY <2>1, <2>2, <3>1, <4>1, SafeConcat
    <3> HIDE DEF v
    <3>3. u = t \o v
      BY <2>3, <2>6 DEF v
    <3>4. u \in Seq(Char)
      BY <2>1, <3>1, <3>3
    <3>5. Safe(u, BASE)
      BY <2>1, <3>1, <3>2, <3>3, SafeConcat
    <3>6. t \o v = (t \o <<"&">>) \o e
      BY <2>1, <3>0, OneBetween DEF v
    <3>7. split((t \o <<"&">>) \o e, "&") = split(t, "&") \o <<e>>
      BY <2>1, <3>0, SplitLast
    <3>8. split(t, "&") = PairTexts(r)
      BY <1>2, <2>6 DEF t
    <3>9. PairTexts(Append(r, pr)) = PairTexts(r) \o <<e>>
      <4>1. Append(r, pr) \in Seq(QueryPair) /\ Len(Append(r, pr)) = Len(r) + 1 /\ Len(r) \in Nat
            /\ (\A i \in 1..Len(r) : Append(r, pr)[i] = r[i])
            /\ Append(r, pr)[Len(r) + 1] = pr
        OBVIOUS
      <4>2. PairTexts(Append(r, pr)) = [i \in 1..Len(r) + 1 |-> IF i <= Len(r) THEN encode_pair(r[i]) ELSE e]
        BY <4>1 DEF PairTexts, e
      <4>3. PairTexts(r) \in Seq(Seq(Char)) /\ Len(PairTexts(r)) = Len(r)
        <5>1. \A i \in 1..Len(r) : encode_pair(r[i]) \in Seq(Char)
          BY PairTextType
        <5> QED BY <5>1 DEF PairTexts
      <4>4. \A i \in 1..Len(r) : PairTexts(r)[i] = encode_pair(r[i])
        BY DEF PairTexts
      <4> DEFINE w == PairTexts(r)
      <4> HIDE DEF w
      <4>5. w \o <<e>> = [i \in 1..Len(r) + 1 |-> IF i <= Len(r) THEN w[i] ELSE e]
        BY <4>1, <4>3 DEF w
      <4> QED BY <4>1, <4>2, <4>4, <4>5 DEF w
    <3>10. split(u, "&") = PairTexts(Append(r, pr))
      BY <3>3, <3>6, <3>7, <3>8, <3>9
    <3>11. Good(Append(r, pr))
      BY <3>4, <3>5, <3>10 DEF u
    <3> HIDE DEF Good
    <3> QED BY <2>4, <3>11
  <2> QED BY <2>5, <2>6
<1>3. Seq(QueryPair) \subseteq A
  <2> HIDE DEF A
  <2> QED BY <1>1, <1>2, AppendInduction
<1> QED BY <1>3

\* A query is read as it was written, except that one pair of nothing is none.
LEMMA ParseQueryText ==
  ASSUME NEW q \in Seq(QueryPair)
  PROVE  parse_query(QueryText(q)) = IF q = << << <<>>, None >> >> THEN <<>> ELSE q
<1> DEFINE t == QueryText(q)
<1>1. CASE q = <<>>
  <2>1. parse_query(<<>>) = <<>>
    BY DEF parse_query
  <2>2. <<>> # << << <<>>, None >> >>
    OBVIOUS
  <2> QED BY <1>1, <2>1, <2>2, QueryTextNothing
<1>2. CASE q = << << <<>>, None >> >>
  <2> DEFINE pr == << <<>>, None >>
  <2>1. pr \in QueryPair /\ <<>> \in Seq(QueryPair) /\ q = Append(<<>>, pr)
    BY <1>2 DEF QueryPair, Segment, Option, None
  <2>2. encode_pair(pr) = <<>>
    <3>1. encode_pair(pr) = <<>> \o <<>>
      BY EncodeNothing DEF encode_pair, None
    <3> QED BY <3>1
  <2>3. t = <<>>
    BY <2>1, <2>2, QueryTextAppend
  <2> QED BY <1>2, <2>3 DEF parse_query
<1>3. CASE q # <<>> /\ q # << << <<>>, None >> >>
  <2>1. t \in Seq(Char) /\ split(t, "&") = PairTexts(q)
    BY <1>3, QueryTextSplits
  <2> HIDE DEF t
  <2>2. ASSUME NEW i \in 1..Len(q) PROVE parse_query_pair(PairTexts(q)[i]) = q[i]
    BY ParsePairText DEF PairTexts
  <2>3. Len(PairTexts(q)) = Len(q)
    BY DEF PairTexts
  <2>4. t # <<>>
    <3> SUFFICES ASSUME t = <<>> PROVE FALSE
      OBVIOUS
    <3>1. <<>> \in Seq(Char) /\ \A i \in 1..Len(<<>>) : <<>>[i] # "&"
      OBVIOUS
    <3>2. split(<<>>, "&") = <<<<>>>>
      BY <3>1, SplitOne
    <3>3. PairTexts(q) = <<<<>>>>
      BY <2>1, <3>2
    <3>4. parse_query_pair(<<>>) = << <<>>, None >>
      <4>1. find(<<>>, "=") = 0
        BY FindNone
      <4> QED BY <4>1, DecodeNothing DEF parse_query_pair
    <3>5. Len(q) = 1 /\ q[1] = << <<>>, None >>
      BY <2>2, <2>3, <3>3, <3>4
    <3>6. q = <<q[1]>>
      <4>1. Len(q) = 1
        BY <3>5
      <4> QED BY <4>1
    <3> QED BY <1>3, <3>5, <3>6
  <2>5. parse_query(t) = [i \in 1..Len(PairTexts(q)) |-> parse_query_pair(PairTexts(q)[i])]
    BY <2>1, <2>4 DEF parse_query
  <2>6. parse_query(t) = [i \in 1..Len(q) |-> q[i]]
    BY <2>2, <2>3, <2>5
  <2> QED BY <1>3, <2>6 DEF t
<1> QED BY <1>1, <1>2, <1>3

-----------------------------------------------------------------------------
\* Addresses

\* What is written of the path: "/" at least.
PathPart(p) == IF PathText(p) = <<>> THEN <<"/">> ELSE PathText(p)

\* An address is its path and, after a "?", its query.
LEMMA RenderDef ==
  ASSUME NEW a
  PROVE  render_path_and_query(a) =
           PathPart(a.path) \o (IF a.query = None THEN <<>> ELSE <<"?">> \o QueryText(a.query[1]))
BY DEF render_path_and_query, PathPart, PathText, QueryText

\* The text of a path holds no "?" and begins with a slash.
LEMMA PathPartType ==
  ASSUME NEW p \in Seq(Segment)
  PROVE  /\ PathPart(p) \in Seq(Char) /\ Safe(PathPart(p), PATH_SET \ {"/"})
         /\ PathPart(p) # <<>> /\ PathPart(p)[1] = "/"
         /\ \A i \in 1..Len(PathPart(p)) : PathPart(p)[i] # "?"
<1>1. /\ PathText(p) \in Seq(Char) /\ Safe(PathText(p), PATH_SET \ {"/"})
      /\ PathText(p) # <<>> => PathText(p)[1] = "/"
  BY PathTextSplits, PathTextNothing
<1>2. "/" \in Char
  BY CodeFacts
<1>3. <<"/">> \in Seq(Char) /\ <<"/">> # <<>> /\ <<"/">>[1] = "/" /\ Len(<<"/">>) = 1
  BY <1>2
<1>4. Safe(<<"/">>, PATH_SET \ {"/"})
  BY <1>3 DEF Safe
<1> DEFINE t == PathPart(p)
<1>5. t \in Seq(Char) /\ Safe(t, PATH_SET \ {"/"}) /\ t # <<>> /\ t[1] = "/"
  BY <1>1, <1>3, <1>4 DEF PathPart
<1> HIDE DEF t
<1>6. \A i \in 1..Len(t) : t[i] # "?"
  BY <1>5 DEF Safe, PATH_SET
<1> QED BY <1>5, <1>6 DEF t

\* An address is read as it was written, up to the two forms that look the
\* same on the wire.
THEOREM RoundTrip ==
  ASSUME NEW a \in PathAndQuery
  PROVE  parse_path_and_query(render_path_and_query(a)) = Wire(a)
<1> DEFINE x == PathPart(a.path)
<1>1. a.path \in Seq(Segment) /\ a.query \in Option(Seq(QueryPair))
  BY DEF PathAndQuery
<1>2. x \in Seq(Char) /\ \A i \in 1..Len(x) : x[i] # "?"
  BY <1>1, PathPartType
<1>3. parse_path(x) = WirePath(a.path)
  BY <1>1, ParsePathText DEF PathPart
<1>4. CASE a.query = None
  <2>1. render_path_and_query(a) = x
    <3>1. render_path_and_query(a) = x \o <<>>
      BY <1>4, RenderDef
    <3> QED BY <1>2, <3>1, ConcatEmptySeq
  <2>2. find(x, "?") = 0
    BY <1>2, FindNone
  <2> HIDE DEF x
  <2>3. parse_path_and_query(x) = [path |-> parse_path(x), query |-> None]
    BY <2>2 DEF parse_path_and_query
  <2>4. WireQuery(None) = None
    BY DEF WireQuery, None, Some
  <2> QED BY <1>3, <1>4, <2>1, <2>3, <2>4 DEF Wire
<1>5. CASE a.query # None
  <2> DEFINE q == a.query[1]
             z == QueryText(q)
             t == (x \o <<"?">>) \o z
  <2>1. a.query = Some(q) /\ q \in Seq(QueryPair)
    BY <1>1, <1>5, OptionCases DEF Some
  <2>2. z \in Seq(Char) /\ "?" \in Char
    BY <2>1, QueryTextSplits, CodeFacts
  <2>3. parse_query(z) = IF q = << << <<>>, None >> >> THEN <<>> ELSE q
    BY <2>1, ParseQueryText
  <2>4. render_path_and_query(a) = x \o (<<"?">> \o z)
    BY <1>5, RenderDef
  <2> HIDE DEF x, z, q
  <2>5. x \o (<<"?">> \o z) = t
    BY <1>2, <2>2, OneBetween
  <2>6. find(t, "?") = Len(x) + 1
    BY <1>2, <2>2, FindFirst
  <2>7. SubSeq(t, 1, Len(x)) = x /\ SubSeq(t, Len(x) + 2, Len(t)) = z
    BY <1>2, <2>2, AroundOne
  <2>8. Len(x) \in Nat /\ Len(x) + 1 # 0 /\ (Len(x) + 1) - 1 = Len(x) /\ (Len(x) + 1) + 1 = Len(x) + 2
    BY <1>2
  <2> HIDE DEF t
  <2>9. parse_path_and_query(t) = [path |-> parse_path(x), query |-> Some(parse_query(z))]
    BY <2>6, <2>7, <2>8 DEF parse_path_and_query
  <2>10. WireQuery(a.query) = Some(parse_query(z))
    BY <2>1, <2>3 DEF WireQuery, Some
  <2> QED BY <1>3, <2>4, <2>5, <2>9, <2>10 DEF Wire
<1> QED BY <1>4, <1>5

\* The text of an address is well formed.
LEMMA RenderType ==
  ASSUME NEW a \in PathAndQuery
  PROVE  /\ render_path_and_query(a) \in Seq(Char)
         /\ Safe(render_path_and_query(a), BASE)
         /\ render_path_and_query(a) # <<>>
         /\ render_path_and_query(a)[1] = "/"
<1> DEFINE x == PathPart(a.path)
           z == QueryText(a.query[1])
           y == IF a.query = None THEN <<>> ELSE <<"?">> \o z
<1>1. a.path \in Seq(Segment) /\ (a.query # None => a.query[1] \in Seq(QueryPair))
  <2>1. a.path \in Seq(Segment) /\ a.query \in Option(Seq(QueryPair))
    BY DEF PathAndQuery
  <2> QED BY <2>1, OptionCases
<1>2. x \in Seq(Char) /\ Safe(x, PATH_SET \ {"/"}) /\ x # <<>> /\ x[1] = "/"
  BY <1>1, PathPartType
<1>3. a.query # None => z \in Seq(Char) /\ Safe(z, BASE)
  BY <1>1, QueryTextSplits
<1>4. render_path_and_query(a) = x \o y
  BY RenderDef
<1> HIDE DEF x, z
<1>5. Safe(x, BASE)
  BY <1>2 DEF Safe, PATH_SET, BASE, Replacement
<1>6. y \in Seq(Char) /\ Safe(y, BASE)
  <2>1. CASE a.query = None
    <3>1. y = <<>> /\ <<>> \in Seq(Char)
      BY <2>1
    <3>2. Safe(<<>>, BASE)
      BY DEF Safe
    <3> QED BY <3>1, <3>2
  <2>2. CASE a.query # None
    <3>0. "?" \in Char
      BY CodeFacts
    <3>1. z \in Seq(Char) /\ <<"?">> \in Seq(Char) /\ <<"?">> \o z \in Seq(Char)
      BY <1>3, <2>2, <3>0, OneBefore
    <3>2. Safe(<<"?">>, BASE)
      <4>1. Len(<<"?">>) = 1 /\ <<"?">>[1] = "?"
        OBVIOUS
      <4>2. "?" \notin BASE /\ "?" # "%"
        BY DEF BASE, Replacement
      <4> QED BY <4>1, <4>2 DEF Safe
    <3>3. Safe(<<"?">> \o z, BASE)
      BY <1>3, <2>2, <3>1, <3>2, SafeConcat
    <3> QED BY <2>2, <3>1, <3>3
  <2> QED BY <2>1, <2>2
<1> HIDE DEF y
<1>7. x \o y \in Seq(Char) /\ x \o y # <<>> /\ (x \o y)[1] = "/"
  BY <1>2, <1>6, TailConcat
<1>8. Safe(x \o y, BASE)
  BY <1>2, <1>5, <1>6, SafeConcat
<1> QED BY <1>4, <1>7, <1>8

\* Text is written from its first character on.
LEMMA EncodeFirst ==
  ASSUME NEW set \in Set, NEW s \in Seq(Char), s # <<>>
  PROVE  encode(s, set) # <<>> /\ encode(s, set)[1] \in {"%", s[1]}
<1> DEFINE q(t) == [i \in 1..Len(t) |-> Escaped(t[i], set)]
           x == Escaped(s[1], set)
           y == FlattenSeq(q(Tail(s)))
<1>1. s[1] \in Char /\ Tail(s) \in Seq(Char)
  OBVIOUS
<1>2. x \in Seq(Char) /\ x # <<>> /\ x[1] \in {"%", s[1]}
  BY <1>1, EscapedType DEF Escaped
<1>3. <<x>> \in Seq(Seq(Char)) /\ q(Tail(s)) \in Seq(Seq(Char)) /\ q(s) = <<x>> \o q(Tail(s))
  BY <1>1, EscapedType
<1>4. y = encode(Tail(s), set) /\ y \in Seq(Char)
  BY <1>1, EncodeIsFlat, EncodeIsSafe
<1> HIDE DEF q, x
<1>5. FlattenSeq(q(s)) = FlattenSeq(<<x>>) \o y
  BY <1>3, FlattenConcat
<1>6. FlattenSeq(<<x>>) = x
  BY <1>2, FlattenOne
<1> HIDE DEF y
<1>7. x \o y # <<>> /\ (x \o y)[1] = x[1]
  BY <1>2, <1>4
<1>8. encode(s, set) = FlattenSeq(q(s))
  BY EncodeIsFlat DEF q
<1> QED BY <1>2, <1>5, <1>6, <1>7, <1>8

\* A path that begins with a segment begins with one slash, and what follows
\* it is a backslash only when that segment begins with one.
LEMMA OneSlash ==
  ASSUME NEW a \in PathAndQuery, ~HasEmptySegment(a.path)
  PROVE  Len(render_path_and_query(a)) > 1 =>
           /\ render_path_and_query(a)[2] # "/"
           /\ render_path_and_query(a)[2] = Backslash => BeginsWith(a.path, Backslash)
<1> DEFINE p == a.path
           x == PathPart(p)
           z == QueryText(a.query[1])
           y == IF a.query = None THEN <<>> ELSE <<"?">> \o z
<1>1. p \in Seq(Segment) /\ (a.query # None => a.query[1] \in Seq(QueryPair))
  <2>1. a.path \in Seq(Segment) /\ a.query \in Option(Seq(QueryPair))
    BY DEF PathAndQuery
  <2> QED BY <2>1, OptionCases
<1>2. render_path_and_query(a) = x \o y
  BY RenderDef
<1>3. a.query # None => z \in Seq(Char)
  BY <1>1, QueryTextSplits
<1> HIDE DEF z
<1>4. y = <<>> \/ (y \in Seq(Char) /\ y # <<>> /\ y[1] = "?")
  <2>1. "?" \in Char
    BY CodeFacts
  <2> QED BY <1>3, <2>1, OneBefore
<1>5. x \in Seq(Char)
  BY <1>1, PathPartType
<1> HIDE DEF y
<1>6. CASE p = <<>>
  <2>1. x = <<"/">>
    BY <1>6, PathTextNothing DEF PathPart
  <2>2. "?" # "/" /\ "?" # Backslash
    BY DEF Backslash
  <2> QED BY <1>2, <1>4, <2>1, <2>2
<1>7. CASE p # <<>>
  <2> DEFINE s == p[1]
             e == encode(s, PATH_SET)
             w(t) == <<"/">> \o encode(t, PATH_SET)
             m(r) == [i \in 1..Len(r) |-> w(r[i])]
             f == PathText(Tail(p))
  <2>1. s \in Segment /\ s # <<>> /\ Tail(p) \in Seq(Segment)
    BY <1>1, <1>7 DEF HasEmptySegment
  <2>2. e \in Seq(Char) /\ Safe(e, PATH_SET) /\ decode(e) = s /\ f \in Seq(Char) /\ "/" \in Char
    BY <2>1, EncodeIsSafe, DecodeEncode, PathTextSplits, CodeFacts DEF Segment, Set
  <2>3. e # <<>> /\ e[1] \in {"%", s[1]}
    BY <2>1, EncodeFirst DEF Segment, Set
  <2>4. ASSUME NEW t \in Segment PROVE w(t) \in Seq(Char)
    <3>1. "/" \in Char /\ t \in Seq(Char) /\ PATH_SET \in Set
      BY CodeFacts DEF Segment, Set
    <3>2. encode(t, PATH_SET) \in Seq(Char)
      BY <3>1, EncodeIsSafe
    <3> QED BY <3>1, <3>2, OneBefore
  <2> HIDE DEF w
  <2>5. m(p) = <<w(s)>> \o m(Tail(p))
    BY <1>1, <1>7, <2>1
  <2>6. <<w(s)>> \in Seq(Seq(Char)) /\ m(Tail(p)) \in Seq(Seq(Char)) /\ w(s) \in Seq(Char)
    BY <2>1, <2>4
  <2> HIDE DEF m
  <2>7. FlattenSeq(m(p)) = FlattenSeq(<<w(s)>>) \o FlattenSeq(m(Tail(p)))
    BY <2>5, <2>6, FlattenConcat
  <2>8. PathText(p) = w(s) \o f
    BY <2>6, <2>7, FlattenOne DEF PathText, m, w
  <2>9. w(s) = <<"/">> \o e
    BY DEF w
  <2> HIDE DEF e, f, s
  <2>10. e[1] # "/" /\ Len(e) >= 1
    BY <2>2, <2>3 DEF Safe, PATH_SET
  <2> DEFINE g == (<<"/">> \o e) \o f
  <2>11. g \in Seq(Char) /\ Len(g) >= 2 /\ g[2] = e[1]
    BY <2>2, <2>10
  <2> HIDE DEF g
  <2>12. x = g
    <3>1. PathText(p) = g /\ g # <<>>
      BY <2>8, <2>9, <2>11 DEF g
    <3> QED BY <3>1 DEF PathPart
  <2> HIDE DEF x
  <2>13. (x \o y)[2] = e[1]
    BY <1>4, <2>11, <2>12
  <2>14. e[1] = Backslash => BeginsWith(p, Backslash)
    <3>1. "%" # Backslash
      BY DEF Backslash
    <3> QED BY <1>7, <2>1, <2>3, <3>1 DEF BeginsWith, s
  <2> QED BY <1>2, <2>10, <2>13, <2>14
<1> QED BY <1>6, <1>7



\* What is read is a path, and never the one that is written as none.
LEMMA ParsePathType ==
  ASSUME NEW s \in Seq(Char)
  PROVE  parse_path(s) \in Seq(Segment) /\ parse_path(s) # <<<<>>>>
<1> DEFINE t == strip_prefix(s, "/")
           parts == split(t, "/")
<1>1. t \in Seq(Char)
  BY DEF strip_prefix
<1>2. CASE t = <<>>
  <2>1. parse_path(s) = <<>>
    BY <1>2 DEF parse_path
  <2> QED BY <2>1
<1>3. CASE t # <<>>
  <2>1. "/" \in Char
    BY CodeFacts
  <2> HIDE DEF t
  <2>2. parts \in Seq(Seq(Char)) /\ parts # <<<<>>>>
    BY <1>1, <1>3, <2>1, SplitType, SplitOfNothing
  <2>3. parse_path(s) = [i \in 1..Len(parts) |-> decode(parts[i])]
    BY <1>3 DEF parse_path, t
  <2> HIDE DEF parts
  <2>4. ASSUME NEW i \in 1..Len(parts) PROVE decode(parts[i]) \in Segment /\ (decode(parts[i]) = <<>> => parts[i] = <<>>)
    <3>1. parts[i] \in Seq(Char)
      BY <2>2
    <3> QED BY <3>1, DecodeType, DecodeNonempty DEF Segment
  <2>5. parse_path(s) \in Seq(Segment)
    BY <2>2, <2>3, <2>4
  <2>6. ASSUME parse_path(s) = <<<<>>>> PROVE FALSE
    <3>1. Len(parts) = 1
      <4>1. Len(parse_path(s)) = Len(parts)
        BY <2>2, <2>3
      <4>2. Len(<<<<>>>>) = 1
        OBVIOUS
      <4> QED BY <2>6, <4>1, <4>2
    <3>2. decode(parts[1]) = <<>>
      <4>1. parse_path(s)[1] = decode(parts[1])
        BY <2>3, <3>1
      <4> QED BY <2>6, <4>1
    <3>3. parts[1] = <<>>
      BY <2>4, <3>1, <3>2
    <3>4. parts = <<<<>>>>
      BY <2>2, <3>1, <3>3
    <3> QED BY <2>2, <3>4
  <2> QED BY <2>5, <2>6
<1> QED BY <1>2, <1>3

\* Only nothing is read as a pair of nothing.
LEMMA ParsePairType ==
  ASSUME NEW s \in Seq(Char)
  PROVE  /\ parse_query_pair(s) \in QueryPair
         /\ parse_query_pair(s) = <<<<>>, None>> => s = <<>>
<1> DEFINE i == find(s, "=")
<1>1. i \in 0..Len(s) /\ Len(s) \in Nat
  BY FindType
<1>2. CASE i = 0
  <2>1. parse_query_pair(s) = <<decode(s), None>>
    BY <1>2 DEF parse_query_pair
  <2>2. decode(s) \in Segment /\ None \in Option(Segment)
    BY DecodeType, OptionMembers DEF Segment
  <2>3. decode(s) = <<>> => s = <<>>
    BY DecodeNonempty
  <2> QED BY <2>1, <2>2, <2>3 DEF QueryPair
<1>3. CASE i # 0
  <2> DEFINE k == SubSeq(s, 1, i - 1)
             v == SubSeq(s, i + 1, Len(s))
  <2>1. parse_query_pair(s) = <<decode(k), Some(decode(v))>>
    BY <1>3 DEF parse_query_pair
  <2> HIDE DEF i
  <2>2. k \in Seq(Char) /\ v \in Seq(Char)
    BY <1>1, <1>3
  <2> HIDE DEF k, v
  <2>3. decode(k) \in Segment /\ Some(decode(v)) \in Option(Segment)
    BY <2>2, DecodeType, OptionMembers DEF Segment
  <2>4. Some(decode(v)) # None
    BY DEF Some, None
  <2> QED BY <2>1, <2>3, <2>4 DEF QueryPair
<1> QED BY <1>2, <1>3

\* What is read is a query, and never the one that is written as an empty one.
LEMMA ParseQueryType ==
  ASSUME NEW s \in Seq(Char)
  PROVE  parse_query(s) \in Seq(QueryPair) /\ parse_query(s) # <<<<<<>>, None>>>>
<1> DEFINE parts == split(s, "&")
<1>2. CASE s = <<>>
  <2>1. parse_query(s) = <<>>
    BY <1>2 DEF parse_query
  <2> QED BY <2>1
<1>3. CASE s # <<>>
  <2>1. "&" \in Char
    BY CodeFacts
  <2>2. parts \in Seq(Seq(Char)) /\ parts # <<<<>>>>
    BY <1>3, <2>1, SplitType, SplitOfNothing
  <2>3. parse_query(s) = [i \in 1..Len(parts) |-> parse_query_pair(parts[i])]
    BY <1>3 DEF parse_query
  <2> HIDE DEF parts
  <2>4. ASSUME NEW i \in 1..Len(parts)
        PROVE  /\ parse_query_pair(parts[i]) \in QueryPair
               /\ parse_query_pair(parts[i]) = <<<<>>, None>> => parts[i] = <<>>
    <3>1. parts[i] \in Seq(Char)
      BY <2>2
    <3> QED BY <3>1, ParsePairType
  <2>5. parse_query(s) \in Seq(QueryPair)
    BY <2>2, <2>3, <2>4
  <2>6. ASSUME parse_query(s) = <<<<<<>>, None>>>> PROVE FALSE
    <3>1. Len(parts) = 1
      <4>1. Len(parse_query(s)) = Len(parts)
        BY <2>2, <2>3
      <4>2. Len(<<<<<<>>, None>>>>) = 1
        OBVIOUS
      <4> QED BY <2>6, <4>1, <4>2
    <3>2. parse_query_pair(parts[1]) = <<<<>>, None>>
      <4>1. parse_query(s)[1] = parse_query_pair(parts[1])
        BY <2>3, <3>1
      <4> QED BY <2>6, <4>1
    <3>3. parts[1] = <<>>
      BY <2>4, <3>1, <3>2
    <3>4. parts = <<<<>>>>
      BY <2>2, <3>1, <3>3
    <3> QED BY <2>2, <3>4
  <2> QED BY <2>5, <2>6
<1> QED BY <1>2, <1>3

\* What is read is an address, and is read as it is when it is written again.
LEMMA ParseType ==
  ASSUME NEW s \in Seq(Char)
  PROVE  /\ parse_path_and_query(s) \in PathAndQuery
         /\ Wire(parse_path_and_query(s)) = parse_path_and_query(s)
<1> DEFINE i == find(s, "?")
<1>1. i \in 0..Len(s) /\ Len(s) \in Nat
  BY FindType
<1>2. CASE i = 0
  <2>1. parse_path_and_query(s) = [path |-> parse_path(s), query |-> None]
    BY <1>2 DEF parse_path_and_query
  <2>2. parse_path(s) \in Seq(Segment) /\ parse_path(s) # <<<<>>>> /\ None \in Option(Seq(QueryPair))
    BY ParsePathType, OptionMembers
  <2>3. WireQuery(None) = None
    BY DEF WireQuery, None, Some
  <2>4. WirePath(parse_path(s)) = parse_path(s)
    BY <2>2 DEF WirePath
  <2> QED BY <2>1, <2>2, <2>3, <2>4 DEF PathAndQuery, Wire
<1>3. CASE i # 0
  <2> DEFINE p == SubSeq(s, 1, i - 1)
             q == SubSeq(s, i + 1, Len(s))
  <2>1. parse_path_and_query(s) = [path |-> parse_path(p), query |-> Some(parse_query(q))]
    BY <1>3 DEF parse_path_and_query
  <2> HIDE DEF i
  <2>2. p \in Seq(Char) /\ q \in Seq(Char)
    BY <1>1, <1>3
  <2> HIDE DEF p, q
  <2>3. /\ parse_path(p) \in Seq(Segment) /\ parse_path(p) # <<<<>>>>
        /\ Some(parse_query(q)) \in Option(Seq(QueryPair))
        /\ parse_query(q) # <<<<<<>>, None>>>>
    BY <2>2, ParsePathType, ParseQueryType, OptionMembers
  <2>4. WireQuery(Some(parse_query(q))) = Some(parse_query(q))
    BY <2>3 DEF WireQuery, Some
  <2>5. WirePath(parse_path(p)) = parse_path(p)
    BY <2>3 DEF WirePath
  <2> QED BY <2>1, <2>3, <2>4, <2>5 DEF PathAndQuery, Wire
<1> QED BY <1>2, <1>3

-----------------------------------------------------------------------------
\* Normalization

\* A link is rendered without an empty segment: what would be one or looks
\* like an escaped one gets another dash.
LEMMA RenderPathType ==
  ASSUME NEW p \in Seq(Segment)
  PROVE  /\ normalize_render_path(p) \in Seq(Segment)
         /\ ~HasEmptySegment(normalize_render_path(p))
<1>1. ASSUME NEW s \in Segment
      PROVE  /\ Append(s, Dash) \in Segment /\ Append(s, Dash) # <<>>
             /\ ~OnlyDashes(s) => s # <<>>
  BY DashAssumption, AppendProperties DEF Segment, OnlyDashes
<1> DEFINE w(s) == IF OnlyDashes(s) THEN Append(s, Dash) ELSE s
           q == [i \in 1..Len(p) |-> w(p[i])]
<1>2. ASSUME NEW s \in Segment PROVE w(s) \in Segment /\ w(s) # <<>>
  BY <1>1
<1>3. normalize_render_path(p) = q
  BY DEF normalize_render_path
<1> HIDE DEF w
<1>4. q \in Seq(Segment) /\ \A i \in 1..Len(q) : q[i] # <<>>
  BY <1>2
<1> QED BY <1>3, <1>4 DEF HasEmptySegment

\* A redirect drops the empty segments.
LEMMA DropEmptyType ==
  ASSUME NEW p \in Seq(Segment)
  PROVE  /\ DropEmpty(p) \in Seq(Segment)
         /\ ~HasEmptySegment(DropEmpty(p))
<1> DEFINE S == Segment \ {<<>>}
           w(s) == IF s = <<>> THEN <<>> ELSE <<s>>
           q == [i \in 1..Len(p) |-> w(p[i])]
<1>1. ASSUME NEW s \in Segment PROVE w(s) \in Seq(S)
  <2>1. CASE s = <<>>
    BY <2>1
  <2>2. CASE s # <<>>
    <3>1. s \in S
      BY <2>2
    <3> HIDE DEF S
    <3> QED BY <2>2, <3>1
  <2> QED BY <2>1, <2>2
<1>2. DropEmpty(p) = FlattenSeq(q)
  BY DEF DropEmpty
<1> HIDE DEF w, S
<1>3. q \in Seq(Seq(S))
  BY <1>1
<1> HIDE DEF q
<1>4. DropEmpty(p) \in Seq(S)
  BY <1>2, <1>3, FlattenSeqType
<1>5. S \subseteq Segment /\ <<>> \notin S
  BY DEF S
<1>6. DropEmpty(p) \in Seq(Segment) /\ \A i \in 1..Len(DropEmpty(p)) : DropEmpty(p)[i] # <<>>
  BY <1>4, <1>5
<1> QED BY <1>6 DEF HasEmptySegment

\* A segment may lose a dash and remains one.
LEMMA UndashType ==
  ASSUME NEW p \in Seq(Segment)
  PROVE  Undash(p) \in Seq(Segment)
<1> DEFINE w(s) == IF OnlyDashes(s) THEN drop_one(s) ELSE s
           q == [i \in 1..Len(p) |-> w(p[i])]
<1>1. ASSUME NEW s \in Segment PROVE w(s) \in Segment
  <2>1. drop_one(s) \in Segment
    BY DEF drop_one, Segment
  <2> QED BY <2>1
<1>2. Undash(p) = q
  BY DEF Undash
<1> HIDE DEF w
<1>3. q \in Seq(Segment)
  BY <1>1
<1> QED BY <1>2, <1>3

\* What the server makes of an address: a route, or the text of an address
\* without an empty segment.
LEMMA PlainParseType ==
  ASSUME NEW a \in PathAndQuery
  PROVE  /\ PlainParse(a).ok <=> normalize_parse(a).ok
         /\ PlainParse(a).ok <=> ~HasEmptySegment(a.path)
         /\ PlainParse(a).ok =>
              PlainParse(a).route = normalize_parse(a).to /\ PlainParse(a).route \in PathAndQuery
         /\ ~PlainParse(a).ok =>
              /\ PlainParse(a).dest = render_path_and_query(normalize_parse(a).to)
              /\ normalize_parse(a).to \in PathAndQuery
              /\ ~HasEmptySegment(normalize_parse(a).to.path)
<1>1. a.path \in Seq(Segment) /\ a.query \in Option(Seq(QueryPair))
  BY DEF PathAndQuery
<1>2. CASE HasEmptySegment(a.path)
  <2> DEFINE to == [path |-> DropEmpty(a.path), query |-> a.query]
  <2>1. normalize_parse(a) = [ok |-> FALSE, to |-> to]
    BY <1>2 DEF normalize_parse
  <2>2. PlainParse(a) = [ok |-> FALSE, dest |-> render_path_and_query(to)]
    BY <2>1 DEF PlainParse
  <2>3. to \in PathAndQuery /\ to.path = DropEmpty(a.path) /\ ~HasEmptySegment(to.path)
    BY <1>1, DropEmptyType DEF PathAndQuery
  <2> HIDE DEF to
  <2> QED BY <1>2, <2>1, <2>2, <2>3
<1>3. CASE ~HasEmptySegment(a.path)
  <2> DEFINE to == [path |-> Undash(a.path), query |-> a.query]
  <2>1. normalize_parse(a) = [ok |-> TRUE, to |-> to]
    BY <1>3 DEF normalize_parse
  <2>2. PlainParse(a) = [ok |-> TRUE, route |-> to]
    BY <2>1 DEF PlainParse
  <2>3. to \in PathAndQuery
    BY <1>1, UndashType DEF PathAndQuery
  <2> HIDE DEF to
  <2> QED BY <1>3, <2>1, <2>2, <2>3
<1> QED BY <1>2, <1>3

\* The address of a link.
LEMMA PlainRouteAddress ==
  ASSUME NEW r \in PathAndQuery
  PROVE  /\ PlainPathAndQuery(r) \in PathAndQuery
         /\ ~HasEmptySegment(PlainPathAndQuery(r).path)
<1>1. r.path \in Seq(Segment) /\ r.query \in Option(Seq(QueryPair))
  BY DEF PathAndQuery
<1> QED BY <1>1, RenderPathType DEF PlainPathAndQuery, PathAndQuery

\* Both servers parse an address, the warp filter not always the one at hand.
LEMMA ServerParse ==
  ASSUME NEW s \in Seq(Char)
  PROVE  /\ \E a \in PathAndQuery : server_parse(s) = PlainParse(a)
         /\ Stack = "hyper" => server_parse(s) = PlainParse(parse_path_and_query(s))
<1>1. parse_str(s) = PlainParse(parse_path_and_query(s)) /\ parse_path_and_query(s) \in PathAndQuery
  BY ParseType DEF parse_str
<1>2. ASSUME NEW p \in Seq(Char), NEW q \in Seq(Char)
      PROVE  \E a \in PathAndQuery : parse_strs(p, q) = PlainParse(a)
  <2> DEFINE o == IF q = <<>> THEN Some(parse_query(q)) ELSE None
             a == [path |-> parse_path(p), query |-> o]
  <2>1. o \in Option(Seq(QueryPair))
    BY ParseQueryType, OptionMembers
  <2> HIDE DEF o
  <2>2. a \in PathAndQuery
    BY <2>1, ParsePathType DEF PathAndQuery
  <2>3. parse_strs(p, q) = PlainParse(a)
    BY DEF parse_strs, o
  <2> HIDE DEF a
  <2> QED BY <2>2, <2>3
<1> DEFINE i == find(s, "?")
           p == SubSeq(s, 1, i - 1)
           q == SubSeq(s, i + 1, Len(s))
<1>3. i \in 0..Len(s) /\ Len(s) \in Nat
  BY FindType
<1>4. route_filter_result(s) = IF i = 0 THEN parse_str(s) ELSE parse_strs(p, q)
  BY DEF route_filter_result
<1> HIDE DEF i
<1>5. i # 0 => p \in Seq(Char) /\ q \in Seq(Char)
  BY <1>3
<1> HIDE DEF p, q
<1> QED BY <1>1, <1>2, <1>4, <1>5 DEF server_parse

-----------------------------------------------------------------------------
\* The state

\* reads is what url reads as.
Read == reads = IF url = None THEN None ELSE Some(parse_path_and_query(url[1]))

\* Between two visits nothing is remembered of the last one.
Quiet == url = None /\ page = None => link = None /\ hops = 0

IInv == TypeOK /\ Read /\ Quiet /\ WrittenUrlsAreAbsolutePaths

AbsolutePath(t) ==
  /\ t # <<>> /\ t[1] = "/"
  /\ Len(t) > 1 =>
       /\ t[2] # "/"
       /\ t[2] = Backslash => BeginsWith(parse_path_and_query(t).path, Backslash)
  /\ \A i \in 1..Len(t) :
       /\ t[i] \notin {" ", Replacement}
       /\ t[i] = "%" => i < Len(t) /\ t[i + 1] \in Digits

\* Whatever has no empty segment is written as an absolute path.
LEMMA RenderIsAbsolute ==
  ASSUME NEW a \in PathAndQuery, ~HasEmptySegment(a.path)
  PROVE  render_path_and_query(a) \in Seq(Char) /\ AbsolutePath(render_path_and_query(a))
<1> DEFINE t == render_path_and_query(a)
<1>1. t \in Seq(Char) /\ Safe(t, BASE) /\ t # <<>> /\ t[1] = "/"
  BY RenderType
<1>2. Len(t) > 1 => t[2] # "/" /\ (t[2] = Backslash => BeginsWith(a.path, Backslash))
  BY OneSlash
<1>3. parse_path_and_query(t).path = WirePath(a.path)
  BY RoundTrip DEF Wire
<1>4. BeginsWith(a.path, Backslash) => WirePath(a.path) = a.path
  BY DEF BeginsWith, WirePath
<1> HIDE DEF t
<1>5. " " # "%" /\ Replacement # "%"
  BY DEF Replacement
<1> QED BY <1>1, <1>2, <1>3, <1>4, <1>5 DEF AbsolutePath, Safe, BASE, t

LEMMA InitIInv == Init => IInv
<1> SUFFICES ASSUME Init PROVE IInv
  OBVIOUS
<1>1. url = None /\ reads = None /\ link = None /\ hops = 0 /\ page = None
  BY DEF Init
<1>2. TypeOK
  BY <1>1, OptionMembers DEF TypeOK
<1> QED BY <1>1, <1>2 DEF IInv, Read, Quiet, WrittenUrlsAreAbsolutePaths

\* What is sent is read.
LEMMA SendType ==
  ASSUME NEW s \in Seq(Char), Send(s)
  PROVE  /\ url' \in Option(Seq(Char)) /\ url' # None /\ url'[1] = s
         /\ reads' \in Option(PathAndQuery) /\ Read'
         /\ reads'[1] = parse_path_and_query(s)
<1>1. url' = Some(s) /\ reads' = Some(parse_path_and_query(s))
  BY DEF Send
<1>2. /\ Some(s) # None /\ Some(s)[1] = s
      /\ Some(parse_path_and_query(s))[1] = parse_path_and_query(s)
  BY DEF Some, None
<1>3. Some(s) \in Option(Seq(Char)) /\ Some(parse_path_and_query(s)) \in Option(PathAndQuery)
  BY ParseType, OptionMembers
<1> QED BY <1>1, <1>2, <1>3 DEF Read

\* The steps, one by one.
LEMMA TypeIInv == ASSUME IInv, NEW s \in Url, Type(s) PROVE IInv'
<1>1. s \in Seq(Char)
  BY UrlAssumption
<1>2. url = None /\ page = None /\ Send(s) /\ link' = link /\ hops' = hops /\ page' = page
  BY DEF Type
<1>3. link = None /\ hops = 0
  BY <1>2 DEF IInv, Quiet
<1>4. /\ url' \in Option(Seq(Char)) /\ url' # None /\ reads' \in Option(PathAndQuery) /\ Read'
  BY <1>1, <1>2, SendType
<1>5. TypeOK'
  BY <1>2, <1>4 DEF IInv, TypeOK
<1>6. WrittenUrlsAreAbsolutePaths'
  <2>1. ~(0 > 0)
    OBVIOUS
  <2> QED BY <1>2, <1>3, <2>1 DEF WrittenUrlsAreAbsolutePaths
<1> QED BY <1>4, <1>5, <1>6 DEF IInv, Quiet

LEMMA FollowIInv ==
  ASSUME IInv, NEW r \in IF page = None THEN Route ELSE ToSet(page), Follow(r)
  PROVE  IInv' /\ r \in PathAndQuery
<1>1. r \in PathAndQuery
  <2>1. CASE page = None
    BY <2>1, RouteAssumption
  <2>2. CASE page # None
    <3>1. page = <<page[1]>> /\ page[1] \in PathAndQuery
      BY <2>2, OptionCases DEF IInv, TypeOK
    <3>2. r \in ToSet(page)
      BY <2>2
    <3>3. PICK i \in DOMAIN page : r = page[i]
      BY <3>2 DEF ToSet
    <3>4. DOMAIN page = {1}
      BY <3>1
    <3> QED BY <3>1, <3>3, <3>4
  <2> QED BY <2>1, <2>2
<1> DEFINE t == render(r)
<1>2. t \in Seq(Char) /\ AbsolutePath(t)
  BY <1>1, PlainRouteAddress, RenderIsAbsolute DEF render
<1>3. Send(t) /\ link' = Some(r) /\ hops' = 0 /\ page' = None
  BY DEF Follow
<1> HIDE DEF t
<1>4. /\ url' \in Option(Seq(Char)) /\ url' # None /\ url'[1] = t
      /\ reads' \in Option(PathAndQuery) /\ Read'
      /\ reads'[1] = parse_path_and_query(t)
  BY <1>2, <1>3, SendType
<1>5. TypeOK'
  BY <1>1, <1>3, <1>4, OptionMembers DEF TypeOK
<1>6. WrittenUrlsAreAbsolutePaths'
  BY <1>2, <1>4 DEF WrittenUrlsAreAbsolutePaths, AbsolutePath
<1> QED BY <1>1, <1>4, <1>5, <1>6 DEF IInv, Quiet

LEMMA CloseIInv == ASSUME IInv, Close PROVE IInv'
<1>1. link' = None /\ hops' = 0 /\ page' = None /\ url' = url /\ reads' = reads
  BY DEF Close
<1>2. TypeOK'
  BY <1>1, OptionMembers DEF IInv, TypeOK
<1>3. ~(0 > 0)
  OBVIOUS
<1> QED BY <1>1, <1>2, <1>3 DEF IInv, Read, Quiet, WrittenUrlsAreAbsolutePaths

LEMMA DispatchIInv == ASSUME IInv, Dispatch PROVE IInv'
<1>1. url # None /\ server_parse(url[1]).ok /\ page' = Some(server_parse(url[1]).route)
      /\ url' = None /\ reads' = None /\ link' = link /\ hops' = hops
  BY DEF Dispatch
<1>2. url[1] \in Seq(Char)
  BY <1>1, OptionCases DEF IInv, TypeOK
<1>3. PICK a \in PathAndQuery : server_parse(url[1]) = PlainParse(a)
  BY <1>2, ServerParse
<1>4. server_parse(url[1]).route \in PathAndQuery
  BY <1>1, <1>3, PlainParseType
<1>5. page' \in Option(PathAndQuery) /\ page' # None
  BY <1>1, <1>4, OptionMembers DEF Some, None
<1>6. TypeOK'
  BY <1>1, <1>5, OptionMembers DEF IInv, TypeOK
<1> QED BY <1>1, <1>5, <1>6 DEF IInv, Read, Quiet, WrittenUrlsAreAbsolutePaths

LEMMA RedirectIInv == ASSUME IInv, Redirect PROVE IInv'
<1> DEFINE t == server_parse(url[1]).dest
<1>1. url # None /\ ~server_parse(url[1]).ok /\ Send(t) /\ link' = link /\ page' = page
  BY DEF Redirect
<1>2. url[1] \in Seq(Char)
  BY <1>1, OptionCases DEF IInv, TypeOK
<1>3. PICK a \in PathAndQuery : server_parse(url[1]) = PlainParse(a)
  BY <1>2, ServerParse
<1>4. t \in Seq(Char) /\ AbsolutePath(t)
  BY <1>1, <1>3, PlainParseType, RenderIsAbsolute
<1> HIDE DEF t
<1>5. /\ url' \in Option(Seq(Char)) /\ url' # None /\ url'[1] = t
      /\ reads' \in Option(PathAndQuery) /\ Read'
      /\ reads'[1] = parse_path_and_query(t)
  BY <1>1, <1>4, SendType
<1>6. TypeOK'
  BY <1>1, <1>5 DEF IInv, TypeOK
<1>7. WrittenUrlsAreAbsolutePaths'
  BY <1>4, <1>5 DEF WrittenUrlsAreAbsolutePaths, AbsolutePath
<1> QED BY <1>5, <1>6, <1>7 DEF IInv, Quiet

\* Every step keeps the invariant.
LEMMA NextIInv == IInv /\ [Next]_vars => IInv'
<1> SUFFICES ASSUME IInv, [Next]_vars PROVE IInv'
  OBVIOUS
<1>1. ASSUME NEW s \in Url, Type(s) PROVE IInv'
  BY <1>1, TypeIInv
<1>2. ASSUME NEW r \in IF page = None THEN Route ELSE ToSet(page), Follow(r) PROVE IInv'
  BY <1>2, FollowIInv
<1>3. CASE Close
  BY <1>3, CloseIInv
<1>4. CASE Dispatch
  BY <1>4, DispatchIInv
<1>5. CASE Redirect
  BY <1>5, RedirectIInv
<1>6. CASE UNCHANGED vars
  BY <1>6 DEF vars, IInv, TypeOK, Read, Quiet, WrittenUrlsAreAbsolutePaths
<1> QED BY <1>1, <1>2, <1>3, <1>4, <1>5, <1>6 DEF Next

LEMMA Invariant == Spec => []IInv
BY InitIInv, NextIInv, PTL DEF Spec

\* Navigation's assumption on the addresses holds of what texts read as.
THEOREM UrlAddressIsAddress == UrlAddress \subseteq {a \in PathAndQuery : Wire(a) = a}
BY ParseType, UrlAssumption DEF UrlAddress

\* Navigation normalizes as the server does.
LEMMA NavNormalize ==
  /\ \A a : Nav!normalize_parse(a) = normalize_parse(a)
  /\ \A a : Nav!Wire(a) = Wire(a)
  /\ \A r : Nav!PlainPathAndQuery(r) = PlainPathAndQuery(r)
  /\ Nav!None = None /\ \A x : Nav!Some(x) = Some(x)
<1>1. Nav!None = None /\ \A x : Nav!Some(x) = Some(x)
  BY DEF Nav!None, Nav!Some, None, Some
<1>2. ASSUME NEW s PROVE (Nav!OnlyDashes(s) <=> OnlyDashes(s)) /\ Nav!drop_one(s) = drop_one(s)
  BY DEF Nav!OnlyDashes, OnlyDashes, Nav!drop_one, drop_one
<1>3. ASSUME NEW p PROVE Nav!HasEmptySegment(p) <=> HasEmptySegment(p)
  BY DEF Nav!HasEmptySegment, HasEmptySegment
<1>4. ASSUME NEW p PROVE Nav!DropEmpty(p) = DropEmpty(p)
  BY DEF Nav!DropEmpty, DropEmpty, Nav!FlattenSeq, FlattenSeq
<1>5. ASSUME NEW p PROVE Nav!Undash(p) = Undash(p)
  BY <1>2 DEF Nav!Undash, Undash
<1>6. ASSUME NEW p PROVE Nav!normalize_render_path(p) = normalize_render_path(p)
  BY <1>2 DEF Nav!normalize_render_path, normalize_render_path
<1>7. ASSUME NEW a PROVE Nav!normalize_parse(a) = normalize_parse(a)
  BY <1>3, <1>4, <1>5 DEF Nav!normalize_parse, normalize_parse
<1>8. ASSUME NEW a PROVE Nav!Wire(a) = Wire(a)
  BY <1>1 DEF Nav!Wire, Wire, Nav!WirePath, WirePath, Nav!WireQuery, WireQuery
<1>9. ASSUME NEW r PROVE Nav!PlainPathAndQuery(r) = PlainPathAndQuery(r)
  BY <1>6 DEF Nav!PlainPathAndQuery, PlainPathAndQuery
<1> QED BY <1>1, <1>7, <1>8, <1>9

\* Every step over text is that step over addresses.
LEMMA StepRefines ==
  ASSUME Stack = "hyper", IInv, [Next]_vars
  PROVE  [Nav!Next]_(Nav!vars)
<1>0. Nav!vars = <<reads, link, hops, page>>
  BY DEF Nav!vars
<1>1. ASSUME NEW s \in Url, Type(s) PROVE Nav!Next
  <2>1. reads = None /\ page = None /\ reads' = Some(parse_path_and_query(s))
        /\ link' = link /\ hops' = hops /\ page' = page
    BY <1>1 DEF Type, Send, IInv, Read
  <2>2. parse_path_and_query(s) \in UrlAddress
    BY DEF UrlAddress
  <2>3. Nav!Type
    BY <2>1, <2>2, NavNormalize DEF Nav!Type
  <2> QED BY <2>3 DEF Nav!Next
<1>2. ASSUME NEW r \in IF page = None THEN Route ELSE ToSet(page), Follow(r)
      PROVE  Nav!Next
  <2>1. r \in PathAndQuery
    BY <1>2, FollowIInv
  <2>2. parse_path_and_query(render(r)) = Wire(PlainPathAndQuery(r))
    BY <2>1, PlainRouteAddress, RoundTrip DEF render
  <2>3. reads = None /\ (page = None \/ page = Some(r))
        /\ reads' = Some(Wire(PlainPathAndQuery(r)))
        /\ link' = Some(r) /\ hops' = 0 /\ page' = None
    BY <1>2, <2>2 DEF Follow, Send, IInv, Read
  <2>4. Nav!Follow(r)
    BY <2>3, NavNormalize DEF Nav!Follow
  <2>5. r \in IF page = Nav!None THEN Route ELSE Nav!ToSet(page)
    BY NavNormalize DEF Nav!ToSet, ToSet
  <2> QED BY <2>4, <2>5 DEF Nav!Next
<1>3. ASSUME Close PROVE Nav!Next
  <2>1. Nav!Close
    BY <1>3, NavNormalize DEF Close, Nav!Close
  <2> QED BY <2>1 DEF Nav!Next
<1> DEFINE a == parse_path_and_query(url[1])
<1>6. ASSUME url # None
      PROVE  /\ reads # None /\ reads[1] = a /\ a \in PathAndQuery
             /\ server_parse(url[1]) = PlainParse(a)
  <2>1. url[1] \in Seq(Char)
    BY <1>6, OptionCases DEF IInv, TypeOK
  <2>2. reads = Some(a)
    BY <1>6 DEF IInv, Read
  <2>3. a \in PathAndQuery /\ server_parse(url[1]) = PlainParse(a)
    BY <2>1, ParseType, ServerParse
  <2> HIDE DEF a
  <2> QED BY <2>2, <2>3 DEF Some, None
<1>4. ASSUME Dispatch PROVE Nav!Next
  <2>1. url # None /\ server_parse(url[1]).ok /\ page' = Some(server_parse(url[1]).route)
        /\ reads' = None /\ link' = link /\ hops' = hops
    BY <1>4 DEF Dispatch
  <2> HIDE DEF a
  <2>2. normalize_parse(a).ok /\ page' = Some(normalize_parse(a).to)
    BY <1>6, <2>1, PlainParseType
  <2>3. Nav!Dispatch
    BY <1>6, <2>1, <2>2, NavNormalize DEF Nav!Dispatch
  <2> QED BY <2>3 DEF Nav!Next
<1>5. ASSUME Redirect PROVE Nav!Next
  <2>1. url # None /\ ~server_parse(url[1]).ok /\ Send(server_parse(url[1]).dest)
        /\ hops' = (IF hops < HopLimit THEN hops + 1 ELSE hops)
        /\ link' = link /\ page' = page
    BY <1>5 DEF Redirect
  <2> HIDE DEF a
  <2>2. ~normalize_parse(a).ok /\ reads' = Some(Wire(normalize_parse(a).to))
    <3>1. /\ ~normalize_parse(a).ok /\ normalize_parse(a).to \in PathAndQuery
          /\ server_parse(url[1]).dest = render_path_and_query(normalize_parse(a).to)
      BY <1>6, <2>1, PlainParseType
    <3>2. reads' = Some(parse_path_and_query(render_path_and_query(normalize_parse(a).to)))
      BY <2>1, <3>1 DEF Send
    <3> QED BY <3>1, <3>2, RoundTrip
  <2>3. Nav!Redirect
    BY <1>6, <2>1, <2>2, NavNormalize DEF Nav!Redirect
  <2> QED BY <2>3 DEF Nav!Next
<1>7. CASE UNCHANGED vars
  BY <1>7 DEF vars, Nav!vars
<1> QED BY <1>1, <1>2, <1>3, <1>4, <1>5, <1>7 DEF Next

\* Whatever is typed and followed, what is in transit is text and what is
\* parsed from it is an address.
THEOREM TypeCorrect == Spec => []TypeOK
<1>1. IInv => TypeOK
  BY DEF IInv
<1> QED BY <1>1, Invariant, PTL

\* The href of every link and the Location of every redirect are well formed
\* and an absolute path, for any routes and any typed text: no first segment,
\* escaped or empty, makes a second slash of it, and a backslash comes after
\* the slash only from a first segment that begins with it.
THEOREM WrittenAbsolute == Spec => []WrittenUrlsAreAbsolutePaths
<1>1. IInv => WrittenUrlsAreAbsolutePaths
  BY DEF IInv
<1> QED BY <1>1, Invariant, PTL

\* Over routetype-hyper, the text that browser and server exchange carries what
\* Navigation says of decoded addresses, for any routes and any typed text.
THEOREM RefinesNavigation == ASSUME Stack = "hyper" PROVE Spec => ImplementsNavigation
<1>1. Init => Nav!Init
  BY NavNormalize DEF Init, Nav!Init
<1>2. IInv /\ [Next]_vars => [Nav!Next]_(Nav!vars)
  BY StepRefines
<1> QED BY <1>1, <1>2, Invariant, PTL DEF Spec, ImplementsNavigation
=============================================================================
