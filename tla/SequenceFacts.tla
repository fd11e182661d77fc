--------------------------- MODULE SequenceFacts ---------------------------
(***************************************************************************)
(* Facts about numbers, sequences and the operations of Strings that the   *)
(* proofs of this project cite.                                            *)
(* Induction is done with the least counterexample: a set of numbers that  *)
(* is not empty has a least element.                                       *)
(***************************************************************************)
EXTENDS Strings, Filters, SequenceTheorems, WellFoundedInduction, TLAPS

\* Every set of natural numbers that is not empty has a least element.
LEMMA LeastNumber ==
  ASSUME NEW T, T \subseteq Nat, T # {}
  PROVE  \E m \in T : \A k \in T : m <= k
<1> DEFINE R == OpToRel(<, Nat)
<1>1. IsWellFoundedOn(R, Nat)
  BY NatLessThanWellFounded
<1>2. \E x \in T : \A y \in T : ~ (<<y, x>> \in R)
  <2> HIDE DEF R
  <2> QED BY <1>1, WFMin
<1>3. \A x, y \in Nat : <<y, x>> \in R <=> y < x
  BY DEF OpToRel
<1> HIDE DEF R
<1>4. PICK x \in T : \A y \in T : ~ (<<y, x>> \in R)
  BY <1>2
<1>5. \A y \in T : ~ (y < x)
  BY <1>3, <1>4, Zenon
<1>6. \A y \in T : y \in Nat /\ x \in Nat
  OBVIOUS
<1>7. \A y \in T : x <= y
  BY <1>5, <1>6
<1> QED BY <1>7

\* A set of numbers with the first and, with each, the next one up to n is 1..n.
LEMMA UpTo ==
  ASSUME NEW n \in Nat, NEW A,
         n >= 1 => 1 \in A,
         \A i \in 2..n : i - 1 \in A => i \in A
  PROVE  1..n \subseteq A
<1> DEFINE T == {i \in 1..n : i \notin A}
<1>1. SUFFICES ASSUME T # {} PROVE FALSE
  OBVIOUS
<1>2. PICK m \in T : \A k \in T : m <= k
  <2>1. T \subseteq Nat
    OBVIOUS
  <2> HIDE DEF T
  <2> QED BY <1>1, <2>1, LeastNumber
<1>3. m # 1
  OBVIOUS
<1>4. m \in 2..n /\ m - 1 \in 1..n /\ ~ (m <= m - 1)
  BY <1>3
<1>5. m - 1 \notin T
  BY <1>2, <1>4
<1> QED BY <1>4, <1>5

\* A set of numbers with zero and, with each, the next one up to n is 0..n.
LEMMA FromZero ==
  ASSUME NEW n \in Nat, NEW A, 0 \in A, \A i \in 1..n : i - 1 \in A => i \in A
  PROVE  0..n \subseteq A
<1> DEFINE B == {i \in 1..n + 1 : i - 1 \in A}
<1>1. n + 1 \in Nat /\ (n + 1 >= 1 => 1 \in B)
  OBVIOUS
<1>2. \A i \in 2..n + 1 : i - 1 \in B => i \in B
  OBVIOUS
<1>3. 1..n + 1 \subseteq B
  <2> HIDE DEF B
  <2> QED BY <1>1, <1>2, UpTo
<1>4. ASSUME NEW i \in 0..n PROVE i \in A
  <2>1. i + 1 \in 1..n + 1 /\ (i + 1) - 1 = i
    OBVIOUS
  <2>2. i + 1 \in B
    <3> HIDE DEF B
    <3> QED BY <1>3, <2>1
  <2> QED BY <2>1, <2>2
<1> QED BY <1>4

\* What holds of the empty sequence and, with each sequence, of one more
\* element, holds of all sequences: A is the set of those it holds of.
LEMMA AppendInduction ==
  ASSUME NEW S, NEW A,
         <<>> \in A,
         \A s \in Seq(S), e \in S : s \in A => Append(s, e) \in A
  PROVE  Seq(S) \subseteq A
<1>1. SUFFICES ASSUME NEW x \in Seq(S), x \notin A PROVE FALSE
  OBVIOUS
<1> DEFINE T == {n \in Nat : \E s \in Seq(S) \ A : Len(s) = n}
<1>2. PICK m \in T : \A k \in T : m <= k
  <2>1. Len(x) \in T
    BY <1>1
  <2>2. T \subseteq Nat
    OBVIOUS
  <2> HIDE DEF T
  <2> QED BY <2>1, <2>2, LeastNumber
<1>3. PICK s \in Seq(S) \ A : Len(s) = m
  OBVIOUS
<1>4. PICK t \in Seq(S), e \in S : s = Append(t, e)
  BY <1>3, SequenceEmptyOrAppend
<1>5. t \notin A /\ Len(t) \in Nat /\ Len(t) = m - 1
  BY <1>3, <1>4
<1> QED BY <1>2, <1>5

(***************************************************************************)
(* FlattenSeq goes through its argument with a recursive function.  The    *)
(* function exists, so the one FlattenSeq chooses satisfies its equation.  *)
(***************************************************************************)
IsFlattening(f, s) ==
  f = [i \in 1..Len(s) |-> IF i = 1 THEN s[i] ELSE f[i - 1] \o s[i]]

Flattening(s) == CHOOSE f : IsFlattening(f, s)

\* FlattenSeq is the last value of that function.
LEMMA FlattenSeqDef ==
  ASSUME NEW s
  PROVE  FlattenSeq(s) = IF Len(s) = 0 THEN s ELSE Flattening(s)[Len(s)]
BY DEF FlattenSeq, Flattening, IsFlattening

\* The values of the recursive function on the first n elements.
Partial(f, s, n) ==
  f = [i \in 1..n |-> IF i = 1 THEN s[i] ELSE f[i - 1] \o s[i]]

\* For a sequence of sequences the recursive function exists, with sequences
\* as its values.
LEMMA FlatteningExists ==
  ASSUME NEW S, NEW s \in Seq(Seq(S)), s # <<>>
  PROVE  \E f \in [1..Len(s) -> Seq(S)] : IsFlattening(f, s)
<1> DEFINE A == {n \in 1..Len(s) : \E f \in [1..n -> Seq(S)] : Partial(f, s, n)}
<1>0. Len(s) \in Nat /\ Len(s) >= 1 /\ \A i \in 1..Len(s) : s[i] \in Seq(S)
  BY EmptySeq, LenProperties, ElementOfSeq
<1>1. 1 \in A
  <2> DEFINE f == [i \in 1..1 |-> s[1]]
  <2>1. f \in [1..1 -> Seq(S)]
    BY <1>0
  <2>2. Partial(f, s, 1)
    BY DEF Partial
  <2> QED BY <1>0, <2>1, <2>2
<1>2. ASSUME NEW n \in 2..Len(s), n - 1 \in A PROVE n \in A
  <2>1. PICK g \in [1..n - 1 -> Seq(S)] : Partial(g, s, n - 1)
    BY <1>2
  <2> DEFINE f == [i \in 1..n |-> IF i = n THEN g[n - 1] \o s[n] ELSE g[i]]
  <2>2. n \in 1..Len(s) /\ n - 1 \in 1..n - 1 /\ n # 1
    BY <1>0
  <2>3. g[n - 1] \o s[n] \in Seq(S)
    BY <1>0, <2>2, ConcatProperties
  <2>4. f \in [1..n -> Seq(S)]
    BY <1>0, <2>2, <2>3
  <2>5. ASSUME NEW i \in 1..n
        PROVE  f[i] = IF i = 1 THEN s[i] ELSE f[i - 1] \o s[i]
    <3>0. f[i] = IF i = n THEN g[n - 1] \o s[n] ELSE g[i]
      OBVIOUS
    <3>1. CASE i = n
      <4>1. i - 1 \in 1..n /\ i - 1 # n /\ i # 1 /\ i - 1 = n - 1
        BY <2>2, <3>1
      <4>2. f[i - 1] = g[n - 1]
        BY <4>1
      <4> HIDE DEF f
      <4> QED BY <3>0, <3>1, <4>1, <4>2
    <3>2. CASE i # n
      <4>1. i \in 1..n - 1 /\ (i # 1 => i - 1 \in 1..n - 1 /\ i - 1 # n)
        BY <3>2, <2>2
      <4>2. g[i] = IF i = 1 THEN s[i] ELSE g[i - 1] \o s[i]
        BY <2>1, <4>1 DEF Partial
      <4>3. i # 1 => f[i - 1] = g[i - 1]
        BY <4>1
      <4> HIDE DEF f
      <4> QED BY <3>0, <3>2, <4>2, <4>3
    <3> QED BY <3>1, <3>2
  <2>6. Partial(f, s, n)
    <3>1. f = [i \in 1..n |-> f[i]]
      OBVIOUS
    <3> HIDE DEF f
    <3> QED BY <2>5, <3>1 DEF Partial
  <2> HIDE DEF f
  <2> QED BY <2>2, <2>4, <2>6
<1>3. 1..Len(s) \subseteq A
  <2> HIDE DEF A
  <2> QED BY <1>0, <1>1, <1>2, UpTo
<1>4. PICK f \in [1..Len(s) -> Seq(S)] : Partial(f, s, Len(s))
  BY <1>0, <1>3
<1> QED BY <1>4 DEF Partial, IsFlattening

\* So the function that FlattenSeq chooses is that one.
LEMMA FlatteningEquation ==
  ASSUME NEW S, NEW s \in Seq(Seq(S)), s # <<>>
  PROVE  /\ Flattening(s) \in [1..Len(s) -> Seq(S)]
         /\ Flattening(s)[1] = s[1]
         /\ \A i \in 2..Len(s) : Flattening(s)[i] = Flattening(s)[i - 1] \o s[i]
<1> DEFINE f == Flattening(s)
           A == {i \in 1..Len(s) : f[i] \in Seq(S)}
<1>0. Len(s) \in Nat /\ Len(s) >= 1 /\ \A i \in 1..Len(s) : s[i] \in Seq(S)
  BY EmptySeq, LenProperties, ElementOfSeq
<1>1. IsFlattening(f, s)
  BY FlatteningExists DEF Flattening
<1>2. DOMAIN f = 1..Len(s) /\ f = [i \in 1..Len(s) |-> f[i]]
  <2> HIDE DEF f
  <2> QED BY <1>1 DEF IsFlattening
<1>3. \A i \in 1..Len(s) : f[i] = IF i = 1 THEN s[i] ELSE f[i - 1] \o s[i]
  <2> HIDE DEF f
  <2> QED BY <1>1 DEF IsFlattening
<1> HIDE DEF f
<1>4. 1 \in A
  BY <1>0, <1>3
<1>5. ASSUME NEW i \in 2..Len(s), i - 1 \in A PROVE i \in A
  <2>1. f[i - 1] \in Seq(S) /\ i \in 1..Len(s) /\ i # 1
    BY <1>0, <1>5
  <2>2. f[i - 1] \o s[i] \in Seq(S)
    BY <1>0, <2>1, ConcatProperties
  <2> QED BY <1>3, <2>1, <2>2
<1>6. 1..Len(s) \subseteq A
  <2> HIDE DEF A
  <2> QED BY <1>0, <1>4, <1>5, UpTo
<1>7. f \in [1..Len(s) -> Seq(S)]
  BY <1>2, <1>6
<1>8. /\ f[1] = s[1]
      /\ \A i \in 2..Len(s) : f[i] = f[i - 1] \o s[i]
  <2>1. 1 \in 1..Len(s) /\ \A i \in 2..Len(s) : i \in 1..Len(s) /\ i # 1
    BY <1>0
  <2> QED BY <1>3, <2>1, Zenon
<1> QED BY <1>7, <1>8 DEF f

\* Flattening sequences over S gives a sequence over S.
LEMMA FlattenSeqType ==
  ASSUME NEW S, NEW s \in Seq(Seq(S))
  PROVE  FlattenSeq(s) \in Seq(S)
<1>0. Len(s) \in Nat
  BY LenProperties
<1>1. CASE s = <<>>
  <2>1. Len(s) = 0
    BY <1>1
  <2> QED BY <1>1, <2>1, FlattenSeqDef, EmptySeq
<1>2. CASE s # <<>>
  <2>1. Len(s) \in 1..Len(s) /\ Len(s) # 0
    BY <1>0, <1>2, EmptySeq
  <2> QED BY <1>2, <2>1, FlattenSeqDef, FlatteningEquation
<1> QED BY <1>1, <1>2

\* Flattening the one-element sequences of a sequence's elements gives it back.
LEMMA FlattenSingletons ==
  ASSUME NEW S, NEW s \in Seq(S)
  PROVE  FlattenSeq([i \in 1..Len(s) |-> <<s[i]>>]) = s
<1> DEFINE n == Len(s)
           q == [i \in 1..n |-> <<s[i]>>]
           f == Flattening(q)
           A == {i \in 1..n : f[i] = SubSeq(s, 1, i)}
<1>1. n \in Nat /\ \A i \in 1..n : s[i] \in S
  BY LenProperties, ElementOfSeq
<1>2. q \in Seq(Seq(S)) /\ Len(q) = n /\ \A i \in 1..n : q[i] = <<s[i]>>
  <2>1. \A i \in 1..n : <<s[i]>> \in Seq(S)
    BY <1>1
  <2>2. q \in [1..n -> Seq(S)]
    BY <2>1
  <2>3. q \in Seq(Seq(S)) /\ Len(q) = n
    BY <1>1, <2>2, SeqDef
  <2> QED BY <2>3
<1>3. CASE s = <<>>
  <2>1. q = <<>> /\ Len(q) = 0
    BY <1>2, <1>3, EmptySeq
  <2> QED BY <1>3, <2>1, FlattenSeqDef
<1>4. CASE s # <<>>
  <2>1. n \in 1..n /\ n >= 1 /\ 1 \in 1..n /\ q # <<>>
    BY <1>1, <1>2, <1>4, EmptySeq
  <2> HIDE DEF q
  <2>2. f[1] = q[1] /\ \A i \in 2..n : f[i] = f[i - 1] \o q[i]
    BY <1>2, <2>1, FlatteningEquation
  <2> HIDE DEF f
  <2>3. \A i \in 1..n : SubSeq(s, 1, i) = SubSeq(s, 1, i - 1) \o <<s[i]>>
    BY <1>1, SubSeqRecursiveSecond
  <2>4. 1 \in A
    <3>1. SubSeq(s, 1, 1 - 1) = <<>>
      BY SubSeqEmpty
    <3>2. <<>> \o <<s[1]>> = <<s[1]>>
      BY <1>1, <2>1, ConcatEmptySeq
    <3> QED BY <1>2, <2>1, <2>2, <2>3, <3>1, <3>2
  <2>5. ASSUME NEW i \in 2..n, i - 1 \in A PROVE i \in A
    <3>1. i \in 1..n
      BY <1>1
    <3> QED BY <1>2, <2>2, <2>3, <2>5, <3>1
  <2>6. 1..n \subseteq A
    <3> HIDE DEF A
    <3> QED BY <1>1, <2>4, <2>5, UpTo
  <2>7. FlattenSeq(q) = f[n]
    BY <1>2, <2>1, FlattenSeqDef DEF f
  <2> QED BY <2>1, <2>6, <2>7, SubSeqFull DEF q
<1> QED BY <1>3, <1>4

\* Flattening one sequence more appends it.
LEMMA FlattenAppend ==
  ASSUME NEW S, NEW s \in Seq(Seq(S)), NEW x \in Seq(S)
  PROVE  FlattenSeq(Append(s, x)) = FlattenSeq(s) \o x
<1> DEFINE t == Append(s, x)
           n == Len(s)
           f == Flattening(t)
           g == Flattening(s)
<1>1. /\ t \in Seq(Seq(S)) /\ t # <<>> /\ Len(t) = n + 1 /\ n \in Nat
      /\ \A i \in 1..n : t[i] = s[i]
      /\ t[n + 1] = x
  BY AppendProperties, LenProperties
<1>2. f[1] = t[1] /\ \A i \in 2..n + 1 : f[i] = f[i - 1] \o t[i]
  <2> HIDE DEF t
  <2> QED BY <1>1, FlatteningEquation
<1>3. FlattenSeq(t) = f[n + 1]
  <2> HIDE DEF t
  <2> QED BY <1>1, FlattenSeqDef
<1>4. CASE s = <<>>
  <2>1. n = 0 /\ f[n + 1] = x
    BY <1>1, <1>2, <1>4
  <2>2. FlattenSeq(s) = <<>>
    BY <1>4, <2>1, FlattenSeqDef
  <2> HIDE DEF t, f, n
  <2> QED BY <1>3, <2>1, <2>2, ConcatEmptySeq DEF t
<1>5. CASE s # <<>>
  <2> DEFINE A == {i \in 1..n : f[i] = g[i]}
  <2>1. n >= 1
    BY <1>5, EmptySeq
  <2>2. g[1] = s[1] /\ \A i \in 2..n : g[i] = g[i - 1] \o s[i]
    BY <1>5, FlatteningEquation
  <2> HIDE DEF f, g, t
  <2>3. 1 \in A
    BY <1>1, <1>2, <2>1, <2>2
  <2>4. ASSUME NEW i \in 2..n, i - 1 \in A PROVE i \in A
    <3>1. i \in 1..n /\ i \in 2..n + 1 /\ f[i - 1] = g[i - 1] /\ t[i] = s[i]
      BY <1>1, <2>4
    <3> HIDE DEF n
    <3>2. f[i] = f[i - 1] \o t[i] /\ g[i] = g[i - 1] \o s[i]
      BY <3>1, <1>2, <2>2
    <3> QED BY <3>1, <3>2
  <2>5. 1..n \subseteq A
    <3> HIDE DEF A, n
    <3> QED BY <1>1, <2>3, <2>4, UpTo
  <2>6. f[n] = g[n] /\ f[n + 1] = f[n] \o x
    <3>1. ASSUME NEW i \in 2..n + 1, i = n + 1 PROVE f[i] = f[n] \o x
      <4>1. f[i] = f[i - 1] \o t[i]
        BY <1>1, <1>2, <3>1
      <4>2. i - 1 = n
        BY <1>1, <3>1
      <4>3. t[i] = x
        BY <1>1, <3>1, Zenon
      <4> QED BY <4>1, <4>2, <4>3, Zenon
    <3>2. n + 1 \in 2..n + 1 /\ n \in 1..n
      BY <1>1, <2>1
    <3> QED BY <3>1, <3>2, <2>5
  <2>7. FlattenSeq(s) = g[n]
    BY <2>1, FlattenSeqDef DEF g
  <2> QED BY <1>3, <2>6, <2>7 DEF t
<1> QED BY <1>4, <1>5

LEMMA FlattenNothing == FlattenSeq(<<>>) = <<>>
BY FlattenSeqDef

LEMMA FlattenOne ==
  ASSUME NEW S, NEW x \in Seq(S)
  PROVE  FlattenSeq(<<x>>) = x
<1>1. <<x>> = Append(<<>>, x)
  OBVIOUS
<1>2. <<>> \in Seq(Seq(S)) /\ <<>> \o x = x
  BY EmptySeq, ConcatEmptySeq
<1> QED BY <1>1, <1>2, FlattenAppend, FlattenNothing

\* Flattening distributes over concatenation.
LEMMA FlattenConcat ==
  ASSUME NEW S, NEW s \in Seq(Seq(S)), NEW t \in Seq(Seq(S))
  PROVE  FlattenSeq(s \o t) = FlattenSeq(s) \o FlattenSeq(t)
<1> DEFINE A == {u \in Seq(Seq(S)) : FlattenSeq(s \o u) = FlattenSeq(s) \o FlattenSeq(u)}
<1>0. FlattenSeq(s) \in Seq(S)
  BY FlattenSeqType
<1>1. <<>> \in A
  <2>1. s \o <<>> = s /\ FlattenSeq(s) \o <<>> = FlattenSeq(s) /\ <<>> \in Seq(Seq(S))
    BY <1>0, ConcatEmptySeq, EmptySeq
  <2> QED BY <2>1, FlattenNothing
<1>2. ASSUME NEW u \in Seq(Seq(S)), NEW x \in Seq(S), u \in A PROVE Append(u, x) \in A
  <2>1. s \o u \in Seq(Seq(S)) /\ Append(u, x) \in Seq(Seq(S)) /\ FlattenSeq(u) \in Seq(S)
    BY ConcatProperties, AppendProperties, FlattenSeqType
  <2>2. s \o Append(u, x) = Append(s \o u, x)
    OBVIOUS
  <2>3. FlattenSeq(Append(s \o u, x)) = (FlattenSeq(s) \o FlattenSeq(u)) \o x
    BY <1>2, <2>1, FlattenAppend
  <2>4. FlattenSeq(Append(u, x)) = FlattenSeq(u) \o x
    BY FlattenAppend
  <2>5. (FlattenSeq(s) \o FlattenSeq(u)) \o x = FlattenSeq(s) \o (FlattenSeq(u) \o x)
    BY <1>0, <2>1, ConcatAssociative
  <2> QED BY <2>1, <2>2, <2>3, <2>4, <2>5
<1>3. Seq(Seq(S)) \subseteq A
  <2> HIDE DEF A
  <2> QED BY <1>1, <1>2, AppendInduction
<1> QED BY <1>3

\* Nothing comes of empty sequences.
LEMMA FlattenEmpties ==
  ASSUME NEW n \in Nat
  PROVE  FlattenSeq([i \in 1..n |-> <<>>]) = <<>>
<1> DEFINE q(m) == [i \in 1..m |-> <<>>]
           T == {m \in Nat : FlattenSeq(q(m)) # <<>>}
<1>1. SUFFICES ASSUME T # {} PROVE FALSE
  OBVIOUS
<1>2. PICK m \in T : \A k \in T : m <= k
  <2> HIDE DEF q
  <2> QED BY <1>1, LeastNumber
<1>3. CASE m = 0
  <2>1. q(m) = <<>>
    BY <1>3
  <2> QED BY <2>1, FlattenNothing
<1>4. CASE m # 0
  <2>1. m - 1 \in Nat /\ m - 1 \notin T
    BY <1>2, <1>4
  <2>2. q(m - 1) \in Seq(Seq({})) /\ <<>> \in Seq({})
    BY <2>1
  <2>3. q(m) = Append(q(m - 1), <<>>)
    BY <2>1
  <2>4. FlattenSeq(q(m)) = FlattenSeq(q(m - 1)) \o <<>>
    BY <2>2, <2>3, FlattenAppend
  <2>5. FlattenSeq(q(m - 1)) = <<>>
    BY <2>1
  <2> QED BY <2>4, <2>5
<1> QED BY <1>3, <1>4

-----------------------------------------------------------------------------
\* A character that does not occur is not found.
LEMMA FindNone ==
  ASSUME NEW s, NEW c, \A i \in 1..Len(s) : s[i] # c
  PROVE  find(s, c) = 0
BY DEF find, SelectInSeq

\* The first occurrence of a character is found.
LEMMA FindFirst ==
  ASSUME NEW S, NEW s \in Seq(S), NEW c \in S, NEW t \in Seq(S),
         \A i \in 1..Len(s) : s[i] # c
  PROVE  find((s \o <<c>>) \o t, c) = Len(s) + 1
<1> DEFINE u == (s \o <<c>>) \o t
           I == {i \in 1..Len(u) : u[i] = c}
           n == Len(s) + 1
<1>1. Len(u) = Len(s) + 1 + Len(t) /\ Len(s) \in Nat /\ Len(t) \in Nat
      /\ (\A i \in 1..Len(s) : u[i] = s[i]) /\ u[Len(s) + 1] = c
  OBVIOUS
<1> HIDE DEF u
<1>2. n \in I /\ \A i \in I : n <= i
  BY <1>1
<1>3. \A x \in I : (\A i \in I : x <= i) => x = n
  BY <1>1, <1>2
<1> HIDE DEF I, n
<1>4. Min(I) = n
  BY <1>2, <1>3 DEF Min
<1>5. find(u, c) = IF I # {} THEN Min(I) ELSE 0
  BY DEF find, SelectInSeq, I
<1> QED BY <1>2, <1>4, <1>5 DEF n, u

\* Where the part of s that begins at i ends, and the parts that begin anywhere.
PartEnd(s, c, i) ==
  CHOOSE e \in i..Len(s) + 1 :
    /\ e = Len(s) + 1 \/ s[e] = c
    /\ \A k \in i..e - 1 : s[k] # c

Parts(s, c) ==
  [i \in 1..Len(s) + 1 |->
     IF i = 1 \/ s[i - 1] = c THEN <<SubSeq(s, i, PartEnd(s, c, i) - 1)>> ELSE <<>>]

LEMMA SplitDef == ASSUME NEW s, NEW c PROVE split(s, c) = FlattenSeq(Parts(s, c))
BY DEF split, Parts, PartEnd

\* A part ends somewhere.
LEMMA PartEnds ==
  ASSUME NEW S, NEW s \in Seq(S), NEW c, NEW i \in 1..Len(s) + 1
  PROVE  /\ PartEnd(s, c, i) \in i..Len(s) + 1
         /\ PartEnd(s, c, i) = Len(s) + 1 \/ s[PartEnd(s, c, i)] = c
         /\ \A k \in i..PartEnd(s, c, i) - 1 : s[k] # c
<1> DEFINE T == {e \in i..Len(s) + 1 : e = Len(s) + 1 \/ s[e] = c}
<1>0. Len(s) \in Nat
  OBVIOUS
<1>1. PICK m \in T : \A k \in T : m <= k
  <2>1. T \subseteq Nat /\ Len(s) + 1 \in T
    BY <1>0
  <2> HIDE DEF T
  <2> QED BY <2>1, LeastNumber
<1>2. \E e \in i..Len(s) + 1 :
        /\ e = Len(s) + 1 \/ s[e] = c
        /\ \A k \in i..e - 1 : s[k] # c
  <2>1. m \in i..Len(s) + 1 /\ (m = Len(s) + 1 \/ s[m] = c)
    BY <1>1
  <2>2. \A k \in i..m - 1 : k \notin T /\ k \in i..Len(s) + 1
    BY <1>0, <1>1
  <2> QED BY <2>1, <2>2
<1> QED BY <1>2 DEF PartEnd

\* And nowhere else.
LEMMA PartEndsOnce ==
  ASSUME NEW S, NEW s \in Seq(S), NEW c, NEW i \in 1..Len(s) + 1,
         NEW e \in i..Len(s) + 1,
         e = Len(s) + 1 \/ s[e] = c,
         \A k \in i..e - 1 : s[k] # c
  PROVE  PartEnd(s, c, i) = e
<1> DEFINE f == PartEnd(s, c, i)
<1>1. /\ f \in i..Len(s) + 1
      /\ f = Len(s) + 1 \/ s[f] = c
      /\ \A k \in i..f - 1 : s[k] # c
  BY PartEnds
<1> HIDE DEF f
<1>2. ~ (f < e) /\ ~ (e < f)
  BY <1>1
<1> QED BY <1>1, <1>2 DEF f

\* Parts are made of the characters of the text.
LEMMA PartsType ==
  ASSUME NEW S, NEW s \in Seq(S), NEW c
  PROVE  /\ Parts(s, c) \in Seq(Seq(Seq(S)))
         /\ Len(Parts(s, c)) = Len(s) + 1
<1>0. Len(s) \in Nat
  OBVIOUS
<1>1. ASSUME NEW i \in 1..Len(s) + 1
      PROVE  SubSeq(s, i, PartEnd(s, c, i) - 1) \in Seq(S)
  BY PartEnds, <1>0
<1>2. \A i \in 1..Len(s) + 1 :
        (IF i = 1 \/ s[i - 1] = c THEN <<SubSeq(s, i, PartEnd(s, c, i) - 1)>> ELSE <<>>) \in Seq(Seq(S))
  BY <1>1
<1> QED BY <1>0, <1>2 DEF Parts

LEMMA SplitType ==
  ASSUME NEW S, NEW s \in Seq(S), NEW c
  PROVE  split(s, c) \in Seq(Seq(S))
BY PartsType, SplitDef, FlattenSeqType

\* Text without the separator is one part.
LEMMA SplitOne ==
  ASSUME NEW S, NEW s \in Seq(S), NEW c, \A i \in 1..Len(s) : s[i] # c
  PROVE  split(s, c) = <<s>>
<1> DEFINE n == Len(s)
           E == [i \in 1..n |-> <<>>]
<1>0. n \in Nat
  OBVIOUS
<1>1. PartEnd(s, c, 1) = n + 1
  BY <1>0, PartEndsOnce
<1>2. SubSeq(s, 1, n) = s
  OBVIOUS
<1>3. Parts(s, c) = <<<<s>>>> \o E
  <2>1. Len(<<<<s>>>> \o E) = n + 1 /\ <<<<s>>>> \o E = [i \in 1..n + 1 |-> IF i = 1 THEN <<s>> ELSE <<>>]
    BY <1>0
  <2>2. \A i \in 1..n + 1 : i = 1 \/ s[i - 1] # c
    BY <1>0
  <2> QED BY <2>1, <2>2, <1>1, <1>2, <1>0 DEF Parts
<1>4. <<<<s>>>> \in Seq(Seq(Seq(S))) /\ E \in Seq(Seq(Seq(S)))
  BY <1>0
<1>5. <<s>> \in Seq(Seq(S)) /\ <<s>> \o <<>> = <<s>>
  OBVIOUS
<1>6. FlattenSeq(<<<<s>>>>) = <<s>>
  BY <1>5, FlattenOne
<1>7. FlattenSeq(E) = <<>>
  BY <1>0, FlattenEmpties
<1>8. FlattenSeq(<<<<s>>>> \o E) = <<s>> \o <<>>
  BY <1>4, <1>6, <1>7, FlattenConcat
<1> QED BY <1>3, <1>5, <1>8, SplitDef

\* A separator and what follows it up to the end is one part more.
LEMMA SplitLast ==
  ASSUME NEW S, NEW s \in Seq(S), NEW c \in S, NEW t \in Seq(S),
         \A i \in 1..Len(t) : t[i] # c
  PROVE  split((s \o <<c>>) \o t, c) = split(s, c) \o <<t>>
<1> DEFINE u == (s \o <<c>>) \o t
           n == Len(s) + 1
           m == Len(t)
           E == [i \in 1..m |-> <<>>]
<1>1. /\ n \in Nat /\ n >= 1 /\ m \in Nat /\ n + m \in Nat
      /\ Len(s) = n - 1 /\ Len(s) + 1 = n /\ Len(t) = m
  OBVIOUS
<1>2. u \in Seq(S) /\ Len(u) = n + m
  OBVIOUS
<1>3. /\ \A i \in 1..n - 1 : u[i] = s[i]
      /\ u[n] = c
      /\ \A i \in n + 1..n + m : u[i] # c
  OBVIOUS
<1>4. SubSeq(u, n + 1, n + m) = t
  OBVIOUS
<1> HIDE DEF u, n, m
<1>5. ASSUME NEW i \in 1..n
      PROVE  /\ PartEnd(u, c, i) = PartEnd(s, c, i)
             /\ SubSeq(u, i, PartEnd(u, c, i) - 1) = SubSeq(s, i, PartEnd(s, c, i) - 1)
  <2> DEFINE e == PartEnd(s, c, i)
  <2>1. e \in i..n /\ (e = n \/ s[e] = c) /\ \A k \in i..e - 1 : s[k] # c
    BY <1>1, PartEnds
  <2> HIDE DEF e
  <2>2. i \in 1..Len(u) + 1 /\ e \in i..Len(u) + 1
    BY <1>1, <1>2, <2>1
  <2>3. e = Len(u) + 1 \/ u[e] = c
    BY <1>1, <1>3, <2>1
  <2>4. \A k \in i..e - 1 : u[k] # c
    BY <1>1, <1>3, <2>1
  <2>5. PartEnd(u, c, i) = e
    BY <1>2, <2>2, <2>3, <2>4, PartEndsOnce
  <2>6. SubSeq(u, i, e - 1) = SubSeq(s, i, e - 1)
    BY <1>1, <1>2, <1>3, <2>1
  <2> QED BY <2>5, <2>6 DEF e
<1>6. PartEnd(u, c, n + 1) = n + m + 1
  <2> DEFINE i == n + 1
             e == n + m + 1
  <2>1. i \in 1..Len(u) + 1 /\ e \in i..Len(u) + 1 /\ e = Len(u) + 1
    BY <1>1, <1>2
  <2>2. \A k \in i..e - 1 : u[k] # c
    BY <1>1, <1>3
  <2> HIDE DEF i, e
  <2>3. PartEnd(u, c, i) = e
    BY <1>2, <2>1, <2>2, PartEndsOnce
  <2> QED BY <2>3 DEF i, e
<1>7. /\ Parts(s, c) \in Seq(Seq(Seq(S))) /\ Len(Parts(s, c)) = n
      /\ Parts(u, c) \in Seq(Seq(Seq(S))) /\ Len(Parts(u, c)) = n + m + 1
      /\ <<<<t>>>> \in Seq(Seq(Seq(S)))
      /\ E \in Seq(Seq(Seq(S))) /\ Len(E) = m
  BY <1>1, <1>2, PartsType
<1> DEFINE p == Parts(s, c)
           v == (p \o <<<<t>>>>) \o E
<1>8. /\ p \o <<<<t>>>> \in Seq(Seq(Seq(S)))
      /\ v \in Seq(Seq(Seq(S)))
      /\ Len(v) = n + m + 1
  <2>1. p \o <<<<t>>>> \in Seq(Seq(Seq(S))) /\ Len(p \o <<<<t>>>>) = n + 1
    BY <1>1, <1>7
  <2>2. v \in Seq(Seq(Seq(S))) /\ Len(v) = Len(p \o <<<<t>>>>) + Len(E)
    BY <1>7, <2>1, ConcatProperties, Zenon
  <2> HIDE DEF p, E, v
  <2>3. Len(v) = n + 1 + m
    BY <1>7, <2>1, <2>2
  <2>4. n \in Nat /\ m \in Nat
    BY <1>1
  <2>5. Len(v) = n + m + 1
    BY <2>3, <2>4
  <2> QED BY <2>1, <2>2, <2>5
<1>9. /\ \A i \in 1..n : v[i] = p[i]
      /\ v[n + 1] = <<t>>
      /\ \A i \in n + 2..n + m + 1 : v[i] = <<>>
  BY <1>1, <1>7
<1>10. \A i \in 1..n : p[i] = IF i = 1 \/ s[i - 1] = c THEN <<SubSeq(s, i, PartEnd(s, c, i) - 1)>> ELSE <<>>
  BY <1>1 DEF Parts
<1> HIDE DEF p, v
<1>11. \A i \in 1..n + m + 1 : Parts(u, c)[i] =
         IF i = 1 \/ u[i - 1] = c THEN <<SubSeq(u, i, PartEnd(u, c, i) - 1)>> ELSE <<>>
  BY <1>2 DEF Parts
<1>12. ASSUME NEW i \in 1..n + m + 1 PROVE Parts(u, c)[i] = v[i]
  <2>1. CASE i \in 1..n
    <3>1. i = 1 \/ u[i - 1] = s[i - 1]
      BY <1>1, <1>3, <2>1
    <3>2. v[i] = p[i]
      BY <1>9, <2>1
    <3> QED BY <1>5, <1>10, <1>11, <2>1, <3>1, <3>2
  <2>2. CASE i = n + 1
    <3>1. u[i - 1] = c /\ v[i] = <<t>> /\ PartEnd(u, c, i) - 1 = n + m
      BY <1>1, <1>3, <1>6, <1>9, <2>2
    <3> QED BY <1>4, <1>11, <2>2, <3>1
  <2>3. CASE i \in n + 2..n + m + 1
    <3>1. i # 1 /\ u[i - 1] # c
      BY <1>1, <1>3, <2>3
    <3> QED BY <1>9, <1>11, <2>3, <3>1
  <2> QED BY <1>1, <2>1, <2>2, <2>3
<1>13. Parts(u, c) = v
  BY <1>7, <1>8, <1>12, SeqEqual
<1>14. <<t>> \in Seq(Seq(S)) /\ split(s, c) \o <<t>> \in Seq(Seq(S))
  BY SplitType
<1>15. FlattenSeq(<<<<t>>>>) = <<t>> /\ FlattenSeq(p) = split(s, c)
  BY <1>14, FlattenOne, SplitDef DEF p
<1>16. FlattenSeq(E) = <<>>
  BY <1>1, FlattenEmpties
<1>17. FlattenSeq(p \o <<<<t>>>>) = split(s, c) \o <<t>>
  BY <1>7, <1>15, FlattenConcat DEF p
<1> HIDE DEF E
<1>18. FlattenSeq(v) = (split(s, c) \o <<t>>) \o <<>>
  BY <1>7, <1>8, <1>16, <1>17, FlattenConcat DEF v
<1>19. split(u, c) = split(s, c) \o <<t>>
  BY <1>13, <1>14, <1>18, ConcatEmptySeq, SplitDef
<1> QED BY <1>19 DEF u

\* find returns a place of the text, or 0.
LEMMA FindType ==
  ASSUME NEW S, NEW s \in Seq(S), NEW c
  PROVE  find(s, c) \in 0..Len(s)
<1> DEFINE I == {i \in 1..Len(s) : s[i] = c}
<1>1. find(s, c) = IF I # {} THEN Min(I) ELSE 0
  BY DEF find, SelectInSeq
<1>2. CASE I = {}
  BY <1>1, <1>2
<1>3. CASE I # {}
  <2>1. I \subseteq Nat /\ I \subseteq 0..Len(s)
    OBVIOUS
  <2> HIDE DEF I
  <2>2. \E m \in I : \A k \in I : m <= k
    BY <1>3, <2>1, LeastNumber
  <2>3. Min(I) \in I
    BY <2>2 DEF Min
  <2> QED BY <1>1, <1>3, <2>1, <2>3
<1> QED BY <1>2, <1>3

\* A text that has a separator has a last one.
LEMMA LastSeparator ==
  ASSUME NEW S, NEW s \in Seq(S), NEW c \in S, \E i \in 1..Len(s) : s[i] = c
  PROVE  \E r \in Seq(S) : \E t \in Seq(S) :
           s = (r \o <<c>>) \o t /\ \A i \in 1..Len(t) : t[i] # c
<1> DEFINE n == Len(s)
           T == {j \in 0..n - 1 : s[n - j] = c}
<1>0. n \in Nat
  OBVIOUS
<1>1. PICK m \in T : \A k \in T : m <= k
  <2>1. T \subseteq Nat /\ T # {}
    <3>1. PICK i \in 1..n : s[i] = c
      OBVIOUS
    <3>2. n - i \in T
      BY <1>0, <3>1
    <3>3. T \subseteq Nat
      OBVIOUS
    <3> HIDE DEF T
    <3> QED BY <3>2, <3>3
  <2> HIDE DEF T
  <2> QED BY <2>1, LeastNumber
<1> DEFINE k == n - m
           r == SubSeq(s, 1, k - 1)
           t == SubSeq(s, k + 1, n)
<1>2. k \in 1..n /\ s[k] = c
  BY <1>0, <1>1
<1>3. \A i \in k + 1..n : s[i] # c
  <2> SUFFICES ASSUME NEW i \in k + 1..n, s[i] = c PROVE FALSE
    OBVIOUS
  <2>1. n - i \in 0..n - 1 /\ n - (n - i) = i
    BY <1>0, <1>2
  <2>2. n - i \in T /\ n - i < m
    BY <1>0, <1>1, <2>1
  <2> QED BY <1>0, <1>1, <2>2
<1> HIDE DEF T, k
<1>4. r \in Seq(S) /\ t \in Seq(S) /\ c \in S
      /\ Len(r) = k - 1 /\ Len(t) = n - k
      /\ (\A i \in 1..k - 1 : r[i] = s[i])
      /\ (\A i \in 1..n - k : t[i] = s[k + i])
  BY <1>0, <1>2
<1> HIDE DEF r, t, n
<1>5. k \in Nat /\ k >= 1 /\ k <= n /\ n = Len(s)
  BY <1>0, <1>2 DEF n
<1> DEFINE u == (r \o <<c>>) \o t
<1>6. u \in Seq(S) /\ Len(u) = n
  <2> DEFINE v == r \o <<c>>
  <2>1. v \in Seq(S) /\ Len(v) = k
    BY <1>4, <1>5
  <2> HIDE DEF v
  <2>2. v \o t \in Seq(S) /\ Len(v \o t) = k + (n - k)
    <3>1. v \o t \in Seq(S) /\ Len(v \o t) = Len(v) + Len(t)
      <4>1. t \in Seq(S)
        BY <1>4
      <4> HIDE DEF u
      <4> QED BY <2>1, <4>1, ConcatProperties, Zenon
    <3> QED BY <1>4, <2>1, <3>1
  <2> QED BY <1>0, <1>5, <2>2 DEF v
<1>7. ASSUME NEW i \in 1..n PROVE s[i] = u[i]
  <2>1. CASE i < k
    BY <1>0, <1>4, <1>5, <2>1
  <2>2. CASE i = k
    BY <1>0, <1>2, <1>4, <1>5, <2>2
  <2>3. CASE i > k
    <3>1. i - k \in 1..n - k /\ k + (i - k) = i
      BY <1>0, <1>5, <2>3
    <3>2. t[i - k] = s[i]
      BY <1>4, <3>1
    <3>3. u[i] = t[i - k]
      BY <1>0, <1>4, <1>5, <2>3
    <3> QED BY <3>2, <3>3
  <2>4. i < k \/ i = k \/ i > k
    BY <1>0, <1>5
  <2> QED BY <2>1, <2>2, <2>3, <2>4
<1>8. s = u
  <2> HIDE DEF u
  <2> QED BY <1>5, <1>6, <1>7, SeqEqual
<1>9. \A i \in 1..Len(t) : t[i] # c
  <2> SUFFICES ASSUME NEW i \in 1..Len(t) PROVE t[i] # c
    OBVIOUS
  <2>1. k + i \in k + 1..n
    BY <1>0, <1>4, <1>5
  <2> QED BY <1>3, <1>4, <2>1
<1> QED BY <1>4, <1>8, <1>9

\* Every text has a part, and only the empty text is one empty part.
LEMMA SplitOfNothing ==
  ASSUME NEW S, NEW s \in Seq(S), NEW c \in S
  PROVE  split(s, c) # <<>> /\ (split(s, c) = <<<<>>>> => s = <<>>)
<1>1. ASSUME NEW r \in Seq(S) PROVE split(r, c) # <<>>
  <2>1. CASE \A i \in 1..Len(r) : r[i] # c
    BY <2>1, SplitOne
  <2>2. CASE \E i \in 1..Len(r) : r[i] = c
    <3>0. \E a \in Seq(S) : \E t \in Seq(S) :
            r = (a \o <<c>>) \o t /\ \A i \in 1..Len(t) : t[i] # c
      BY <2>2, LastSeparator
    <3>1. PICK a \in Seq(S), t \in Seq(S) :
            r = (a \o <<c>>) \o t /\ \A i \in 1..Len(t) : t[i] # c
      BY <3>0
    <3>2. split(r, c) = split(a, c) \o <<t>>
      BY <3>1, SplitLast
    <3>3. split(a, c) \in Seq(Seq(S))
      BY SplitType
    <3> QED BY <3>2, <3>3
  <2> QED BY <2>1, <2>2
<1>2. CASE \A i \in 1..Len(s) : s[i] # c
  <2>1. split(s, c) = <<s>>
    BY <1>2, SplitOne
  <2> QED BY <1>1, <2>1
<1>3. CASE \E i \in 1..Len(s) : s[i] = c
  <2>0. \E a \in Seq(S) : \E t \in Seq(S) :
          s = (a \o <<c>>) \o t /\ \A i \in 1..Len(t) : t[i] # c
    BY <1>3, LastSeparator
  <2>1. PICK a \in Seq(S), t \in Seq(S) :
          s = (a \o <<c>>) \o t /\ \A i \in 1..Len(t) : t[i] # c
    BY <2>0
  <2>2. split(s, c) = split(a, c) \o <<t>>
    BY <2>1, SplitLast
  <2> DEFINE x == split(a, c)
  <2>3. x \in Seq(Seq(S)) /\ x # <<>>
    BY <1>1, SplitType
  <2> HIDE DEF x
  <2>4. Len(x \o <<t>>) >= 2
    BY <2>3
  <2>5. Len(<<<<>>>>) = 1
    OBVIOUS
  <2>6. x \o <<t>> # <<<<>>>>
    BY <2>4, <2>5
  <2> QED BY <1>1, <2>2, <2>6 DEF x
<1> QED BY <1>2, <1>3

-----------------------------------------------------------------------------
\* Parts of sequences

\* One element before a sequence, and between two.
LEMMA OneBefore ==
  ASSUME NEW S, NEW c \in S, NEW e \in Seq(S)
  PROVE  /\ <<c>> \in Seq(S) /\ <<c>> \o e \in Seq(S)
         /\ <<c>> \o e # <<>> /\ (<<c>> \o e)[1] = c /\ Tail(<<c>> \o e) = e
OBVIOUS

LEMMA OneBetween ==
  ASSUME NEW S, NEW s \in Seq(S), NEW c \in S, NEW t \in Seq(S)
  PROVE  s \o (<<c>> \o t) = (s \o <<c>>) \o t
<1>1. <<c>> \in Seq(S)
  OBVIOUS
<1> QED BY <1>1, ConcatAssociative

\* What is before one element and what is after it.
LEMMA AroundOne ==
  ASSUME NEW S, NEW s \in Seq(S), NEW c \in S, NEW t \in Seq(S)
  PROVE  /\ SubSeq((s \o <<c>>) \o t, 1, Len(s)) = s
         /\ SubSeq((s \o <<c>>) \o t, Len(s) + 2, Len((s \o <<c>>) \o t)) = t
OBVIOUS

\* The first element of a sequence to which another one is appended.
LEMMA TailConcat ==
  ASSUME NEW S, NEW s \in Seq(S), NEW t \in Seq(S), s # <<>>
  PROVE  /\ s \o t \in Seq(S) /\ s \o t # <<>> /\ (s \o t)[1] = s[1]
         /\ Tail(s) \in Seq(S) /\ Tail(s \o t) = Tail(s) \o t
<1>1. /\ s \o t \in Seq(S) /\ s \o t # <<>> /\ (s \o t)[1] = s[1]
      /\ Tail(s) \in Seq(S) /\ Tail(s \o t) \in Seq(S) /\ Tail(s) \o t \in Seq(S)
  OBVIOUS
<1>2. Len(Tail(s \o t)) = Len(Tail(s) \o t)
  OBVIOUS
<1>3. ASSUME NEW i \in 1..Len(Tail(s \o t)) PROVE Tail(s \o t)[i] = (Tail(s) \o t)[i]
  OBVIOUS
<1> QED BY <1>1, <1>2, <1>3, SeqEqual

\* The elements of a sequence to which another one is appended.
LEMMA ConcatElement ==
  ASSUME NEW S, NEW a \in Seq(S), NEW b \in Seq(S), NEW i \in 1..Len(a) + Len(b)
  PROVE  (a \o b)[i] = IF i <= Len(a) THEN a[i] ELSE b[i - Len(a)]
OBVIOUS

\* Two parts of a sequence, one after the other, are one part.
LEMMA SubSeqJoin ==
  ASSUME NEW S, NEW A \in Seq(S), NEW w \in 0..Len(A), NEW j \in 0..w, NEW k \in 0..j
  PROVE  SubSeq(A, k + 1, j) \o SubSeq(A, j + 1, w) = SubSeq(A, k + 1, w)
<1>0. Len(A) \in Nat /\ w \in Nat /\ j \in Nat /\ k \in Nat
  OBVIOUS
<1> DEFINE a == SubSeq(A, k + 1, j)
           b == SubSeq(A, j + 1, w)
           t == SubSeq(A, k + 1, w)
<1>1. a \in Seq(S) /\ Len(a) = j - k /\ \A i \in 1..j - k : a[i] = A[k + i]
  BY <1>0
<1>2. b \in Seq(S) /\ Len(b) = w - j /\ \A i \in 1..w - j : b[i] = A[j + i]
  BY <1>0
<1>3. t \in Seq(S) /\ Len(t) = w - k /\ \A i \in 1..w - k : t[i] = A[k + i]
  BY <1>0
<1> HIDE DEF a, b, t
<1>4. a \o b \in Seq(S) /\ Len(a \o b) = w - k
  <2>1. a \o b \in Seq(S) /\ Len(a \o b) = Len(a) + Len(b)
    <3>1. a \in Seq(S) /\ b \in Seq(S)
      BY <1>1, <1>2
    <3> QED BY <3>1, ConcatProperties
  <2> QED BY <1>0, <1>1, <1>2, <2>1
<1>5. ASSUME NEW i \in 1..w - k PROVE (a \o b)[i] = t[i]
  <2>1. i \in 1..Len(a) + Len(b)
    BY <1>0, <1>1, <1>2
  <2>2. (a \o b)[i] = IF i <= j - k THEN a[i] ELSE b[i - (j - k)]
    BY <1>1, <1>2, <2>1, ConcatElement
  <2>3. i <= j - k => a[i] = A[k + i]
    BY <1>0, <1>1
  <2>4. ~(i <= j - k) => b[i - (j - k)] = A[k + i]
    <3>1. ~(i <= j - k) => i - (j - k) \in 1..w - j /\ j + (i - (j - k)) = k + i
      BY <1>0
    <3> QED BY <1>2, <3>1
  <2>5. t[i] = A[k + i]
    BY <1>3
  <2> QED BY <2>2, <2>3, <2>4, <2>5
<1>6. a \o b = t
  BY <1>3, <1>4, <1>5, SeqEqual
<1> QED BY <1>6 DEF a, b, t

\* The case of two parts at the beginning, and of a sequence that they make up.
LEMMA PrefixGrows ==
  ASSUME NEW S, NEW A \in Seq(S), NEW w \in 0..Len(A), NEW j \in 0..w
  PROVE  SubSeq(A, 1, j) \o SubSeq(A, j + 1, w) = SubSeq(A, 1, w)
<1>1. 0 \in 0..j /\ 0 + 1 = 1
  OBVIOUS
<1> QED BY <1>1, SubSeqJoin

LEMMA SplitAt ==
  ASSUME NEW S, NEW q \in Seq(S), NEW n \in 0..Len(q)
  PROVE  SubSeq(q, 1, n) \o SubSeq(q, n + 1, Len(q)) = q
<1>0. Len(q) \in Nat /\ n \in Nat
  OBVIOUS
<1>1. Len(q) \in 0..Len(q) /\ n \in 0..Len(q) /\ SubSeq(q, 1, Len(q)) = q
  BY <1>0
<1> QED BY <1>1, PrefixGrows

\* A beginning of a beginning is one.
LEMMA PrefixOfPrefix ==
  ASSUME NEW S, NEW a \in Seq(S), NEW b \in Seq(S), NEW A \in Seq(S), NEW w \in 0..Len(A),
         a \o b = SubSeq(A, 1, w)
  PROVE  Len(a) <= w /\ a = SubSeq(A, 1, Len(a))
<1>0. Len(A) \in Nat /\ Len(a) \in Nat /\ Len(b) \in Nat
  OBVIOUS
<1>1. Len(SubSeq(A, 1, w)) = w /\ \A i \in 1..w : SubSeq(A, 1, w)[i] = A[i]
  BY <1>0
<1>2. Len(a \o b) = Len(a) + Len(b) /\ \A i \in 1..Len(a) : (a \o b)[i] = a[i]
  OBVIOUS
<1>3. Len(a) <= w
  BY <1>0, <1>1, <1>2
<1>4. \A i \in 1..Len(a) : a[i] = A[i]
  BY <1>0, <1>1, <1>2, <1>3
<1> DEFINE t == SubSeq(A, 1, Len(a))
<1>5. t \in Seq(S) /\ Len(t) = Len(a) /\ \A i \in 1..Len(a) : t[i] = A[i]
  BY <1>0, <1>3
<1> HIDE DEF t
<1>6. a = t
  BY <1>4, <1>5, SeqEqual
<1> QED BY <1>3, <1>6 DEF t

\* A part and the element behind it.
LEMMA SubSeqAppend ==
  ASSUME NEW S, NEW A \in Seq(S), NEW b \in 0..Len(A), b < Len(A), NEW k \in 0..b
  PROVE  SubSeq(A, k + 1, b + 1) = Append(SubSeq(A, k + 1, b), A[b + 1])
<1>0. b \in Nat /\ k \in Nat /\ Len(A) \in Nat /\ A[b + 1] \in S
  OBVIOUS
<1> DEFINE x == SubSeq(A, k + 1, b)
           y == SubSeq(A, k + 1, b + 1)
<1>1. x \in Seq(S) /\ Len(x) = b - k /\ \A i \in 1..b - k : x[i] = A[k + i]
  BY <1>0
<1>2. y \in Seq(S) /\ Len(y) = b + 1 - k /\ \A i \in 1..b + 1 - k : y[i] = A[k + i]
  BY <1>0
<1> HIDE DEF x, y
<1>3. Append(x, A[b + 1]) \in Seq(S) /\ Len(Append(x, A[b + 1])) = b + 1 - k
  BY <1>0, <1>1
<1>4. ASSUME NEW i \in 1..b + 1 - k PROVE Append(x, A[b + 1])[i] = A[k + i]
  <2>1. i <= b - k => Append(x, A[b + 1])[i] = x[i] /\ i \in 1..b - k
    BY <1>0, <1>1
  <2>2. ~(i <= b - k) => i = Len(x) + 1 /\ k + i = b + 1
    BY <1>0, <1>1
  <2>3. Append(x, A[b + 1])[Len(x) + 1] = A[b + 1]
    BY <1>0, <1>1
  <2> QED BY <1>1, <2>1, <2>2, <2>3
<1>5. y = Append(x, A[b + 1])
  BY <1>2, <1>3, <1>4, SeqEqual
<1> QED BY <1>5 DEF x, y

-----------------------------------------------------------------------------
\* The filter

\* Among keeps the elements of a set, piece by piece.
LEMMA AmongNothing == ASSUME NEW S PROVE Among(<<>>, S) = <<>>
<1>1. [i \in 1..Len(<<>>) |-> IF <<>>[i] \in S THEN <<<<>>[i]>> ELSE <<>>] = <<>>
  OBVIOUS
<1> QED BY <1>1, FlattenNothing DEF Among

\* What is selected is in both.
LEMMA AmongType ==
  ASSUME NEW T, NEW s \in Seq(T), NEW S
  PROVE  Among(s, S) \in Seq(S \cap T)
<1> DEFINE q == [i \in 1..Len(s) |-> IF s[i] \in S THEN <<s[i]>> ELSE <<>>]
<1>1. ASSUME NEW e \in T PROVE (IF e \in S THEN <<e>> ELSE <<>>) \in Seq(S \cap T)
  <2>1. CASE e \in S
    <3>1. e \in S \cap T
      BY <2>1
    <3> QED BY <2>1, <3>1
  <2>2. CASE e \notin S
    BY <2>2
  <2> QED BY <2>1, <2>2
<1>2. q \in Seq(Seq(S \cap T))
  BY <1>1
<1> HIDE DEF q
<1>3. FlattenSeq(q) \in Seq(S \cap T)
  BY <1>2, FlattenSeqType
<1> QED BY <1>3 DEF Among, q

LEMMA AmongConcat ==
  ASSUME NEW T, NEW s \in Seq(T), NEW t \in Seq(T), NEW S
  PROVE  Among(s \o t, S) = Among(s, S) \o Among(t, S)
<1> DEFINE w(e) == IF e \in S THEN <<e>> ELSE <<>>
           q(u) == [i \in 1..Len(u) |-> w(u[i])]
<1>1. ASSUME NEW e \in T PROVE w(e) \in Seq(T)
  OBVIOUS
<1> HIDE DEF w
<1>2. q(s) \in Seq(Seq(T)) /\ q(t) \in Seq(Seq(T)) /\ q(s \o t) \in Seq(Seq(T))
  BY <1>1
<1>3. q(s \o t) = q(s) \o q(t)
  <2>1. Len(q(s \o t)) = Len(s) + Len(t) /\ Len(q(s) \o q(t)) = Len(s) + Len(t)
    OBVIOUS
  <2>2. ASSUME NEW i \in 1..Len(s) + Len(t) PROVE q(s \o t)[i] = (q(s) \o q(t))[i]
    OBVIOUS
  <2>3. q(s) \o q(t) \in Seq(Seq(T))
    BY <1>2
  <2> HIDE DEF q
  <2> QED BY <1>2, <2>1, <2>2, <2>3, SeqEqual
<1> HIDE DEF q
<1>4. FlattenSeq(q(s) \o q(t)) = FlattenSeq(q(s)) \o FlattenSeq(q(t))
  BY <1>2, FlattenConcat
<1> QED BY <1>3, <1>4 DEF Among, q, w

\* It keeps everything, or nothing, of a sequence over a set that it keeps, or not.
LEMMA AmongAll ==
  ASSUME NEW T, NEW s \in Seq(T), NEW S, T \subseteq S
  PROVE  Among(s, S) = s
<1>1. [i \in 1..Len(s) |-> IF s[i] \in S THEN <<s[i]>> ELSE <<>>] = [i \in 1..Len(s) |-> <<s[i]>>]
  OBVIOUS
<1> QED BY <1>1, FlattenSingletons DEF Among

LEMMA AmongNone ==
  ASSUME NEW T, NEW s \in Seq(T), NEW S, T \cap S = {}
  PROVE  Among(s, S) = <<>>
<1>1. [i \in 1..Len(s) |-> IF s[i] \in S THEN <<s[i]>> ELSE <<>>] = [i \in 1..Len(s) |-> <<>>]
  OBVIOUS
<1>2. Len(s) \in Nat
  OBVIOUS
<1> QED BY <1>1, <1>2, FlattenEmpties DEF Among

\* A single element is selected or not.
LEMMA AmongOne ==
  ASSUME NEW T, NEW e \in T, NEW S
  PROVE  Among(<<e>>, S) = IF e \in S THEN <<e>> ELSE <<>>
<1> DEFINE x == IF e \in S THEN <<e>> ELSE <<>>
<1>1. [i \in 1..Len(<<e>>) |-> IF <<e>>[i] \in S THEN <<(<<e>>)[i]>> ELSE <<>>] = <<x>>
  OBVIOUS
<1>2. x \in Seq(T)
  OBVIOUS
<1> HIDE DEF x
<1>3. FlattenSeq(<<x>>) = x
  BY <1>2, FlattenOne
<1> QED BY <1>1, <1>3 DEF Among, x

\* Of the numbers up to n those in S are each selected once.
LEMMA AmongNumbers ==
  ASSUME NEW n \in Nat, NEW S
  PROVE  LET u == Among([i \in 1..n |-> i], S)
         IN /\ u \in Seq(S \cap 1..n)
            /\ \A i \in S \cap 1..n : \E k \in 1..Len(u) : u[k] = i
            /\ \A j, k \in 1..Len(u) : u[j] = u[k] => j = k
<1> DEFINE ids(m) == [i \in 1..m |-> i]
           Holds(u, m) == /\ u \in Seq(S \cap 1..m)
                          /\ \A i \in S \cap 1..m : \E k \in 1..Len(u) : u[k] = i
                          /\ \A j, k \in 1..Len(u) : u[j] = u[k] => j = k
           A == {m \in 0..n : Holds(Among(ids(m), S), m)}
<1>1. 0 \in A
  <2>1. ids(0) = <<>>
    OBVIOUS
  <2>2. Holds(<<>>, 0)
    OBVIOUS
  <2> HIDE DEF Holds
  <2> QED BY <2>1, <2>2, AmongNothing
<1>2. ASSUME NEW m \in 1..n, m - 1 \in A PROVE m \in A
  <2> DEFINE u == Among(ids(m - 1), S)
             w == Among(ids(m), S)
  <2>1. Holds(u, m - 1)
    BY <1>2
  <2>2. ids(m - 1) \in Seq(Nat) /\ <<m>> \in Seq(Nat) /\ ids(m) = ids(m - 1) \o <<m>>
    OBVIOUS
  <2> HIDE DEF ids
  <2>3. w = u \o (IF m \in S THEN <<m>> ELSE <<>>)
    <3>1. w = u \o Among(<<m>>, S)
      <4> DEFINE p == ids(m - 1)
                 q == <<m>>
      <4>1. p \in Seq(Nat) /\ q \in Seq(Nat) /\ ids(m) = p \o q
        BY <2>2
      <4> HIDE DEF p, q
      <4>2. Among(p \o q, S) = Among(p, S) \o Among(q, S)
        BY <4>1, AmongConcat
      <4> QED BY <4>1, <4>2 DEF p, q
    <3>2. Among(<<m>>, S) = IF m \in S THEN <<m>> ELSE <<>>
      BY AmongOne
    <3> QED BY <3>1, <3>2
  <2> HIDE DEF u, w
  <2>4. u \in Seq(S \cap 1..m - 1) /\ Len(u) \in Nat
    BY <2>1
  <2>5. CASE m \in S
    <3>1. w = Append(u, m)
      BY <2>3, <2>4, <2>5
    <3>2. /\ Len(w) = Len(u) + 1 /\ w[Len(u) + 1] = m
          /\ \A k \in 1..Len(u) : w[k] = u[k] /\ u[k] \in S \cap 1..m - 1
      BY <2>4, <3>1
    <3>3. w \in Seq(S \cap 1..m)
      <4>1. u \in Seq(S \cap 1..m)
        <5>1. S \cap 1..m - 1 \subseteq S \cap 1..m
          OBVIOUS
        <5> QED BY <2>4, <5>1, SeqMonotonic
      <4>2. m \in S \cap 1..m
        BY <2>5
      <4> QED BY <3>1, <4>1, <4>2, AppendProperties
    <3>4. ASSUME NEW i \in S \cap 1..m PROVE \E k \in 1..Len(w) : w[k] = i
      <4>1. CASE i = m
        BY <2>4, <3>2, <4>1
      <4>2. CASE i # m
        <5>1. i \in S \cap 1..m - 1
          BY <4>2
        <5>2. PICK k \in 1..Len(u) : u[k] = i
          BY <2>1, <5>1
        <5>3. k \in 1..Len(w) /\ w[k] = i
          BY <2>4, <3>2, <5>2
        <5> QED BY <5>3
      <4> QED BY <4>1, <4>2
    <3>5. ASSUME NEW j \in 1..Len(w), NEW k \in 1..Len(w), w[j] = w[k] PROVE j = k
      <4>1. \A i \in 1..Len(u) : w[i] # m
        BY <3>2
      <4>2. \A i \in 1..Len(w) : i = Len(u) + 1 \/ i \in 1..Len(u)
        BY <2>4, <3>2
      <4>3. CASE j \in 1..Len(u) /\ k \in 1..Len(u)
        BY <2>1, <3>2, <3>5, <4>3
      <4> QED BY <3>2, <3>5, <4>1, <4>2, <4>3
    <3>6. Holds(w, m)
      BY <3>3, <3>4, <3>5
    <3> QED BY <3>6 DEF w
  <2>6. CASE m \notin S
    <3>1. w = u
      BY <2>3, <2>4, <2>6
    <3>2. S \cap 1..m - 1 = S \cap 1..m
      BY <2>6
    <3>3. Holds(w, m)
      BY <2>1, <3>1, <3>2
    <3> QED BY <3>3 DEF w
  <2> QED BY <2>5, <2>6 DEF w
<1>3. 0..n \subseteq A
  <2> HIDE DEF A
  <2>1. \A m \in 1..n : m - 1 \in A => m \in A
    BY <1>2
  <2> QED BY <1>1, <2>1, FromZero
<1>4. n \in A
  <2> HIDE DEF A
  <2> QED BY <1>3
<1> QED BY <1>4
=============================================================================
