-------------------------- MODULE NavigationProofs --------------------------
(***************************************************************************)
(* Proofs about Navigation, for every alphabet, every set of addresses and *)
(* every set of routes.  The first part is about normalization alone.      *)
(***************************************************************************)
EXTENDS Navigation, SequenceFacts

-----------------------------------------------------------------------------
\* Options

\* Some(x) is an option of any set that has x, and it is not None.
LEMMA SomeOption ==
  ASSUME NEW S, NEW x \in S
  PROVE  /\ Some(x) \in Option(S)
         /\ Some(x) # None
         /\ Some(x)[1] = x
BY DEF Some, None, Option

\* None is an option of every set.
LEMMA NoneOption == ASSUME NEW S PROVE None \in Option(S)
BY EmptySeq DEF None, Option

\* An option that is not None is Some of the element it holds.
LEMMA OptionCases ==
  ASSUME NEW S, NEW o \in Option(S), o # None
  PROVE  o[1] \in S /\ o = Some(o[1])
<1>1. o \in Seq(S) /\ Len(o) = 1
  <2>1. o \in Seq(S) /\ Len(o) <= 1 /\ o # <<>>
    BY DEF Option, None
  <2>2. Len(o) \in Nat \ {0}
    BY <2>1, EmptySeq
  <2>3. \A n \in Nat \ {0} : n <= 1 => n = 1
    OBVIOUS
  <2>4. Len(o) = 1
    BY <2>1, <2>2, <2>3, Zenon
  <2> QED BY <2>1, <2>4, Zenon
<1>2. o[1] \in S
  BY <1>1, ElementOfSeq
<1>3. o = <<o[1]>>
  BY <1>1, <1>2, SeqEqual
<1> QED BY <1>2, <1>3 DEF Some

-----------------------------------------------------------------------------
\* Normalization

\* A rendered path is a path without an empty segment, and parsing takes off
\* exactly the dashes that rendering put on: the two are inverse, on segments
\* of any length over any alphabet.
LEMMA RenderThenParse ==
  ASSUME NEW p \in Seq(Segment)
  PROVE  /\ normalize_render_path(p) \in Seq(Segment)
         /\ ~HasEmptySegment(normalize_render_path(p))
         /\ Undash(normalize_render_path(p)) = p
<1> DEFINE rp == normalize_render_path(p)
           n == Len(p)
<1>1. n \in Nat /\ \A i \in 1..n : p[i] \in Segment
  BY LenProperties, ElementOfSeq
<1>2. ASSUME NEW s \in Segment
      PROVE  /\ Append(s, Dash) \in Segment
             /\ Append(s, Dash) # <<>>
             /\ drop_one(Append(s, Dash)) = s
             /\ OnlyDashes(s) => OnlyDashes(Append(s, Dash))
  <2>1. /\ Append(s, Dash) \in Segment
        /\ Append(s, Dash) # <<>>
        /\ Len(Append(s, Dash)) = Len(s) + 1
        /\ \A i \in 1..Len(s) : Append(s, Dash)[i] = s[i]
        /\ Append(s, Dash)[Len(s) + 1] = Dash
    BY DashAssumption, AppendProperties DEF Segment
  <2>2. Len(s) \in Nat
    BY LenProperties DEF Segment
  <2>3. drop_one(Append(s, Dash)) = s
    <3> DEFINE t == SubSeq(Append(s, Dash), 1, Len(s))
    <3>1. \A i \in 1..Len(s) : Append(s, Dash)[i] \in Char
      BY <2>1, ElementOfSeq DEF Segment
    <3>2. t \in Seq(Char) /\ Len(t) = Len(s)
          /\ \A i \in 1..Len(s) : t[i] = s[i]
      BY <2>1, <2>2, <3>1, SubSeqProperties
    <3>3. t = s
      <4> HIDE DEF t
      <4> QED BY <3>2, SeqEqual DEF Segment
    <3> QED BY <2>1, <2>2, <3>3 DEF drop_one
  <2>4. OnlyDashes(s) => OnlyDashes(Append(s, Dash))
    BY <2>1, <2>2 DEF OnlyDashes
  <2> QED BY <2>1, <2>3, <2>4
<1>3. rp = [i \in 1..n |-> IF OnlyDashes(p[i]) THEN Append(p[i], Dash) ELSE p[i]]
  BY DEF normalize_render_path
<1>4. \A i \in 1..n : rp[i] = IF OnlyDashes(p[i]) THEN Append(p[i], Dash) ELSE p[i]
  BY <1>3
<1> HIDE DEF rp
<1>5. \A i \in 1..n : rp[i] \in Segment /\ rp[i] # <<>>
  <2> SUFFICES ASSUME NEW i \in 1..n PROVE rp[i] \in Segment /\ rp[i] # <<>>
    OBVIOUS
  <2>1. CASE OnlyDashes(p[i])
    BY <1>1, <1>2, <1>4, <2>1
  <2>2. CASE ~OnlyDashes(p[i])
    <3>1. p[i] # <<>>
      BY <2>2 DEF OnlyDashes
    <3> QED BY <1>1, <1>4, <2>2, <3>1
  <2> QED BY <2>1, <2>2
<1>6. rp \in [1..n -> Segment] /\ rp \in Seq(Segment) /\ Len(rp) = n
  BY <1>1, <1>3, <1>5, SeqDef
<1>7. \A i \in 1..n :
        (IF OnlyDashes(rp[i]) THEN drop_one(rp[i]) ELSE rp[i]) = p[i]
  <2> SUFFICES ASSUME NEW i \in 1..n
               PROVE  (IF OnlyDashes(rp[i]) THEN drop_one(rp[i]) ELSE rp[i]) = p[i]
    OBVIOUS
  <2>1. CASE OnlyDashes(p[i])
    BY <1>1, <1>2, <1>4, <2>1
  <2>2. CASE ~OnlyDashes(p[i])
    BY <1>4, <2>2
  <2> QED BY <2>1, <2>2
<1>8. Undash(rp) = p
  <2>1. Undash(rp) = [i \in 1..n |-> p[i]]
    BY <1>6, <1>7 DEF Undash
  <2>2. p = [i \in 1..n |-> p[i]]
    BY LenProperties
  <2> QED BY <2>1, <2>2
<1>9. ~HasEmptySegment(rp)
  BY <1>5, <1>6 DEF HasEmptySegment
<1> QED BY <1>6, <1>8, <1>9 DEF rp

\* What a redirect leaves of a path is a path without an empty segment.
LEMMA DropEmptyType ==
  ASSUME NEW p \in Seq(Segment)
  PROVE  /\ DropEmpty(p) \in Seq(Segment)
         /\ ~HasEmptySegment(DropEmpty(p))
<1> DEFINE S == Segment \ {<<>>}
           q == [i \in 1..Len(p) |-> IF p[i] = <<>> THEN <<>> ELSE <<p[i]>>]
<1>1. Len(p) \in Nat /\ \A i \in 1..Len(p) : p[i] \in Segment
  BY LenProperties, ElementOfSeq
<1>2. \A i \in 1..Len(p) : (IF p[i] = <<>> THEN <<>> ELSE <<p[i]>>) \in Seq(S)
  <2> SUFFICES ASSUME NEW i \in 1..Len(p)
               PROVE  (IF p[i] = <<>> THEN <<>> ELSE <<p[i]>>) \in Seq(S)
    OBVIOUS
  <2>1. CASE p[i] = <<>>
    BY <2>1, EmptySeq
  <2>2. CASE p[i] # <<>>
    <3>1. p[i] \in S
      BY <1>1, <2>2
    <3> HIDE DEF S
    <3> QED BY <2>2, <3>1
  <2> QED BY <2>1, <2>2
<1>3. q \in Seq(Seq(S))
  BY <1>1, <1>2, SeqDef
<1>4. DropEmpty(p) \in Seq(S)
  <2> HIDE DEF S, q
  <2>1. FlattenSeq(q) \in Seq(S)
    BY <1>3, FlattenSeqType
  <2> QED BY <2>1 DEF DropEmpty, q
<1>5. DropEmpty(p) \in Seq(Segment)
  BY <1>4, SeqMonotonic
<1>6. \A i \in 1..Len(DropEmpty(p)) : DropEmpty(p)[i] # <<>>
  BY <1>4, ElementOfSeq
<1> QED BY <1>5, <1>6 DEF HasEmptySegment

\* Taking off a dash gives a path.
LEMMA UndashType ==
  ASSUME NEW p \in Seq(Segment)
  PROVE  Undash(p) \in Seq(Segment)
<1>1. Len(p) \in Nat /\ \A i \in 1..Len(p) : p[i] \in Segment
  BY LenProperties, ElementOfSeq
<1>2. ASSUME NEW s \in Segment PROVE drop_one(s) \in Segment
  <2>1. Len(s) \in Nat /\ \A i \in 1..Len(s) - 1 : s[i] \in Char
    BY LenProperties, ElementOfSeq DEF Segment
  <2> QED BY <2>1, SubSeqProperties DEF drop_one, Segment
<1>3. Undash(p) \in [1..Len(p) -> Segment]
  BY <1>1, <1>2 DEF Undash
<1> QED BY <1>1, <1>3, SeqDef

\* A path without an empty segment loses nothing.
LEMMA DropEmptyOfNormalized ==
  ASSUME NEW p \in Seq(Segment), ~HasEmptySegment(p)
  PROVE  DropEmpty(p) = p
<1>1. \A i \in 1..Len(p) : (IF p[i] = <<>> THEN <<>> ELSE <<p[i]>>) = <<p[i]>>
  BY DEF HasEmptySegment
<1>2. DropEmpty(p) = FlattenSeq([i \in 1..Len(p) |-> <<p[i]>>])
  BY <1>1 DEF DropEmpty
<1> QED BY <1>2, FlattenSingletons

\* A path without an empty segment reads as it was written.
LEMMA WirePathOfNormalized ==
  ASSUME NEW p \in Seq(Segment), ~HasEmptySegment(p)
  PROVE  WirePath(p) = p
<1>1. p # << <<>> >>
  <2>1. SUFFICES ASSUME p = << <<>> >> PROVE FALSE
    OBVIOUS
  <2>2. 1 \in 1..Len(p) /\ p[1] = <<>>
    BY <2>1
  <2> QED BY <2>2 DEF HasEmptySegment
<1> QED BY <1>1 DEF WirePath

\* What is read from a written query is a query, and writing it again changes
\* nothing.
LEMMA WireQueryType ==
  ASSUME NEW q \in Option(Seq(QueryPair))
  PROVE  /\ WireQuery(q) \in Option(Seq(QueryPair))
         /\ WireQuery(WireQuery(q)) = WireQuery(q)
<1>1. Some(<<>>) \in Option(Seq(QueryPair))
  BY EmptySeq, SomeOption
<1>2. WireQuery(q) \in Option(Seq(QueryPair))
  BY <1>1 DEF WireQuery
<1>3. Some(<<>>) # Some(<< << <<>>, None >> >>)
  BY DEF Some
<1>4. WireQuery(WireQuery(q)) = WireQuery(q)
  BY <1>3 DEF WireQuery
<1> QED BY <1>2, <1>4

\* Both results of normalize_parse are addresses again; a redirect names one
\* without an empty segment.
LEMMA NormalizeParseType ==
  ASSUME NEW a \in PathAndQuery
  PROVE  LET result == normalize_parse(a)
         IN  /\ result.to \in PathAndQuery
             /\ result.to.query = a.query
             /\ result.ok = ~HasEmptySegment(a.path)
             /\ result.ok => result.to.path = Undash(a.path)
             /\ ~result.ok => /\ result.to.path = DropEmpty(a.path)
                              /\ ~HasEmptySegment(result.to.path)
                              /\ WirePath(result.to.path) = result.to.path
<1>1. a.path \in Seq(Segment) /\ a.query \in Option(Seq(QueryPair))
  BY DEF PathAndQuery
<1>2. /\ DropEmpty(a.path) \in Seq(Segment)
      /\ ~HasEmptySegment(DropEmpty(a.path))
      /\ WirePath(DropEmpty(a.path)) = DropEmpty(a.path)
  BY <1>1, DropEmptyType, WirePathOfNormalized
<1>3. Undash(a.path) \in Seq(Segment)
  BY <1>1, UndashType
<1>4. CASE HasEmptySegment(a.path)
  BY <1>1, <1>2, <1>4 DEF normalize_parse, PathAndQuery
<1>5. CASE ~HasEmptySegment(a.path)
  BY <1>1, <1>3, <1>5 DEF normalize_parse, PathAndQuery
<1> QED BY <1>4, <1>5

\* The address of a link is normalized, reads as it was written, and parses
\* to the route it was rendered from.
LEMMA LinkAddress ==
  ASSUME NEW r \in PathAndQuery
  PROVE  LET a == Wire(PlainPathAndQuery(r))
         IN  /\ a \in PathAndQuery
             /\ a.path = normalize_render_path(r.path)
             /\ a.query = WireQuery(r.query)
             /\ normalize_parse(a).ok
             /\ normalize_parse(a).to =
                  [path |-> r.path, query |-> WireQuery(r.query)]
<1> DEFINE p == normalize_render_path(r.path)
           q == WireQuery(r.query)
           a == Wire(PlainPathAndQuery(r))
<1>1. r.path \in Seq(Segment) /\ r.query \in Option(Seq(QueryPair))
  BY DEF PathAndQuery
<1>2. p \in Seq(Segment) /\ ~HasEmptySegment(p) /\ Undash(p) = r.path /\ WirePath(p) = p
  BY <1>1, RenderThenParse, WirePathOfNormalized
<1>3. q \in Option(Seq(QueryPair))
  BY <1>1, WireQueryType
<1>4. a = [path |-> p, query |-> q]
  <2> HIDE DEF p, q
  <2>1. PlainPathAndQuery(r) = [path |-> p, query |-> r.query]
    BY DEF PlainPathAndQuery, p
  <2> QED BY <1>2, <2>1 DEF Wire, q
<1> HIDE DEF p, q, a
<1>5. a \in PathAndQuery /\ a.path = p /\ a.query = q
  BY <1>2, <1>3, <1>4 DEF PathAndQuery
<1>6. normalize_parse(a) = [ok |-> TRUE, to |-> [path |-> r.path, query |-> q]]
  BY <1>2, <1>5 DEF normalize_parse
<1> QED BY <1>5, <1>6 DEF p, q, a

-----------------------------------------------------------------------------
\* The inductive invariant.  A request under way shows no page; a browser at
\* rest without a page has just been opened.  What the two properties need is
\* the address under way: after a redirect it has no empty segment, and behind
\* a link it is still the one that was rendered, since no redirect happens.
\* Once the page is there, it is the link's own route.

Quiet == page = None /\ request = None => link = None /\ hops = 0

Exclusive == request # None => page = None

AfterRedirect == hops = 1 /\ request # None => ~HasEmptySegment(request[1].path)

BehindLink ==
  link # None /\ request # None => request = Some(Wire(PlainPathAndQuery(link[1])))

AsWritten == request # None => WireQuery(request[1].query) = request[1].query

IInv ==
  /\ TypeOK
  /\ AsWritten
  /\ Quiet
  /\ Exclusive
  /\ AtMostOneRedirect
  /\ AfterRedirect
  /\ BehindLink
  /\ LinkReachesItsRoute

\* The invariant holds of the browser that has just been opened.
LEMMA InitIInv == Init => IInv
<1> SUFFICES ASSUME Init PROVE IInv
  OBVIOUS
<1>1. request = None /\ link = None /\ hops = 0 /\ page = None
  BY DEF Init
<1>2. TypeOK
  BY <1>1, NoneOption, HopLimitAssumption DEF TypeOK
<1> QED
  BY <1>1, <1>2 DEF IInv, Quiet, Exclusive, AsWritten, AtMostOneRedirect, AfterRedirect,
                    BehindLink, LinkReachesItsRoute

\* A typed address is under way without a link and before any redirect.
LEMMA TypeKeepsIInv == IInv /\ Type => IInv'
<1> SUFFICES ASSUME IInv, Type PROVE IInv'
  OBVIOUS
<1>1. /\ request = None /\ page = None
      /\ link' = link /\ hops' = hops /\ page' = page
      /\ link = None /\ hops = 0
  BY DEF IInv, Type, Quiet
<1>2. PICK a \in Address : request' = Some(a)
  BY DEF Type
<1>3. a \in PathAndQuery
  BY AddressAssumption
<1>4. request' \in Option(PathAndQuery) /\ request' # None /\ request'[1] = a
  BY <1>2, <1>3, SomeOption
<1>5. TypeOK'
  BY <1>1, <1>4 DEF IInv, TypeOK
<1>6. AsWritten'
  <2>1. Wire(a) = a
    BY AddressAssumption
  <2>2. Wire(a).query = WireQuery(a.query)
    BY DEF Wire
  <2> QED BY <1>4, <2>1, <2>2 DEF AsWritten
<1> QED
  BY <1>1, <1>4, <1>5, <1>6 DEF IInv, Quiet, Exclusive, AsWritten, AtMostOneRedirect, AfterRedirect,
                          BehindLink, LinkReachesItsRoute

\* A followed link starts with the address that was rendered for it.
LEMMA FollowKeepsIInv ==
  ASSUME NEW r \in Route \cup ToSet(page), IInv, Follow(r)
  PROVE  IInv'
<1>1. r \in PathAndQuery
  <2>1. CASE r \in Route
    BY <2>1, RouteAssumption
  <2>2. CASE r \in ToSet(page)
    <3>1. PICK i \in DOMAIN page : r = page[i]
      BY <2>2 DEF ToSet
    <3>2. page \in Seq(PathAndQuery)
      BY DEF IInv, TypeOK, Option
    <3> QED BY <3>1, <3>2, LenProperties, ElementOfSeq
  <2> QED BY <2>1, <2>2
<1> DEFINE a == Wire(PlainPathAndQuery(r))
<1>2. a \in PathAndQuery /\ WireQuery(a.query) = a.query
  <2>1. a \in PathAndQuery /\ a.query = WireQuery(r.query)
    BY <1>1, LinkAddress
  <2>2. r.query \in Option(Seq(QueryPair))
    BY <1>1 DEF PathAndQuery
  <2> QED BY <2>1, <2>2, WireQueryType
<1>3. /\ request' = Some(a) /\ link' = Some(r)
      /\ hops' = 0 /\ page' = None
  BY DEF Follow
<1> HIDE DEF a
<1>4. /\ request' \in Option(PathAndQuery) /\ request' # None /\ request'[1] = a
      /\ link' \in Option(PathAndQuery) /\ link' # None /\ link'[1] = r
  BY <1>1, <1>2, <1>3, SomeOption
<1>5. TypeOK'
  BY <1>3, <1>4, NoneOption, HopLimitAssumption DEF TypeOK
<1>6. BehindLink'
  BY <1>3, <1>4 DEF BehindLink, a
<1>7. AsWritten'
  BY <1>2, <1>4 DEF AsWritten
<1> QED
  BY <1>3, <1>4, <1>5, <1>6, <1>7
  DEF IInv, Quiet, Exclusive, AsWritten, AtMostOneRedirect, AfterRedirect, LinkReachesItsRoute

\* A closed page leaves the browser as it was opened.
LEMMA CloseKeepsIInv == IInv /\ Close => IInv'
<1> SUFFICES ASSUME IInv, Close PROVE IInv'
  OBVIOUS
<1>1. /\ page # None /\ request' = request
      /\ link' = None /\ hops' = 0 /\ page' = None
  BY DEF Close
<1>2. request = None
  BY <1>1 DEF IInv, Exclusive
<1>3. TypeOK'
  BY <1>1, NoneOption, HopLimitAssumption DEF IInv, TypeOK
<1> QED
  BY <1>1, <1>2, <1>3 DEF IInv, Quiet, Exclusive, AsWritten, AtMostOneRedirect, AfterRedirect,
                          BehindLink, LinkReachesItsRoute

\* What is dispatched behind a link is the link's route.
LEMMA DispatchKeepsIInv == IInv /\ Dispatch => IInv'
<1> SUFFICES ASSUME IInv, Dispatch PROVE IInv'
  OBVIOUS
<1> DEFINE result == normalize_parse(request[1])
<1>1. /\ request # None /\ page' = Some(result.to)
      /\ request' = None /\ link' = link /\ hops' = hops
  BY DEF Dispatch
<1>2. request[1] \in PathAndQuery
  BY <1>1, OptionCases DEF IInv, TypeOK
<1>3. result.to \in PathAndQuery
  BY <1>2, NormalizeParseType
<1>4. page' \in Option(PathAndQuery) /\ page' # None
  <2> HIDE DEF result
  <2> QED BY <1>1, <1>3, SomeOption
<1>5. TypeOK'
  BY <1>1, <1>4, NoneOption DEF IInv, TypeOK
<1>6. ASSUME link # None
      PROVE  page' = Some([path |-> link[1].path, query |-> WireQuery(link[1].query)])
  <2>1. link[1] \in PathAndQuery
    BY <1>6, OptionCases DEF IInv, TypeOK
  <2>2. request = Some(Wire(PlainPathAndQuery(link[1])))
    BY <1>1, <1>6 DEF IInv, BehindLink
  <2>3. request[1] = Wire(PlainPathAndQuery(link[1]))
    BY <2>2 DEF Some
  <2>4. result.to = [path |-> link[1].path, query |-> WireQuery(link[1].query)]
    BY <2>1, <2>3, LinkAddress
  <2> QED BY <1>1, <2>4
<1>7. LinkReachesItsRoute'
  BY <1>1, <1>6 DEF IInv, LinkReachesItsRoute
<1> QED
  BY <1>1, <1>4, <1>5, <1>7
  DEF IInv, Quiet, Exclusive, AsWritten, AtMostOneRedirect, AfterRedirect, BehindLink

\* A redirect happens to a typed address only, and only once: the address it
\* leads to has no empty segment.
LEMMA RedirectKeepsIInv == IInv /\ Redirect => IInv'
<1> SUFFICES ASSUME IInv, Redirect PROVE IInv'
  OBVIOUS
<1> DEFINE result == normalize_parse(request[1])
           a == Wire(result.to)
<1>1. /\ request # None /\ ~result.ok /\ request' = Some(a)
      /\ hops' = (IF hops < HopLimit THEN hops + 1 ELSE hops)
      /\ link' = link /\ page' = page
  BY DEF Redirect
<1>2. request[1] \in PathAndQuery
  BY <1>1, OptionCases DEF IInv, TypeOK
<1>3. HasEmptySegment(request[1].path)
  <2>1. result.ok = ~HasEmptySegment(request[1].path)
    BY <1>2, NormalizeParseType
  <2> QED BY <1>1, <2>1
<1>4. hops = 0 /\ hops' = 1
  <2>1. hops # 1
    BY <1>1, <1>3 DEF IInv, AfterRedirect
  <2> QED BY <1>1, <2>1, HopLimitAssumption DEF IInv, TypeOK, AtMostOneRedirect
<1>5. link = None
  <2>1. SUFFICES ASSUME link # None PROVE FALSE
    OBVIOUS
  <2>2. link[1] \in PathAndQuery
    BY <2>1, OptionCases DEF IInv, TypeOK
  <2>3. request[1] = Wire(PlainPathAndQuery(link[1]))
    BY <1>1, <2>1 DEF IInv, BehindLink, Some
  <2>4. result.ok
    BY <2>2, <2>3, LinkAddress
  <2> QED BY <1>1, <2>4
<1>6. /\ a \in PathAndQuery
      /\ ~HasEmptySegment(a.path)
      /\ WireQuery(a.query) = a.query
  <2>1. /\ result.to \in PathAndQuery
        /\ ~HasEmptySegment(result.to.path)
        /\ WirePath(result.to.path) = result.to.path
    BY <1>1, <1>2, NormalizeParseType
  <2> HIDE DEF result
  <2>2. /\ WireQuery(result.to.query) \in Option(Seq(QueryPair))
        /\ WireQuery(WireQuery(result.to.query)) = WireQuery(result.to.query)
    BY <2>1, WireQueryType DEF PathAndQuery
  <2> QED BY <2>1, <2>2 DEF Wire, PathAndQuery
<1> HIDE DEF result, a
<1>7. request' \in Option(PathAndQuery) /\ request' # None /\ request'[1] = a
  BY <1>1, <1>6, SomeOption
<1>8. TypeOK'
  BY <1>1, <1>4, <1>7, HopLimitAssumption DEF IInv, TypeOK
<1>9. page' = None
  BY <1>1 DEF IInv, Exclusive
<1> QED
  BY <1>1, <1>4, <1>5, <1>6, <1>7, <1>8, <1>9
  DEF IInv, Quiet, Exclusive, AsWritten, AtMostOneRedirect, AfterRedirect, BehindLink,
      LinkReachesItsRoute

\* Every step keeps the invariant.
LEMMA NextIInv == IInv /\ [Next]_vars => IInv'
<1> SUFFICES ASSUME IInv, [Next]_vars PROVE IInv'
  OBVIOUS
<1>1. CASE Type
  BY <1>1, TypeKeepsIInv
<1>2. ASSUME NEW r \in IF page = None THEN Route ELSE ToSet(page), Follow(r)
      PROVE  IInv'
  BY <1>2, FollowKeepsIInv
<1>3. CASE Close
  BY <1>3, CloseKeepsIInv
<1>4. CASE Dispatch
  BY <1>4, DispatchKeepsIInv
<1>5. CASE Redirect
  BY <1>5, RedirectKeepsIInv
<1>6. CASE UNCHANGED vars
  BY <1>6 DEF vars, IInv, TypeOK, Quiet, Exclusive, AsWritten, AtMostOneRedirect,
              AfterRedirect, BehindLink, LinkReachesItsRoute
<1> QED BY <1>1, <1>2, <1>3, <1>4, <1>5, <1>6 DEF Next

\* The invariant holds in every reachable state.
LEMMA Invariance == Spec => []IInv
BY InitIInv, NextIInv, PTL DEF Spec

-----------------------------------------------------------------------------

\* Requests, links and pages are what the types of the code say they are.
THEOREM TypeCorrect == Spec => []TypeOK
<1>1. IInv => TypeOK
  BY DEF IInv
<1> QED BY <1>1, Invariance, PTL

\* No address is redirected twice.
THEOREM OneRedirect == Spec => []AtMostOneRedirect
<1>1. IInv => AtMostOneRedirect
  BY DEF IInv
<1> QED BY <1>1, Invariance, PTL

\* Every rendered link leads, without a redirect, to the route it was
\* rendered from: Route::parse undoes Route::render.
THEOREM LinkIsItsRoute == Spec => []LinkReachesItsRoute
<1>1. IInv => LinkReachesItsRoute
  BY DEF IInv
<1> QED BY <1>1, Invariance, PTL

\* A redirect only takes empty segments away: no step that redirects changes
\* the query or the order or content of the other segments.
THEOREM RedirectMeaning == Spec => RedirectKeepsMeaning
<1> DEFINE Kept == hops' # hops /\ request' # None /\ request # None =>
                     /\ request'[1].query = request[1].query
                     /\ DropEmpty(request'[1].path) = DropEmpty(request[1].path)
<1>1. IInv /\ [Next]_vars => [Kept]_vars
  <2> SUFFICES ASSUME IInv, Next, hops' # hops, request' # None, request # None
               PROVE  /\ request'[1].query = request[1].query
                      /\ DropEmpty(request'[1].path) = DropEmpty(request[1].path)
    OBVIOUS
  <2>1. Redirect
    <3>1. ~Type
      BY DEF Type
    <3>2. \A r : ~Follow(r)
      BY DEF Follow
    <3>3. ~Close
      BY DEF Close, IInv, Exclusive
    <3>4. ~Dispatch
      BY DEF Dispatch
    <3> QED BY <3>1, <3>2, <3>3, <3>4 DEF Next
  <2> DEFINE result == normalize_parse(request[1])
             a == Wire(result.to)
  <2>2. ~result.ok /\ request' = Some(a)
    BY <2>1 DEF Redirect
  <2>3. request[1] \in PathAndQuery
    BY OptionCases DEF IInv, TypeOK
  <2>4. /\ result.to.query = request[1].query
        /\ result.to.path = DropEmpty(request[1].path)
        /\ ~HasEmptySegment(result.to.path)
        /\ WirePath(result.to.path) = result.to.path
        /\ result.to \in PathAndQuery
    BY <2>2, <2>3, NormalizeParseType
  <2> HIDE DEF result
  <2>5. a.path = result.to.path /\ a.query = WireQuery(result.to.query)
    BY <2>4 DEF Wire
  <2>6. DropEmpty(a.path) = a.path
    BY <2>4, <2>5, DropEmptyOfNormalized DEF PathAndQuery
  <2>7. request'[1] = a
    BY <2>2 DEF Some
  <2>8. WireQuery(request[1].query) = request[1].query
    BY DEF IInv, AsWritten
  <2> HIDE DEF a
  <2> QED BY <2>4, <2>5, <2>6, <2>7, <2>8
<1>2. RedirectKeepsMeaning <=> [][Kept]_vars
  BY DEF RedirectKeepsMeaning
<1> HIDE DEF Kept
<1> QED BY <1>1, <1>2, Invariance, PTL DEF Spec
=============================================================================
