------------------------ MODULE ExampleServersProofs ------------------------
(***************************************************************************)
(* Proofs about ExampleServers, for any number of visits and any number of *)
(* values of a usize.                                                      *)
(***************************************************************************)
EXTENDS ExampleServers, Integers, FiniteSetTheorems, TLAPS

\* A visit takes its number when it leaves "accepted", and not before.
NumberIsTakenOnce ==
  \A v \in Visit : visit[v] \in {"unmade", "accepted"} => shown[v] = NoCount

\* The plain server is polled first, and main goes on only if it listens.
PlainIsFirst == main \in {"tls", "joined"} => listener["plain"] = "listening"

IInv == TypeOK /\ NumberIsTakenOnce /\ EachVisitCountsOnce /\ PlainIsFirst /\ BothPortsOrNone

\* Counting on from a number that has wrapped around is counting on.
LEMMA CountOn ==
  ASSUME NEW n \in Nat, NEW u \in Nat, u >= 1
  PROVE  ((n % u) + 1) % u = (n + 1) % u
<1> DEFINE q == n \div u
           r == n % u
<1>1. n = u * q + r /\ q \in Nat /\ r \in 0..u - 1
  OBVIOUS
<1> HIDE DEF q, r
<1>2. CASE r + 1 < u
  <2>1. n + 1 = u * q + (r + 1) /\ r + 1 \in 0..u - 1
    BY <1>1, <1>2
  <2>2. (n + 1) % u = r + 1
    BY <1>1, <2>1
  <2>3. (r + 1) % u = r + 1
    BY <2>1
  <2> QED BY <2>2, <2>3 DEF r
<1>3. CASE r + 1 = u
  <2>1. n + 1 = u * (q + 1) + 0
    BY <1>1, <1>3
  <2>2. (n + 1) % u = 0
    BY <1>1, <2>1
  <2>3. (r + 1) % u = 0
    BY <1>3
  <2> QED BY <2>2, <2>3 DEF r
<1> QED BY <1>1, <1>2, <1>3

\* A number is its own remainder until it wraps around.
LEMMA NotWrapped ==
  ASSUME NEW n \in Nat, NEW u \in Nat, n < u
  PROVE  n % u = n
OBVIOUS

\* A remainder is one of the values of the type.
LEMMA Remainder ==
  ASSUME NEW n \in Nat, NEW u \in Nat, u >= 1
  PROVE  n % u \in 0..u - 1
OBVIOUS

\* A usize has some values.
LEMMA UsizeHasValues == UsizeSize \in Nat /\ UsizeSize >= 1
BY UsizeAssumption

\* The counter is a usize, and no page shows NoCount.
LEMMA CounterType ==
  ASSUME TypeOK
  PROVE  /\ counter \in Nat /\ counter + 1 \in Nat /\ counter < UsizeSize
         /\ counter \in 0..UsizeSize /\ counter # NoCount
         /\ shown \in [Visit -> 0..UsizeSize]
<1>1. counter \in 0..UsizeSize - 1 /\ shown \in [Visit -> 0..UsizeSize]
  BY Zenon DEF TypeOK
<1> QED BY <1>1, UsizeHasValues DEF NoCount

\* The visits that have a number are finitely many.
LEMMA CountedFinite ==
  IsFiniteSet(Counted) /\ Cardinality(Counted) \in Nat
<1>1. Counted \in SUBSET Visit
  BY DEF Counted
<1> QED BY <1>1, VisitAssumption, FS_Subset, FS_CardinalityType

\* Nothing is listening and nothing is counted when main starts.
LEMMA InitIInv == Init => IInv
<1> SUFFICES ASSUME Init PROVE IInv
  OBVIOUS
<1> USE DEF Init
<1>1. TypeOK
  BY UsizeAssumption DEF TypeOK, NoCount
<1>2. NumberIsTakenOnce
  BY DEF NumberIsTakenOnce
<1>3. EachVisitCountsOnce
  <2>1. Counted = {}
    BY DEF Counted
  <2>2. Cardinality(Counted) = 0
    BY <2>1, FS_EmptySet
  <2>3. 0 % UsizeSize = 0
    BY UsizeHasValues, NotWrapped
  <2> QED BY <2>1, <2>2, <2>3 DEF EachVisitCountsOnce
<1>4. PlainIsFirst /\ BothPortsOrNone
  BY DEF PlainIsFirst, BothPortsOrNone, Port
<1> QED BY <1>1, <1>2, <1>3, <1>4 DEF IInv

\* Types are kept by every step.
LEMMA NextTypeOK == TypeOK /\ [Next]_vars => TypeOK'
<1> SUFFICES ASSUME TypeOK, [Next]_vars PROVE TypeOK'
  OBVIOUS
<1> USE DEF TypeOK
<1>1. ASSUME Assets PROVE TypeOK'
  BY <1>1 DEF Assets, Leave, visits
<1>2. ASSUME PollPlain PROVE TypeOK'
  BY <1>2 DEF PollPlain, Leave, visits
<1>3. ASSUME PollTls PROVE TypeOK'
  BY <1>3 DEF PollTls, Leave, visits
<1>4. ASSUME DropFutures PROVE TypeOK'
  BY <1>4 DEF DropFutures, visits
<1>5. ASSUME ShutdownRuntime PROVE TypeOK'
  BY <1>5 DEF ShutdownRuntime, visits
<1>6. ASSUME NEW p \in Port, AcceptErr(p) PROVE TypeOK'
  BY <1>6 DEF AcceptErr, Leave, Port, visits
<1>7. ASSUME NEW v \in Visit, FetchAdd(v) PROVE TypeOK'
  <2>0. UsizeSize \in Nat /\ UsizeSize >= 1
    BY UsizeHasValues
  <2>1. counter + 1 \in Nat /\ counter \in 0..UsizeSize
    BY CounterType
  <2>2. (counter + 1) % UsizeSize \in 0..UsizeSize - 1
    BY <2>0, <2>1, Remainder
  <2> QED BY <1>7, <2>1, <2>2 DEF FetchAdd, Runs
<1>8. ASSUME NEW v \in Visit, Render(v) PROVE TypeOK'
  BY <1>8 DEF Render, Runs
<1>9. ASSUME NEW v \in Visit, RenderErr(v) PROVE TypeOK'
  BY <1>9 DEF RenderErr, Runs
<1>10. ASSUME NEW v \in Visit, NEW p \in Port, Accept(v, p) PROVE TypeOK'
  BY <1>10 DEF Accept
<1>11. CASE UNCHANGED vars
  BY <1>11 DEF vars, visits
<1> QED BY <1>1, <1>2, <1>3, <1>4, <1>5, <1>6, <1>7, <1>8, <1>9, <1>10, <1>11 DEF Next, Main, Task

\* Only a visit that is counted gets a number, and it stays counted.
LEMMA NextNumberIsTakenOnce ==
  TypeOK /\ NumberIsTakenOnce /\ [Next]_vars => NumberIsTakenOnce'
<1> SUFFICES ASSUME TypeOK, NumberIsTakenOnce, [Next]_vars PROVE NumberIsTakenOnce'
  OBVIOUS
<1> USE DEF TypeOK, NumberIsTakenOnce, NoCount
<1>1. ASSUME Assets PROVE NumberIsTakenOnce'
  BY <1>1 DEF Assets, visits
<1>2. ASSUME PollPlain PROVE NumberIsTakenOnce'
  BY <1>2 DEF PollPlain, visits
<1>3. ASSUME PollTls PROVE NumberIsTakenOnce'
  BY <1>3 DEF PollTls, visits
<1>4. ASSUME DropFutures PROVE NumberIsTakenOnce'
  BY <1>4 DEF DropFutures, visits
<1>5. ASSUME ShutdownRuntime PROVE NumberIsTakenOnce'
  BY <1>5 DEF ShutdownRuntime
<1>6. ASSUME NEW p \in Port, AcceptErr(p) PROVE NumberIsTakenOnce'
  BY <1>6 DEF AcceptErr, visits
<1>7. ASSUME NEW v \in Visit, FetchAdd(v) PROVE NumberIsTakenOnce'
  BY <1>7 DEF FetchAdd, Runs
<1>8. ASSUME NEW v \in Visit, Render(v) PROVE NumberIsTakenOnce'
  BY <1>8 DEF Render, Runs
<1>9. ASSUME NEW v \in Visit, RenderErr(v) PROVE NumberIsTakenOnce'
  BY <1>9 DEF RenderErr, Runs
<1>10. ASSUME NEW v \in Visit, NEW p \in Port, Accept(v, p) PROVE NumberIsTakenOnce'
  BY <1>10 DEF Accept
<1>11. CASE UNCHANGED vars
  BY <1>11 DEF vars, visits
<1> QED BY <1>1, <1>2, <1>3, <1>4, <1>5, <1>6, <1>7, <1>8, <1>9, <1>10, <1>11 DEF Next, Main, Task

\* A step that counts no visit leaves the count as it is.
LEMMA CountKept ==
  ASSUME EachVisitCountsOnce, UNCHANGED <<counter, shown>>
  PROVE  EachVisitCountsOnce'
<1>1. Counted' = Counted
  BY DEF Counted, NoCount
<1> QED BY <1>1 DEF EachVisitCountsOnce

\* fetch_add counts a visit that was not counted, whose number is that of the
\* visits before it.
LEMMA FetchAddCounts ==
  ASSUME TypeOK, NumberIsTakenOnce, EachVisitCountsOnce, NEW v \in Visit, FetchAdd(v)
  PROVE  EachVisitCountsOnce'
<1> DEFINE n == Cardinality(Counted)
<1>0. UsizeSize \in Nat /\ UsizeSize >= 1 /\ n \in Nat
  BY UsizeHasValues, CountedFinite
<1>1. shown[v] = NoCount /\ shown' = [shown EXCEPT ![v] = counter]
  BY DEF FetchAdd, Runs, NumberIsTakenOnce
<1>2. shown \in [Visit -> 0..UsizeSize] /\ counter # NoCount
  BY CounterType
<1>3. v \notin Counted /\ Counted' = Counted \cup {v}
  BY <1>1, <1>2 DEF Counted, NoCount
<1>4. Cardinality(Counted)' = n + 1
  BY <1>3, CountedFinite, FS_AddElement
<1>5. counter' = Cardinality(Counted)' % UsizeSize
  <2>1. counter' = ((n % UsizeSize) + 1) % UsizeSize
    BY DEF FetchAdd, EachVisitCountsOnce
  <2> HIDE DEF n
  <2> QED BY <1>0, <1>4, <2>1, CountOn
<1>6. ASSUME n + 1 <= UsizeSize
      PROVE  \A w \in Counted' :
               /\ shown'[w] < n + 1
               /\ \A u \in Counted' : shown'[u] = shown'[w] => u = w
  <2>1. counter = n
    <3>1. n < UsizeSize
      BY <1>0, <1>6
    <3> QED BY <1>0, <3>1, NotWrapped DEF EachVisitCountsOnce
  <2>2. \A w \in Counted : /\ shown[w] < n
                          /\ \A u \in Counted : shown[u] = shown[w] => u = w
    <3>1. n <= UsizeSize
      BY <1>0, <1>6
    <3> QED BY <3>1 DEF EachVisitCountsOnce
  <2>3. \A w \in Counted : w \in Visit /\ shown'[w] = shown[w] /\ shown[w] \in Nat
    BY <1>1, <1>2, <1>3 DEF Counted
  <2>4. shown'[v] = n
    BY <1>1, <1>2, <2>1
  <2> HIDE DEF n
  <2> QED BY <1>0, <1>3, <2>2, <2>3, <2>4
<1> HIDE DEF n
<1>7. Cardinality(Counted') = n + 1
  BY <1>4
<1> QED BY <1>5, <1>6, <1>7 DEF EachVisitCountsOnce

\* However visits overlap, each is counted once.
LEMMA NextEachVisitCountsOnce ==
  TypeOK /\ NumberIsTakenOnce /\ EachVisitCountsOnce /\ [Next]_vars => EachVisitCountsOnce'
<1> SUFFICES ASSUME TypeOK, NumberIsTakenOnce, EachVisitCountsOnce, [Next]_vars
             PROVE  EachVisitCountsOnce'
  OBVIOUS
<1>1. CASE \E v \in Visit : FetchAdd(v)
  BY <1>1, FetchAddCounts
<1>2. CASE ~ \E v \in Visit : FetchAdd(v)
  <2>1. UNCHANGED <<counter, shown>>
    BY <1>2 DEF Next, Main, Task, Assets, PollPlain, PollTls, DropFutures, ShutdownRuntime,
                AcceptErr, Accept, Render, RenderErr, vars, visits
  <2> QED BY <2>1, CountKept
<1> QED BY <1>1, <1>2

\* main waits only for two servers that listen.
LEMMA NextBothPortsOrNone ==
  TypeOK /\ PlainIsFirst /\ BothPortsOrNone /\ [Next]_vars
    => PlainIsFirst' /\ BothPortsOrNone'
<1> SUFFICES ASSUME TypeOK, PlainIsFirst, BothPortsOrNone, [Next]_vars
             PROVE  PlainIsFirst' /\ BothPortsOrNone'
  OBVIOUS
<1>0. assets' = assets => (TlsConfigBuilds' <=> TlsConfigBuilds)
  BY DEF TlsConfigBuilds
<1> USE <1>0 DEF TypeOK, PlainIsFirst, BothPortsOrNone, Port
<1>1. ASSUME Assets PROVE PlainIsFirst' /\ BothPortsOrNone'
  BY <1>1 DEF Assets, Leave
<1>2. ASSUME PollPlain PROVE PlainIsFirst' /\ BothPortsOrNone'
  BY <1>2 DEF PollPlain, Leave
<1>3. ASSUME PollTls PROVE PlainIsFirst' /\ BothPortsOrNone'
  BY <1>3 DEF PollTls, Leave
<1>4. ASSUME DropFutures PROVE PlainIsFirst' /\ BothPortsOrNone'
  BY <1>4 DEF DropFutures
<1>5. ASSUME ShutdownRuntime PROVE PlainIsFirst' /\ BothPortsOrNone'
  BY <1>5 DEF ShutdownRuntime
<1>6. ASSUME NEW p \in Port, AcceptErr(p) PROVE PlainIsFirst' /\ BothPortsOrNone'
  BY <1>6 DEF AcceptErr, Leave
<1>7. ASSUME NEW v \in Visit, FetchAdd(v) PROVE PlainIsFirst' /\ BothPortsOrNone'
  BY <1>7 DEF FetchAdd
<1>8. ASSUME NEW v \in Visit, Render(v) PROVE PlainIsFirst' /\ BothPortsOrNone'
  BY <1>8 DEF Render
<1>9. ASSUME NEW v \in Visit, RenderErr(v) PROVE PlainIsFirst' /\ BothPortsOrNone'
  BY <1>9 DEF RenderErr
<1>10. ASSUME NEW v \in Visit, NEW p \in Port, Accept(v, p) PROVE PlainIsFirst' /\ BothPortsOrNone'
  BY <1>10 DEF Accept
<1>11. CASE UNCHANGED vars
  BY <1>11 DEF vars
<1> QED BY <1>1, <1>2, <1>3, <1>4, <1>5, <1>6, <1>7, <1>8, <1>9, <1>10, <1>11 DEF Next, Main, Task

\* The invariant is inductive.
LEMMA NextIInv == IInv /\ [Next]_vars => IInv'
BY NextTypeOK, NextNumberIsTakenOnce, NextEachVisitCountsOnce, NextBothPortsOrNone DEF IInv

\* The invariant holds throughout.
LEMMA Invariant == Spec => []IInv
BY InitIInv, NextIInv, PTL DEF Spec

\* Every variable keeps its type.
THEOREM TypeCorrect == Spec => []TypeOK
<1>1. IInv => TypeOK
  BY DEF IInv
<1> QED BY <1>1, Invariant, PTL

\* The counter of MyApp counts every visit of both ports once, and until a usize
\* wraps around the numbers on the pages are those from 0 on, each on one page.
THEOREM NoVisitIsLost == Spec => []EachVisitCountsOnce
<1>1. IInv => EachVisitCountsOnce
  BY DEF IInv
<1> QED BY <1>1, Invariant, PTL

\* main waits for both servers or for none, and only a configuration that builds
\* leads to a TLS port.
THEOREM BothOrNone == Spec => []BothPortsOrNone
<1>1. IInv => BothPortsOrNone
  BY DEF IInv
<1> QED BY <1>1, Invariant, PTL
=============================================================================
