------------------------- MODULE HyperServerProofs -------------------------
(***************************************************************************)
(* Proofs about HyperServer, for any number of connections and requests.   *)
(***************************************************************************)
EXTENDS HyperServer, SequenceTheorems, TLAPS

\* The codes in the log are those of the pages that show them: an entry is
\* written in the step that answers its request with its code, no request is
\* answered twice, and no code is drawn twice.
LogMatchesPages ==
  /\ \A e \in log : /\ answer[e.request] = "error page"
                    /\ code[e.request] = e.code
                    /\ pc[e.request] = "answered"
  /\ \A q \in Request : answer[q] = "error page" =>
       [code |-> code[q], request |-> q] \in log
  /\ \A e, f \in log : e.code = f.code => e = f

\* A future is suspended on a connection, or a body sent there, and that
\* connection is open.
SuspendedOnOpen ==
  \A q \in Request : pc[q] \in Suspended \/ body[q] \in Unsent => on[q] \in Conn /\ phase[on[q]] = "open"

\* The future of a request waits for what its kind calls for.
WaitsForItsKind ==
  \A q \in Request :
    /\ pc[q] = "dispatch" => kind[q] = "match"
    /\ pc[q] = "not_found" => kind[q] = "missing"
    /\ pc[q] = "grpc" => kind[q] = "grpc"

\* What is queued for the accept loop of a port was made to that port, once,
\* and waits.
QueuedOnce ==
  \A p \in Port : \A i \in 1..Len(backlog[p]) :
    /\ phase[backlog[p][i]] = "backlog" /\ PortOf(backlog[p][i]) = p
    /\ \A j \in 1..Len(backlog[p]) : backlog[p][i] = backlog[p][j] => i = j

IInv ==
  TypeOK /\ LogMatchesPages /\ SuspendedOnOpen /\ WaitsForItsKind /\ QueuedOnce

\* What queues are made of.
LEMMA QueueElement ==
  ASSUME NEW S, NEW s \in Seq(S), NEW i \in 1..Len(s)
  PROVE  s[i] \in S
OBVIOUS

LEMMA QueueAppend ==
  ASSUME NEW S, NEW s \in Seq(S), NEW x \in S
  PROVE  /\ Append(s, x) \in Seq(S) /\ Len(s) \in Nat
         /\ Len(Append(s, x)) = Len(s) + 1 /\ Append(s, x)[Len(s) + 1] = x
         /\ \A i \in 1..Len(s) : Append(s, x)[i] = s[i]
OBVIOUS

LEMMA QueueTail ==
  ASSUME NEW S, NEW s \in Seq(S), s # <<>>
  PROVE  /\ Tail(s) \in Seq(S) /\ Len(s) \in Nat /\ Head(s) = s[1] /\ 1 \in 1..Len(s)
         /\ Head(s) \in S /\ Len(Tail(s)) = Len(s) - 1
         /\ \A i \in 1..Len(Tail(s)) : Tail(s)[i] = s[i + 1] /\ i + 1 \in 1..Len(s)
OBVIOUS

LEMMA BacklogTypes ==
  ASSUME TypeOK
  PROVE  \A p \in Port : backlog[p] \in Seq(Conn)
BY Zenon DEF TypeOK

LEMMA QueuedConn ==
  ASSUME TypeOK
  PROVE  \A p \in Port : \A i \in 1..Len(backlog[p]) : backlog[p][i] \in Conn
BY BacklogTypes, QueueElement

\* A server without connections satisfies the invariant.
LEMMA InitIInv == Init => IInv
<1> SUFFICES ASSUME Init PROVE IInv
  OBVIOUS
<1> USE DEF Init
<1>0. backlog \in [Port -> Seq(Conn)]
  <2>1. <<>> \in Seq(Conn)
    BY EmptySeq
  <2> QED BY <2>1, Zenon
<1>1. TypeOK
  BY <1>0 DEF TypeOK
<1>2. LogMatchesPages
  BY DEF LogMatchesPages
<1>3. SuspendedOnOpen
  BY DEF SuspendedOnOpen, Suspended, Unsent
<1>4. WaitsForItsKind
  BY DEF WaitsForItsKind
<1>5. QueuedOnce
  <2>1. \A p \in Port : Len(backlog[p]) = 0
    <3>1. \A p \in Port : backlog[p] = <<>>
      BY Zenon
    <3> QED BY ONLY <3>1
  <2> QED BY ONLY <2>1 DEF QueuedOnce
<1> QED BY <1>1, <1>2, <1>3, <1>4, <1>5 DEF IInv

\* Types are kept by every step.
LEMMA NextTypeOK == TypeOK /\ SuspendedOnOpen /\ [Next]_vars => TypeOK'
<1> SUFFICES ASSUME TypeOK, SuspendedOnOpen, [Next]_vars PROVE TypeOK'
  OBVIOUS
<1> USE DEF TypeOK, Suspended, Unsent
<1>1. ASSUME NEW c \in Conn, Connect(c) PROVE TypeOK'
  <2>1. PortOf(c) \in Port /\ backlog[PortOf(c)] \in Seq(Conn)
    BY DEF PortOf, Port
  <2>2. Append(backlog[PortOf(c)], c) \in Seq(Conn)
    BY ONLY <2>1, QueueAppend
  <2>3. backlog' \in [Port -> Seq(Conn)]
    BY <1>1, <2>1, <2>2 DEF Connect
  <2> QED BY <1>1, <2>3 DEF Connect, requestVars
<1>2. ASSUME NEW p \in Port, PollAccept(p) \/ PollAcceptEnds(p) PROVE TypeOK'
  <2>1. CASE PollAccept(p)
    <3>1. backlog[p] \in Seq(Conn) /\ backlog[p] # <<>>
      BY <2>1 DEF PollAccept
    <3>2. Tail(backlog[p]) \in Seq(Conn)
      BY ONLY <3>1, QueueTail
    <3>3. backlog' \in [Port -> Seq(Conn)]
      BY <2>1, <3>2 DEF PollAccept
    <3> QED BY <2>1, <3>3 DEF PollAccept, requestVars
  <2>2. CASE PollAcceptEnds(p)
    <3>1. <<>> \in Seq(Conn)
      BY EmptySeq
    <3>2. backlog' \in [Port -> Seq(Conn)] /\ listening' \in [Port -> BOOLEAN]
      BY <2>2, <3>1 DEF PollAcceptEnds
    <3> QED BY <2>2, <3>2 DEF PollAcceptEnds, requestVars
  <2> QED BY <1>2, <2>1, <2>2
<1>3. ASSUME NEW c \in Conn, Handshake(c) PROVE TypeOK'
  BY <1>3 DEF Handshake, requestVars, portVars
<1>4. ASSUME NEW c \in Conn, End(c) PROVE TypeOK'
  BY <1>4 DEF End, Active, Sending, portVars
<1>5. ASSUME NEW c \in Conn, Disconnect(c) PROVE TypeOK'
  BY <1>4, <1>5 DEF Disconnect
<1>6. ASSUME NEW q \in Request, NEW c \in Conn, Call(q, c) PROVE TypeOK'
  BY <1>6 DEF Call, connVars, portVars
<1>7. ASSUME NEW q \in Request, pc[q] \in Suspended, Break(q) PROVE TypeOK'
  <2>1. on[q] \in Conn
    BY <1>7 DEF SuspendedOnOpen
  <2>2. CASE End(on[q])
    BY <1>4, <2>1, <2>2
  <2>3. CASE /\ pc' = [pc EXCEPT ![q] = "dropped"]
             /\ UNCHANGED <<portVars, connVars, on, kind, answer, body, code, log>>
    BY <2>3 DEF connVars, portVars
  <2> QED BY <1>7, <2>2, <2>3 DEF Break
<1>8. ASSUME NEW q \in Request, ErrorPage(q) PROVE TypeOK'
  <2>1. PICK u \in Uuid : /\ log' = log \cup {[code |-> u, request |-> q]}
                          /\ code' = [code EXCEPT ![q] = u]
    BY <1>8 DEF ErrorPage, FreshUuid
  <2>2. log' \subseteq [code : Uuid, request : Request]
    <3>1. [code |-> u, request |-> q] \in [code : Uuid, request : Request]
      OBVIOUS
    <3>2. log \subseteq [code : Uuid, request : Request]
      OBVIOUS
    <3> QED BY ONLY <2>1, <3>1, <3>2, Zenon
  <2>3. code' \in [Request -> Uuid \cup {"none"}]
    BY <2>1
  <2> QED BY <1>8, <2>2, <2>3 DEF ErrorPage, Resolve, connVars, portVars, Answer
<1>9. ASSUME NEW q \in Request, Helper(q) PROVE TypeOK'
  <2>1. CASE CallGrpc(q)
    BY <2>1 DEF CallGrpc, connVars, portVars
  <2>2. CASE CallDispatch(q)
    BY <2>2 DEF CallDispatch, connVars, portVars
  <2>3. CASE CallNotFound(q)
    BY <2>3 DEF CallNotFound, connVars, portVars
  <2>4. CASE RedirectTemporary(q)
    BY <2>4 DEF RedirectTemporary, Resolve, connVars, portVars, Answer
  <2>5. CASE ExpectPanics(q)
    BY <1>7, <2>5 DEF ExpectPanics
  <2>6. CASE RedirectErr(q)
    BY <1>8, <2>6 DEF RedirectErr
  <2> QED BY <1>9, <2>1, <2>2, <2>3, <2>4, <2>5, <2>6 DEF Helper
<1>10. ASSUME NEW q \in Request, Finish(q) PROVE TypeOK'
  <2>1. CASE DispatchOk(q)
    BY <2>1 DEF DispatchOk, Resolve, connVars, portVars, Answer
  <2>2. CASE DispatchErr(q)
    BY <1>8, <2>2 DEF DispatchErr
  <2>3. CASE GrpcOk(q)
    BY <2>3 DEF GrpcOk, Resolve, connVars, portVars, Answer
  <2>4. CASE GrpcErr(q) \/ DispatchPanics(q)
    BY <1>7, <2>4 DEF GrpcErr, DispatchPanics
  <2> QED BY <1>10, <2>1, <2>2, <2>3, <2>4 DEF Finish
<1>11. ASSUME NEW q \in Request, SendBody(q) PROVE TypeOK'
  <2>1. CASE PollDataNone(q) \/ PollTrailers(q)
    BY <2>1 DEF PollDataNone, PollTrailers, connVars, portVars
  <2>2. CASE BodyErr(q)
    <3>1. CASE End(on[q])
      BY <1>4, <2>2, <3>1 DEF BodyErr, SuspendedOnOpen
    <3>2. CASE /\ body' = [body EXCEPT ![q] = "cut"]
               /\ UNCHANGED <<portVars, connVars, pc, on, kind, answer, code, log>>
      BY <3>2 DEF connVars, portVars
    <3> QED BY <2>2, <3>1, <3>2 DEF BodyErr
  <2> QED BY <1>11, <2>1, <2>2 DEF SendBody
<1>12. CASE UNCHANGED vars
  BY <1>12 DEF vars
<1> QED
  BY <1>1, <1>2, <1>3, <1>5, <1>6, <1>9, <1>10, <1>11, <1>12 DEF Next

\* A step that touches neither pages nor log, and takes no answer back, leaves
\* them matching.
LEMMA LogUntouched ==
  ASSUME LogMatchesPages, log \subseteq [code : Uuid, request : Request],
         UNCHANGED <<answer, code, log>>,
         \A q \in Request : pc[q] = "answered" => pc'[q] = "answered"
  PROVE  LogMatchesPages'
BY DEF LogMatchesPages

\* Answering a waiting request with anything but an error page leaves them
\* matching too: no entry of the log is about it.
LEMMA OtherAnswer ==
  ASSUME TypeOK, LogMatchesPages,
         NEW q \in Request, pc[q] \in Suspended,
         NEW a \in Answer, a # "error page",
         Resolve(q, a), UNCHANGED <<code, log>>
  PROVE  LogMatchesPages'
<1>1. \A e \in log : e.request # q /\ e.request \in Request
  BY DEF TypeOK, LogMatchesPages, Suspended
<1>2. \A r \in Request : r # q => answer'[r] = answer[r] /\ pc'[r] = pc[r]
  BY DEF Resolve, TypeOK
<1>3. answer'[q] = a
  BY DEF Resolve, TypeOK
<1> QED BY <1>1, <1>2, <1>3 DEF LogMatchesPages

\* Pages and log match after every step.
LEMMA NextLog == IInv /\ [Next]_vars => LogMatchesPages'
<1> SUFFICES ASSUME TypeOK, LogMatchesPages, SuspendedOnOpen, [Next]_vars
             PROVE  LogMatchesPages'
  BY DEF IInv
<1>0. log \subseteq [code : Uuid, request : Request]
  BY DEF TypeOK
<1>1. CASE UNCHANGED <<requestVars, log>>
  BY <1>0, <1>1, LogUntouched DEF requestVars
<1>2. ASSUME NEW c \in Conn, End(c) PROVE LogMatchesPages'
  <2>1. \A q \in Request : pc[q] = "answered" => pc'[q] = "answered"
    BY <1>2 DEF End, Active, Suspended
  <2> QED BY <1>0, <1>2, <2>1, LogUntouched DEF End
<1>3. ASSUME NEW q \in Request, NEW c \in Conn, Call(q, c) PROVE LogMatchesPages'
  <2>1. \A r \in Request : pc[r] = "answered" => pc'[r] = "answered"
    BY <1>3 DEF Call, TypeOK
  <2> QED BY <1>0, <1>3, <2>1, LogUntouched DEF Call
<1>4. ASSUME NEW q \in Request, pc[q] \in Suspended, Break(q) PROVE LogMatchesPages'
  <2>1. CASE End(on[q])
    BY <1>2, <1>4, <2>1 DEF SuspendedOnOpen
  <2>2. CASE /\ pc' = [pc EXCEPT ![q] = "dropped"]
             /\ UNCHANGED <<portVars, connVars, on, kind, answer, body, code, log>>
    <3>1. \A r \in Request : pc[r] = "answered" => pc'[r] = "answered"
      BY <1>4, <2>2 DEF TypeOK, Suspended
    <3> QED BY <1>0, <2>2, <3>1, LogUntouched
  <2> QED BY <1>4, <2>1, <2>2 DEF Break
<1>5. ASSUME NEW q \in Request, pc[q] \in Suspended, ErrorPage(q) PROVE LogMatchesPages'
  <2>1. PICK u \in FreshUuid : /\ log' = log \cup {[code |-> u, request |-> q]}
                               /\ code' = [code EXCEPT ![q] = u]
    BY <1>5 DEF ErrorPage
  <2>2. \A e \in log : e.request # q /\ e.request \in Request /\ e.code # u
    BY <1>5, <2>1 DEF TypeOK, LogMatchesPages, Suspended, FreshUuid
  <2>3. /\ answer'[q] = "error page" /\ code'[q] = u /\ pc'[q] = "answered"
        /\ \A r \in Request : r # q =>
             answer'[r] = answer[r] /\ code'[r] = code[r] /\ pc'[r] = pc[r]
    BY <1>5, <2>1 DEF ErrorPage, Resolve, TypeOK
  <2>4. \A e : e \in log' <=> e \in log \/ e = [code |-> u, request |-> q]
    BY <2>1
  <2>5. ASSUME NEW e \in log'
        PROVE  /\ answer'[e.request] = "error page"
               /\ code'[e.request] = e.code
               /\ pc'[e.request] = "answered"
    <3>1. CASE e \in log
      <4>1. /\ answer[e.request] = "error page" /\ code[e.request] = e.code
            /\ pc[e.request] = "answered"
        BY <3>1 DEF LogMatchesPages
      <4> QED BY <2>2, <2>3, <3>1, <4>1
    <3>2. CASE e = [code |-> u, request |-> q]
      BY <2>3, <3>2
    <3> QED BY <2>4, <3>1, <3>2
  <2>6. ASSUME NEW r \in Request, answer'[r] = "error page"
        PROVE  [code |-> code'[r], request |-> r] \in log'
    <3>1. CASE r = q
      <4>1. [code |-> code'[r], request |-> r] = [code |-> u, request |-> q]
        BY <2>3, <3>1
      <4> QED BY <2>4, <4>1, Zenon
    <3>2. CASE r # q
      <4>1. [code |-> code[r], request |-> r] \in log
        BY <2>3, <2>6, <3>2 DEF LogMatchesPages
      <4>2. code'[r] = code[r]
        BY <2>3, <3>2
      <4>3. [code |-> code'[r], request |-> r] \in log
        BY <4>1, <4>2
      <4> QED BY <2>4, <4>3, Zenon
    <3> QED BY <3>1, <3>2
  <2>7. ASSUME NEW e \in log', NEW f \in log', e.code = f.code PROVE e = f
    <3>1. CASE e \in log /\ f \in log
      BY <2>7, <3>1 DEF LogMatchesPages
    <3>2. CASE e \notin log \/ f \notin log
      BY <2>2, <2>4, <2>7, <3>2
    <3> QED BY <3>1, <3>2
  <2> QED BY <2>5, <2>6, <2>7 DEF LogMatchesPages
<1>6. ASSUME NEW q \in Request, Helper(q) PROVE LogMatchesPages'
  <2>1. CASE CallGrpc(q) \/ CallDispatch(q) \/ CallNotFound(q)
    <3>1. \A r \in Request : pc[r] = "answered" => pc'[r] = "answered"
      BY <2>1 DEF CallGrpc, CallDispatch, CallNotFound, TypeOK
    <3> QED
      BY <1>0, <2>1, <3>1, LogUntouched DEF CallGrpc, CallDispatch, CallNotFound
  <2>2. CASE RedirectTemporary(q)
    BY <2>2, OtherAnswer DEF RedirectTemporary, Answer, Suspended
  <2>3. CASE ExpectPanics(q)
    BY <1>4, <2>3 DEF ExpectPanics, Suspended
  <2>4. CASE RedirectErr(q)
    BY <1>5, <2>4 DEF RedirectErr, Suspended
  <2> QED BY <1>6, <2>1, <2>2, <2>3, <2>4 DEF Helper
<1>7. ASSUME NEW q \in Request, Finish(q) PROVE LogMatchesPages'
  <2>1. CASE DispatchOk(q)
    BY <2>1, OtherAnswer DEF DispatchOk, Answer, Suspended
  <2>2. CASE GrpcOk(q)
    BY <2>2, OtherAnswer DEF GrpcOk, Answer, Suspended
  <2>3. CASE GrpcErr(q) \/ DispatchPanics(q)
    BY <1>4, <2>3 DEF GrpcErr, DispatchPanics, Suspended
  <2>4. CASE DispatchErr(q)
    BY <1>5, <2>4 DEF DispatchErr, Suspended
  <2> QED BY <1>7, <2>1, <2>2, <2>3, <2>4 DEF Finish
<1>8. ASSUME NEW q \in Request, SendBody(q) PROVE LogMatchesPages'
  <2>1. CASE UNCHANGED <<pc, answer, code, log>>
    BY <1>0, <2>1, LogUntouched
  <2>2. CASE End(on[q]) /\ body[q] \in Unsent
    BY <1>2, <2>2 DEF SuspendedOnOpen
  <2> QED BY <1>8, <2>1, <2>2 DEF SendBody, PollDataNone, PollTrailers, BodyErr
<1>9. CASE UNCHANGED vars
  BY <1>0, <1>9, LogUntouched DEF vars
<1> QED
  BY <1>1, <1>2, <1>3, <1>6, <1>7, <1>8, <1>9
     DEF Next, Connect, PollAccept, PollAcceptEnds, Handshake, Disconnect

\* The end of a connection leaves no future and no body behind on it, and no
\* other connection is touched.
LEMMA EndKeepsOpen ==
  ASSUME TypeOK, SuspendedOnOpen, NEW c \in Conn, End(c)
  PROVE  SuspendedOnOpen'
BY DEF End, Active, Sending, SuspendedOnOpen, TypeOK, Suspended, Unsent

\* Futures stay where they are when no connection closes and none is added
\* but on an open connection.
LEMMA StayOpen ==
  ASSUME SuspendedOnOpen,
         \A q \in Request : pc'[q] \in Suspended \/ body'[q] \in Unsent =>
           \/ (pc[q] \in Suspended \/ body[q] \in Unsent) /\ on'[q] = on[q]
           \/ on'[q] \in Conn /\ phase[on'[q]] = "open",
         \A c \in Conn : phase[c] = "open" => phase'[c] = "open"
  PROVE  SuspendedOnOpen'
BY DEF SuspendedOnOpen

\* Futures are suspended on open connections after every step.
LEMMA NextOpen == IInv /\ [Next]_vars => SuspendedOnOpen'
<1> SUFFICES ASSUME TypeOK, SuspendedOnOpen, QueuedOnce, [Next]_vars
             PROVE  SuspendedOnOpen'
  BY DEF IInv
<1>1. ASSUME UNCHANGED requestVars, \A c \in Conn : phase[c] = "open" => phase'[c] = "open"
      PROVE  SuspendedOnOpen'
  BY <1>1, StayOpen DEF requestVars
<1>2. ASSUME NEW c \in Conn, Connect(c) \/ Handshake(c) PROVE SuspendedOnOpen'
  BY <1>1, <1>2 DEF Connect, Handshake, TypeOK
<1>3. ASSUME NEW p \in Port, PollAccept(p) \/ PollAcceptEnds(p) PROVE SuspendedOnOpen'
  <2>1. CASE PollAccept(p)
    <3>1. Head(backlog[p]) = backlog[p][1] /\ 1 \in 1..Len(backlog[p])
      BY <2>1, BacklogTypes, QueueTail DEF PollAccept
    <3>2. phase[Head(backlog[p])] # "open"
      BY <3>1 DEF QueuedOnce
    <3> QED BY <1>1, <2>1, <3>2 DEF PollAccept, TypeOK
  <2>2. CASE PollAcceptEnds(p)
    BY <1>1, <2>2 DEF PollAcceptEnds
  <2> QED BY <1>3, <2>1, <2>2
<1>4. ASSUME NEW c \in Conn, Disconnect(c) PROVE SuspendedOnOpen'
  BY <1>4, EndKeepsOpen DEF Disconnect
<1>5. ASSUME NEW q \in Request, NEW c \in Conn, Call(q, c) PROVE SuspendedOnOpen'
  BY <1>5, StayOpen DEF Call, connVars, TypeOK
<1>6. ASSUME NEW q \in Request, pc[q] \in Suspended, Break(q) PROVE SuspendedOnOpen'
  <2>1. CASE End(on[q])
    BY <1>6, <2>1, EndKeepsOpen DEF SuspendedOnOpen
  <2>2. CASE /\ pc' = [pc EXCEPT ![q] = "dropped"]
             /\ UNCHANGED <<portVars, connVars, on, kind, answer, body, code, log>>
    BY <2>2, StayOpen DEF connVars, TypeOK, Suspended
  <2> QED BY <1>6, <2>1, <2>2 DEF Break
<1>7. ASSUME NEW q \in Request, pc[q] \in Suspended, NEW a, Resolve(q, a)
      PROVE  SuspendedOnOpen'
  BY <1>7, StayOpen DEF Resolve, connVars, TypeOK, Suspended, Unsent
<1>8. ASSUME NEW q \in Request, Helper(q) PROVE SuspendedOnOpen'
  <2>1. CASE CallGrpc(q) \/ CallDispatch(q) \/ CallNotFound(q)
    BY <2>1, StayOpen DEF CallGrpc, CallDispatch, CallNotFound, connVars, TypeOK, Suspended
  <2>2. CASE RedirectTemporary(q) \/ RedirectErr(q)
    BY <1>7, <2>2 DEF RedirectTemporary, RedirectErr, ErrorPage, Suspended
  <2>3. CASE ExpectPanics(q)
    BY <1>6, <2>3 DEF ExpectPanics, Suspended
  <2> QED BY <1>8, <2>1, <2>2, <2>3 DEF Helper
<1>9. ASSUME NEW q \in Request, Finish(q) PROVE SuspendedOnOpen'
  BY <1>6, <1>7, <1>9 DEF Finish, DispatchOk, DispatchErr, DispatchPanics, ErrorPage, GrpcOk, GrpcErr,
                                Suspended
<1>10. ASSUME NEW q \in Request, SendBody(q) PROVE SuspendedOnOpen'
  <2>1. CASE body[q] \in Unsent /\ End(on[q])
    BY <2>1, EndKeepsOpen DEF SuspendedOnOpen
  <2>2. CASE /\ body[q] \in Unsent /\ UNCHANGED <<phase, pc, on>>
             /\ \A r \in Request : r # q => body'[r] = body[r]
    BY <2>2, StayOpen
  <2> QED
    BY <1>10, <2>1, <2>2
       DEF SendBody, PollDataNone, PollTrailers, BodyErr, connVars, TypeOK, Unsent
<1>11. CASE UNCHANGED vars
  BY <1>11, StayOpen DEF vars
<1> QED
  BY <1>2, <1>3, <1>4, <1>5, <1>8, <1>9, <1>10, <1>11 DEF Next

\* A future waits for what its kind calls for after every step.
LEMMA NextWaits == IInv /\ [Next]_vars => WaitsForItsKind'
<1> SUFFICES ASSUME TypeOK, WaitsForItsKind, [Next]_vars PROVE WaitsForItsKind'
  BY DEF IInv
<1>1. kind' = kind
  BY DEF Next, Connect, PollAccept, PollAcceptEnds, Handshake, Disconnect, Call, Helper,
         Finish, CallGrpc, CallDispatch, CallNotFound, RedirectTemporary, RedirectErr,
         ExpectPanics, DispatchOk, DispatchErr, DispatchPanics, ErrorPage, GrpcOk, GrpcErr,
         Resolve, Break, End,
         SendBody, PollDataNone, PollTrailers, BodyErr, requestVars, vars
<1> DEFINE Waits(q) == \/ pc'[q] \notin {"dispatch", "not_found", "grpc"}
                       \/ pc'[q] = pc[q]
                       \/ pc'[q] = "dispatch" /\ kind[q] = "match"
                       \/ pc'[q] = "not_found" /\ kind[q] = "missing"
                       \/ pc'[q] = "grpc" /\ kind[q] = "grpc"
<1>2. ASSUME NEW c \in Conn, End(c) PROVE \A q \in Request : Waits(q)
  BY <1>2 DEF End
<1>3. ASSUME NEW r \in Request, Break(r), NEW q \in Request PROVE Waits(q)
  <2>1. CASE End(on[r])
    BY <2>1 DEF End
  <2>2. CASE pc' = [pc EXCEPT ![r] = "dropped"]
    BY <2>2 DEF TypeOK
  <2> QED BY <1>3, <2>1, <2>2 DEF Break
<1>4. ASSUME NEW r \in Request, Helper(r), NEW q \in Request PROVE Waits(q)
  BY <1>3, <1>4 DEF Helper, CallGrpc, CallDispatch, CallNotFound, RedirectTemporary,
                    RedirectErr, ErrorPage, ExpectPanics, Resolve, TypeOK
<1>5. ASSUME NEW r \in Request, Finish(r), NEW q \in Request PROVE Waits(q)
  BY <1>3, <1>5 DEF Finish, DispatchOk, DispatchErr, DispatchPanics, ErrorPage, GrpcOk,
                    GrpcErr, Resolve, TypeOK
<1>6. ASSUME NEW r \in Request, NEW c \in Conn, Call(r, c), NEW q \in Request
      PROVE  Waits(q)
  BY <1>6 DEF Call, TypeOK
<1>7. ASSUME UNCHANGED pc, NEW q \in Request PROVE Waits(q)
  BY <1>7
<1>8. ASSUME NEW r \in Request, SendBody(r), NEW q \in Request PROVE Waits(q)
  BY <1>8 DEF SendBody, PollDataNone, PollTrailers, BodyErr, End
<1>9. \A q \in Request : Waits(q)
  BY <1>2, <1>4, <1>5, <1>6, <1>7, <1>8
     DEF Next, Connect, PollAccept, PollAcceptEnds, Handshake, Disconnect, requestVars, vars
<1> QED BY <1>1, <1>9 DEF WaitsForItsKind

\* Queues keep their order, and hold what waits in them, after every step.
LEMMA NextQueued == IInv /\ [Next]_vars => QueuedOnce'
<1> SUFFICES ASSUME TypeOK, SuspendedOnOpen, QueuedOnce, [Next]_vars PROVE QueuedOnce'
  BY DEF IInv
<1>1. ASSUME UNCHANGED backlog, \A c \in Conn : phase[c] = "backlog" => phase'[c] = "backlog"
      PROVE  QueuedOnce'
  BY <1>1, QueuedConn DEF QueuedOnce
<1>2. ASSUME NEW c \in Conn, phase[c] \in {"handshaking", "open"}, End(c) PROVE QueuedOnce'
  BY <1>1, <1>2 DEF End, portVars, TypeOK
<1>3. ASSUME NEW c \in Conn, Handshake(c) PROVE QueuedOnce'
  BY <1>1, <1>3 DEF Handshake, portVars, TypeOK
<1>4. ASSUME NEW q \in Request, pc[q] \in Suspended, Break(q) PROVE QueuedOnce'
  <2>1. CASE End(on[q])
    BY <1>2, <1>4, <2>1 DEF SuspendedOnOpen
  <2>2. CASE UNCHANGED <<portVars, connVars>>
    BY <1>1, <2>2 DEF portVars, connVars
  <2> QED BY <1>4, <2>1, <2>2 DEF Break
<1>5. CASE UNCHANGED <<portVars, connVars>>
  BY <1>1, <1>5 DEF portVars, connVars
<1>6. ASSUME NEW q \in Request, Helper(q) PROVE QueuedOnce'
  <2>1. CASE ExpectPanics(q)
    BY <1>4, <2>1 DEF ExpectPanics, Suspended
  <2>2. CASE UNCHANGED <<portVars, connVars>>
    BY <1>5, <2>2
  <2> QED BY <1>6, <2>1, <2>2
             DEF Helper, CallGrpc, CallDispatch, CallNotFound, RedirectTemporary,
                 RedirectErr, ErrorPage, Resolve
<1>7. ASSUME NEW q \in Request, Finish(q) PROVE QueuedOnce'
  <2>1. CASE DispatchPanics(q) \/ GrpcErr(q)
    BY <1>4, <2>1 DEF DispatchPanics, GrpcErr, Suspended
  <2>2. CASE UNCHANGED <<portVars, connVars>>
    BY <1>5, <2>2
  <2> QED BY <1>7, <2>1, <2>2 DEF Finish, DispatchOk, DispatchErr, ErrorPage, GrpcOk, Resolve
<1>8. ASSUME NEW q \in Request, SendBody(q) PROVE QueuedOnce'
  <2>1. CASE body[q] \in Unsent /\ End(on[q])
    BY <1>2, <2>1 DEF SuspendedOnOpen
  <2>2. CASE UNCHANGED <<portVars, connVars>>
    BY <1>5, <2>2
  <2> QED BY <1>8, <2>1, <2>2 DEF SendBody, PollDataNone, PollTrailers, BodyErr
<1>9. ASSUME NEW c \in Conn, Connect(c) PROVE QueuedOnce'
  <2> DEFINE old == backlog[PortOf(c)]
             new == Append(old, c)
  <2>1. PortOf(c) \in Port /\ old \in Seq(Conn)
    BY BacklogTypes DEF PortOf, Port
  <2>2. /\ Len(new) = Len(old) + 1 /\ new[Len(old) + 1] = c /\ Len(old) \in Nat
        /\ \A i \in 1..Len(old) : new[i] = old[i]
    BY ONLY <2>1, QueueAppend
  <2>3. \A p \in Port : backlog'[p] = IF p = PortOf(c) THEN new ELSE backlog[p]
    BY <1>9, <2>1 DEF Connect, TypeOK
  <2>4. ASSUME NEW p \in Port, NEW i \in 1..Len(backlog[p])
        PROVE  backlog[p][i] # c /\ phase'[backlog[p][i]] = "backlog"
    <3>1. phase[backlog[p][i]] = "backlog" /\ backlog[p][i] \in Conn
      BY QueuedConn DEF QueuedOnce
    <3> QED BY <1>9, <3>1 DEF Connect, TypeOK
  <2>5. phase'[c] = "backlog"
    BY <1>9 DEF Connect, TypeOK
  <2> HIDE DEF new
  <2>6. ASSUME NEW p \in Port, p # PortOf(c) PROVE
          \A i \in 1..Len(backlog'[p]) :
            /\ phase'[backlog'[p][i]] = "backlog" /\ PortOf(backlog'[p][i]) = p
            /\ \A j \in 1..Len(backlog'[p]) : backlog'[p][i] = backlog'[p][j] => i = j
    BY <2>3, <2>4, <2>6 DEF QueuedOnce
  <2>7. ASSUME NEW i \in 1..Len(new)
        PROVE  /\ phase'[new[i]] = "backlog" /\ PortOf(new[i]) = PortOf(c)
               /\ \A j \in 1..Len(new) : new[i] = new[j] => i = j
    <3>1. \A k \in 1..Len(new) : k \in 1..Len(old) \/ k = Len(old) + 1
      BY <2>2
    <3>2. \A k \in 1..Len(old) : new[k] = old[k] /\ old[k] # c /\ phase'[old[k]] = "backlog"
      BY <2>1, <2>2, <2>4
    <3>3. \A k \in 1..Len(old) :
            PortOf(old[k]) = PortOf(c) /\ \A l \in 1..Len(old) : old[k] = old[l] => k = l
      BY <2>1 DEF QueuedOnce
    <3> HIDE DEF old
    <3> QED BY <2>2, <2>5, <3>1, <3>2, <3>3
  <2>8. backlog'[PortOf(c)] = new
    BY <2>1, <2>3
  <2> HIDE DEF old
  <2> QED BY <2>6, <2>7, <2>8 DEF QueuedOnce
<1>10. ASSUME NEW p \in Port, PollAccept(p) PROVE QueuedOnce'
  <2> DEFINE old == backlog[p]
             new == Tail(old)
             c == Head(old)
  <2>1. old \in Seq(Conn) /\ old # <<>>
    BY <1>10, BacklogTypes DEF PollAccept
  <2>2. /\ c = old[1] /\ 1 \in 1..Len(old) /\ Len(old) \in Nat /\ Len(new) = Len(old) - 1
        /\ \A i \in 1..Len(new) : new[i] = old[i + 1] /\ i + 1 \in 1..Len(old)
    BY ONLY <2>1, QueueTail
  <2>3. \A r \in Port : backlog'[r] = IF r = p THEN new ELSE backlog[r]
    BY <1>10 DEF PollAccept, TypeOK
  <2>4. \A d \in Conn : d # c => phase'[d] = phase[d]
    BY <1>10 DEF PollAccept, TypeOK
  <2>5. PortOf(c) = p
    BY <2>2 DEF QueuedOnce
  <2>6. ASSUME NEW r \in Port, r # p PROVE
          \A i \in 1..Len(backlog'[r]) :
            /\ phase'[backlog'[r][i]] = "backlog" /\ PortOf(backlog'[r][i]) = r
            /\ \A j \in 1..Len(backlog'[r]) : backlog'[r][i] = backlog'[r][j] => i = j
    <3>1. backlog'[r] = backlog[r]
      BY <2>3, <2>6
    <3>2. \A i \in 1..Len(backlog[r]) : backlog[r][i] \in Conn /\ backlog[r][i] # c
      BY <2>5, <2>6, QueuedConn DEF QueuedOnce
    <3> QED BY <2>4, <3>1, <3>2 DEF QueuedOnce
  <2>7. ASSUME NEW i \in 1..Len(new)
        PROVE  /\ phase'[new[i]] = "backlog" /\ PortOf(new[i]) = p
               /\ \A j \in 1..Len(new) : new[i] = new[j] => i = j
    <3>1. \A k, l \in 1..Len(old) : old[k] = old[l] => k = l
      BY DEF QueuedOnce
    <3>2. \A k \in 1..Len(old) : phase[old[k]] = "backlog" /\ PortOf(old[k]) = p /\ old[k] \in Conn
      BY <2>1 DEF QueuedOnce
    <3>3. new[i] = old[i + 1] /\ i + 1 \in 1..Len(old) /\ i + 1 # 1
      BY <2>2
    <3>4. new[i] # c /\ new[i] \in Conn
      BY <2>2, <3>1, <3>2, <3>3
    <3>5. \A j \in 1..Len(new) : new[i] = new[j] => i + 1 = j + 1
      BY <2>2, <3>1, <3>3
    <3> HIDE DEF old, new, c
    <3>6. \A j \in 1..Len(new) : new[i] = new[j] => i = j
      BY <2>2, <3>5
    <3> QED BY <2>4, <3>2, <3>3, <3>4, <3>6
  <2>8. backlog'[p] = new
    BY <2>3
  <2> HIDE DEF new
  <2> QED BY <2>6, <2>7, <2>8 DEF QueuedOnce
<1>11. ASSUME NEW p \in Port, PollAcceptEnds(p) PROVE QueuedOnce'
  <2>1. \A r \in Port : backlog'[r] = IF r = p THEN <<>> ELSE backlog[r]
    BY <1>11 DEF PollAcceptEnds, TypeOK
  <2>2. \A c \in Conn : PortOf(c) # p => phase'[c] = phase[c]
    BY <1>11 DEF PollAcceptEnds, TypeOK
  <2>3. ASSUME NEW r \in Port, r # p PROVE
          \A i \in 1..Len(backlog'[r]) :
            /\ phase'[backlog'[r][i]] = "backlog" /\ PortOf(backlog'[r][i]) = r
            /\ \A j \in 1..Len(backlog'[r]) : backlog'[r][i] = backlog'[r][j] => i = j
    BY <2>1, <2>2, <2>3, QueuedConn DEF QueuedOnce
  <2>4. backlog'[p] = <<>> /\ Len(backlog'[p]) = 0
    BY <2>1
  <2> QED BY <2>3, <2>4 DEF QueuedOnce
<1>12. CASE UNCHANGED vars
  BY <1>5, <1>12 DEF vars, portVars, connVars
<1>13. ASSUME NEW q \in Request, NEW c \in Conn, Call(q, c) PROVE QueuedOnce'
  BY <1>5, <1>13 DEF Call
<1> QED
  BY <1>2, <1>3, <1>6, <1>7, <1>8, <1>9, <1>10, <1>11, <1>12, <1>13 DEF Next, Disconnect

\* The invariant holds throughout.
LEMMA Invariance == Spec => []IInv
<1>1. IInv /\ [Next]_vars => IInv'
  BY NextTypeOK, NextLog, NextOpen, NextWaits, NextQueued DEF IInv
<1> QED BY InitIInv, <1>1, PTL DEF Spec

-----------------------------------------------------------------------------

\* Every variable has its type, for any number of connections and requests.
THEOREM TypeCorrect == Spec => []TypeOK
<1>1. IInv => TypeOK
  BY DEF IInv
<1> QED BY <1>1, Invariance, PTL

\* An error page always leads to exactly one line of the log, and that line is
\* about the request that got the page: DispatchErr of lib.rs logs the code it
\* shows, however many requests fail at the same time.
THEOREM CodeFindsError == Spec => []ErrorCodeFindsItsError
<1>1. IInv => ErrorCodeFindsItsError
  <2> SUFFICES ASSUME LogMatchesPages, NEW q \in Request, answer[q] = "error page"
               PROVE  {e \in log : e.code = code[q]} = {[code |-> code[q], request |-> q]}
    BY DEF IInv, ErrorCodeFindsItsError
  <2> DEFINE line == [code |-> code[q], request |-> q]
  <2>1. line \in log /\ line.code = code[q]
    BY DEF LogMatchesPages
  <2>2. \A e \in log : e.code = code[q] => e = line
    BY <2>1 DEF LogMatchesPages
  <2> HIDE DEF line
  <2>3. {e \in log : e.code = code[q]} = {line}
    BY <2>1, <2>2
  <2> QED BY <2>3 DEF line
<1> QED BY <1>1, Invariance, PTL

-----------------------------------------------------------------------------
\* What one step may do to the request of another.

\* A request that a step costs its future, or the rest of its answer.
Lost(q) ==
  \/ pc[q] \in Suspended /\ pc'[q] = "dropped"
  \/ body[q] \in Unsent /\ body'[q] = "cut"

\* The end of a connection costs its own requests, and closes nothing else.
LEMMA EndStaysApart ==
  ASSUME TypeOK, NEW c \in Conn, End(c), NEW q \in Request, Lost(q)
  PROVE  /\ on[q] = c /\ phase'[c] = "gone"
         /\ \A d \in Conn : phase'[d] # phase[d] => d = c
         /\ \A r \in Request : on[r] # c => pc'[r] = pc[r] /\ body'[r] = body[r]
BY DEF Lost, End, Active, Sending, TypeOK, Suspended, Unsent

\* Nothing is lost where neither futures nor bodies are touched.
LEMMA NothingLost ==
  ASSUME NEW q \in Request, pc'[q] # "dropped" \/ pc'[q] = pc[q],
         body'[q] # "cut" \/ body'[q] = body[q]
  PROVE  ~ Lost(q)
BY DEF Lost, Suspended, Unsent

\* A failure costs a client that has no part in it nothing: of the futures
\* that hyper drops and the bodies it cuts off, each was on the connection that
\* ended, or is itself the one that panicked (lib.rs, at expect or in the
\* application's dispatch or not_found) or returned an error (grpc.rs, helper
\* and EitherBody), and then the only one.
THEOREM FailureIsItsOwn == Spec => FailuresStayApart
<1> DEFINE OwnFault(q) == \/ pc[q] \in {"dispatch", "not_found", "grpc"}
                          \/ kind[q] = "authority" \/ answer[q] \in Streamed
           Apart(q) ==
             Lost(q) =>
               \/ /\ phase'[on[q]] = "gone"
                  /\ \A c \in Conn : phase'[c] # phase[c] => c = on[q]
                  /\ \A r \in Request : on[r] # on[q] => pc'[r] = pc[r] /\ body'[r] = body[r]
               \/ /\ OwnFault(q)
                  /\ version[on[q]] = "h2" /\ phase' = phase
                  /\ \A r \in Request \ {q} : pc'[r] = pc[r] /\ body'[r] = body[r]
<1>1. ASSUME IInv, [Next]_vars, NEW q \in Request PROVE Apart(q)
  <2> USE <1>1 DEF IInv
  <2>1. ASSUME NEW c \in Conn, End(c) PROVE Apart(q)
    BY <2>1, EndStaysApart
  <2>2. ASSUME NEW r \in Request, pc[r] \in Suspended, Break(r), OwnFault(r)
        PROVE  Apart(q)
    <3>1. CASE End(on[r])
      BY <2>1, <2>2, <3>1 DEF SuspendedOnOpen
    <3>2. CASE /\ version[on[r]] = "h2"
               /\ pc' = [pc EXCEPT ![r] = "dropped"] /\ UNCHANGED <<connVars, body>>
      <4>1. \A p \in Request : p # r => pc'[p] = pc[p] /\ body'[p] = body[p]
        BY <3>2 DEF TypeOK
      <4>2. phase' = phase
        BY <3>2 DEF connVars
      <4>3. CASE q = r
        BY <2>2, <3>2, <4>1, <4>2, <4>3
      <4>4. CASE q # r
        BY <4>1, <4>4, NothingLost
      <4> QED BY <4>3, <4>4
    <3> QED BY <2>2, <3>1, <3>2 DEF Break
  <2>3. ASSUME NEW r \in Request, NEW a, Resolve(r, a) PROVE Apart(q)
    <3>1. pc'[q] # "dropped" \/ pc'[q] = pc[q]
      BY <2>3 DEF Resolve, TypeOK
    <3>2. body'[q] # "cut" \/ body'[q] = body[q]
      BY <2>3 DEF Resolve, TypeOK
    <3> QED BY <3>1, <3>2, NothingLost
  <2>4. ASSUME NEW r \in Request, Helper(r) PROVE Apart(q)
    <3>1. CASE ExpectPanics(r)
      BY <2>2, <3>1 DEF ExpectPanics, Suspended
    <3>2. CASE RedirectTemporary(r) \/ RedirectErr(r)
      BY <2>3, <3>2 DEF RedirectTemporary, RedirectErr, ErrorPage
    <3>3. CASE CallGrpc(r) \/ CallDispatch(r) \/ CallNotFound(r)
      <4>1. (pc'[q] # "dropped" \/ pc'[q] = pc[q]) /\ body' = body
        BY <3>3 DEF CallGrpc, CallDispatch, CallNotFound, TypeOK
      <4> QED BY <4>1, NothingLost
    <3> QED BY <2>4, <3>1, <3>2, <3>3 DEF Helper
  <2>5. ASSUME NEW r \in Request, Finish(r) PROVE Apart(q)
    <3>1. CASE GrpcErr(r) \/ DispatchPanics(r)
      BY <2>2, <3>1 DEF GrpcErr, DispatchPanics, Suspended
    <3>2. CASE DispatchOk(r) \/ DispatchErr(r) \/ GrpcOk(r)
      BY <2>3, <3>2 DEF DispatchOk, DispatchErr, ErrorPage, GrpcOk
    <3> QED BY <2>5, <3>1, <3>2 DEF Finish
  <2>6. ASSUME NEW r \in Request, SendBody(r) PROVE Apart(q)
    <3>1. CASE PollDataNone(r) \/ PollTrailers(r)
      <4>1. pc' = pc /\ (body'[q] # "cut" \/ body'[q] = body[q])
        BY <3>1 DEF PollDataNone, PollTrailers, TypeOK
      <4> QED BY <4>1, NothingLost
    <3>2. CASE BodyErr(r)
      <4>1. body[r] \in Unsent /\ OwnFault(r)
        BY <3>2 DEF BodyErr
      <4>2. CASE End(on[r])
        BY <2>1, <4>1, <4>2 DEF SuspendedOnOpen
      <4>3. CASE /\ version[on[r]] = "h2"
                 /\ body' = [body EXCEPT ![r] = "cut"] /\ UNCHANGED <<connVars, pc>>
        <5>1. \A p \in Request : p # r => pc'[p] = pc[p] /\ body'[p] = body[p]
          BY <4>3 DEF TypeOK
        <5>2. phase' = phase
          BY <4>3 DEF connVars
        <5>3. CASE q = r
          BY <4>1, <4>3, <5>1, <5>2, <5>3
        <5>4. CASE q # r
          BY <5>1, <5>4, NothingLost
        <5> QED BY <5>3, <5>4
      <4> QED BY <3>2, <4>2, <4>3 DEF BodyErr
    <3> QED BY <2>6, <3>1, <3>2 DEF SendBody
  <2>7. ASSUME NEW r \in Request, NEW c \in Conn, Call(r, c) PROVE Apart(q)
    <3>1. (pc'[q] # "dropped" \/ pc'[q] = pc[q]) /\ body' = body
      BY <2>7 DEF Call, TypeOK
    <3> QED BY <3>1, NothingLost
  <2>8. CASE UNCHANGED requestVars
    BY <2>8, NothingLost DEF requestVars
  <2>9. CASE UNCHANGED vars
    BY <2>9, NothingLost DEF vars
  <2> HIDE DEF Apart
  <2> QED
    BY <2>1, <2>4, <2>5, <2>6, <2>7, <2>8, <2>9
       DEF Next, Connect, PollAccept, PollAcceptEnds, Handshake, Disconnect
<1>2. IInv /\ [Next]_vars => [\A q \in Request : Apart(q)]_vars
  BY <1>1
<1> QED BY <1>2, Invariance, PTL DEF Spec, FailuresStayApart, Lost

-----------------------------------------------------------------------------
\* Refinement: what the server does is what RouteService allows.

\* A request whose future is suspended is waiting; nothing else of where it
\* stands is hidden.
Status == [q \in Request |-> IF pc[q] \in Suspended THEN "waiting" ELSE pc[q]]

\* The end of a connection drops the requests waiting on it, if there are any.
LEMMA EndDrops ==
  ASSUME TypeOK, NEW c \in Conn, End(c)
  PROVE  Service!Next \/ UNCHANGED Service!vars
<1>1. CASE Active(c) = {}
  <2>1. \A q \in Request : pc'[q] = pc[q]
    BY <1>1 DEF End
  <2>2. Status' = Status
    BY <2>1 DEF Status
  <2> QED BY <2>2 DEF End, Service!vars, Status
<1>2. CASE Active(c) # {}
  <2>1. PICK Q \in SUBSET Request : Q = Active(c)
    BY DEF Active
  <2>2. Q \in SUBSET Service!Waiting
    BY <2>1 DEF Active, Service!Waiting
  <2>3. Status' = [q \in Request |-> IF q \in Q THEN "dropped" ELSE Status[q]]
    BY <2>1 DEF End, Status, Suspended
  <2>4. Service!Drop(Q)
    BY <1>2, <2>1, <2>2, <2>3 DEF End, Service!Drop, Status
  <2> QED BY <2>2, <2>4 DEF Service!Next
<1> QED BY <1>1, <1>2

\* So does a failure, when it ends its request alone.
LEMMA BreakDrops ==
  ASSUME TypeOK, SuspendedOnOpen, NEW q \in Request, pc[q] \in Suspended, Break(q)
  PROVE  Service!Next \/ UNCHANGED Service!vars
<1>1. CASE End(on[q])
  <2>1. PICK c \in Conn : on[q] = c
    BY DEF SuspendedOnOpen
  <2> QED BY <1>1, <2>1, EndDrops
<1>2. CASE /\ pc' = [pc EXCEPT ![q] = "dropped"]
           /\ UNCHANGED <<portVars, connVars, on, kind, answer, body, code, log>>
  <2>1. {q} \in SUBSET Service!Waiting
    BY DEF Service!Waiting
  <2>2. Status' = [r \in Request |-> IF r \in {q} THEN "dropped" ELSE Status[r]]
    BY <1>2 DEF Status, TypeOK, Suspended
  <2>3. Service!Drop({q})
    BY <1>2, <2>1, <2>2 DEF Service!Drop, Status
  <2> QED BY <2>1, <2>3 DEF Service!Next
<1> QED BY <1>1, <1>2 DEF Break

\* An answer that the request calls for settles it.
LEMMA ResolveAnswers ==
  ASSUME TypeOK, NEW q \in Request, pc[q] \in Suspended,
         NEW a \in AllowedAnswers[kind[q]], Resolve(q, a)
  PROVE  Service!AnswerOne(q)
<1>1. Status' = [Status EXCEPT ![q] = "answered"]
  BY DEF Resolve, Status, TypeOK, Suspended
<1>2. Status[q] = "waiting"
  BY DEF Status
<1> QED BY <1>1, <1>2 DEF Resolve, Service!AnswerOne, Status

\* A step that keeps the future of each request suspended, or not, is not seen.
LEMMA Unseen ==
  ASSUME \A q \in Request : pc'[q] = pc[q] \/ {pc[q], pc'[q]} \subseteq Suspended,
         UNCHANGED <<kind, answer>>
  PROVE  UNCHANGED Service!vars
BY DEF Service!vars, Suspended

\* Every step of the server is a step of the service, or is not seen.
LEMMA StepRefines == IInv /\ [Next]_vars => [Service!Next]_(Service!vars)
<1> SUFFICES ASSUME TypeOK, SuspendedOnOpen, WaitsForItsKind, [Next]_vars
             PROVE  Service!Next \/ UNCHANGED Service!vars
  BY DEF IInv
<1>1. CASE UNCHANGED requestVars
  BY <1>1, Unseen DEF requestVars
<1>2. ASSUME NEW c \in Conn, Disconnect(c)
      PROVE  Service!Next \/ UNCHANGED Service!vars
  BY <1>2, EndDrops DEF Disconnect
<1>3. ASSUME NEW q \in Request, NEW c \in Conn, Call(q, c) PROVE Service!Next
  <2>1. Status[q] = "unsent" /\ Status' = [Status EXCEPT ![q] = "waiting"]
    BY <1>3 DEF Call, Status, TypeOK, Suspended
  <2>2. Service!Ask(q)
    BY <1>3, <2>1 DEF Call, Service!Ask, Status
  <2> QED BY <2>2 DEF Service!Next
<1>4. ASSUME NEW q \in Request, Helper(q)
      PROVE  Service!Next \/ UNCHANGED Service!vars
  <2>1. CASE CallGrpc(q) \/ CallDispatch(q) \/ CallNotFound(q)
    <3>1. \A r \in Request : pc'[r] = pc[r] \/ {pc[r], pc'[r]} \subseteq Suspended
      BY <2>1 DEF CallGrpc, CallDispatch, CallNotFound, TypeOK, Suspended
    <3> QED BY <2>1, <3>1, Unseen DEF CallGrpc, CallDispatch, CallNotFound
  <2>2. CASE RedirectTemporary(q)
    <3>1. "redirect" \in AllowedAnswers[kind[q]]
      BY <2>2 DEF RedirectTemporary, AllowedAnswers, Kind
    <3>2. Service!AnswerOne(q)
      BY <2>2, <3>1, ResolveAnswers DEF RedirectTemporary, Suspended
    <3> QED BY <3>2 DEF Service!Next
  <2>3. CASE ExpectPanics(q)
    BY <2>3, BreakDrops DEF ExpectPanics, Suspended
  <2>4. CASE RedirectErr(q)
    <3>1. "error page" \in AllowedAnswers[kind[q]]
      BY <2>4 DEF RedirectErr, AllowedAnswers, Kind
    <3>2. Service!AnswerOne(q)
      BY <2>4, <3>1, ResolveAnswers DEF RedirectErr, ErrorPage, Suspended
    <3> QED BY <3>2 DEF Service!Next
  <2> QED BY <1>4, <2>1, <2>2, <2>3, <2>4 DEF Helper
<1>5. ASSUME NEW q \in Request, Finish(q)
      PROVE  Service!Next \/ UNCHANGED Service!vars
  <2>1. CASE DispatchOk(q)
    <3> DEFINE a == IF pc[q] = "dispatch" THEN "page" ELSE "not found"
    <3>1. a \in AllowedAnswers[kind[q]]
      BY <2>1 DEF DispatchOk, WaitsForItsKind, AllowedAnswers, Kind
    <3>2. Service!AnswerOne(q)
      BY <2>1, <3>1, ResolveAnswers DEF DispatchOk, Suspended
    <3> QED BY <3>2 DEF Service!Next
  <2>2. CASE DispatchErr(q)
    <3>1. "error page" \in AllowedAnswers[kind[q]]
      BY <2>2 DEF DispatchErr, WaitsForItsKind, AllowedAnswers, Kind
    <3>2. Service!AnswerOne(q)
      BY <2>2, <3>1, ResolveAnswers DEF DispatchErr, ErrorPage, Suspended
    <3> QED BY <3>2 DEF Service!Next
  <2>3. CASE GrpcOk(q)
    <3>1. "grpc reply" \in AllowedAnswers[kind[q]]
      BY <2>3 DEF GrpcOk, WaitsForItsKind, AllowedAnswers, Kind
    <3>2. Service!AnswerOne(q)
      BY <2>3, <3>1, ResolveAnswers DEF GrpcOk, Suspended
    <3> QED BY <3>2 DEF Service!Next
  <2>4. CASE GrpcErr(q) \/ DispatchPanics(q)
    BY <2>4, BreakDrops DEF GrpcErr, DispatchPanics, Suspended
  <2> QED BY <1>5, <2>1, <2>2, <2>3, <2>4 DEF Finish
<1>6. CASE UNCHANGED vars
  BY <1>6, Unseen DEF vars
<1>7. ASSUME NEW q \in Request, SendBody(q)
      PROVE  Service!Next \/ UNCHANGED Service!vars
  <2>1. CASE UNCHANGED <<pc, kind, answer>>
    BY <2>1, Unseen
  <2>2. CASE body[q] \in Unsent /\ End(on[q])
    BY <2>2, EndDrops DEF SuspendedOnOpen
  <2> QED BY <1>7, <2>1, <2>2 DEF SendBody, PollDataNone, PollTrailers, BodyErr
<1> QED
  BY <1>1, <1>2, <1>3, <1>4, <1>5, <1>6, <1>7
     DEF Next, Connect, PollAccept, PollAcceptEnds, Handshake

\* The server implements the safety part of RouteService: no request is
\* answered twice, after it was dropped, or by an answer its target does not
\* call for.
THEOREM RefinesService == Spec => Service!Init /\ [][Service!Next]_(Service!vars)
<1>1. Init => Service!Init
  BY KindsAssumption DEF Init, Service!Init, Service!NoAnswer, Suspended
<1> QED BY <1>1, StepRefines, Invariance, PTL DEF Spec
=============================================================================
