----------------------------- MODULE HyperServer -----------------------------
(***************************************************************************)
(* routetype-hyper: the accept loops, the connections and the requests of  *)
(* a server that listens on a plain and on a TLS port, with or without     *)
(* gRPC (lib.rs, grpc.rs and the acceptor of tls.rs).                      *)
(*                                                                         *)
(* hyper runs an accept loop per port, which takes the connections that    *)
(* the kernel has queued there in their order, and a task per connection.  *)
(* On an HTTP/1 connection the task runs the future of one request at a    *)
(* time, and a panic or a service error in it ends the connection; on an   *)
(* HTTP/2 connection every request is a stream with a task of its own, and *)
(* only that stream ends.  When a connection ends, hyper drops the futures *)
(* of its requests wherever they are suspended, and the bodies of its      *)
(* answers wherever they are.  When an accept loop ends, what is queued    *)
(* for it is refused, and the connections it has accepted go on.           *)
(***************************************************************************)
EXTENDS Naturals, Sequences, FiniteSets

CONSTANTS Conn,     \* the connections clients ever make
          Tls,      \* those made to the TLS port
          Stalled,  \* those whose client never finishes the TLS handshake
          Request,  \* the requests clients ever make
          Uuid,     \* the error codes Uuid::new_v4 returns
          Kinds     \* the kinds of request the clients make

(***************************************************************************)
(* What the server tells apart in a request: "match" and "missing" parse   *)
(* to a route and to NoMatch, "crooked" fails normalization, "grpc" has    *)
(* the content type application/grpc, and the target of "authority" (that  *)
(* of a CONNECT request) has neither path nor query.                       *)
(***************************************************************************)
Kind == {"match", "missing", "crooked", "grpc", "authority"}

Answer == {"page", "not found", "redirect", "grpc reply", "error page"}

ASSUME TlsAssumption == Stalled \subseteq Tls /\ Tls \subseteq Conn
ASSUME KindsAssumption == Kinds \subseteq Kind
ASSUME NoneAssumption == "none" \notin Conn \cup Uuid

Port == {"plain", "tls"}
PortOf(c) == IF c \in Tls THEN "tls" ELSE "plain"

VARIABLES listening, \* listening[p]: whether the accept loop of port p runs
          backlog,  \* backlog[p]: the connections queued for it
          phase,    \* phase[c]: where connection c stands
          version,  \* version[c]: the protocol its client speaks
          pc,       \* pc[q]: where the future of request q is suspended
          on,       \* on[q]: the connection it was made on
          kind,     \* kind[q]: what is requested
          answer,   \* answer[q]: what it was answered with
          body,     \* body[q]: what is left to send of that
          code,     \* code[q]: the error code its page shows
          log       \* the error codes logged, each with the failing request

portVars == <<listening, backlog>>
connVars == <<phase, version>>
requestVars == <<pc, on, kind, answer, body, code>>
vars == <<listening, backlog, phase, version, pc, on, kind, answer, body, code, log>>

Suspended == {"called", "dispatch", "not_found", "grpc"}
Active(c) == {q \in Request : on[q] = c /\ pc[q] \in Suspended}

Unsent == {"data", "trailers"}
Sending(c) == {q \in Request : on[q] = c /\ body[q] \in Unsent}

Init ==
  /\ listening = [p \in Port |-> TRUE]
  /\ backlog = [p \in Port |-> <<>>]
  /\ phase = [c \in Conn |-> "absent"]
  /\ version \in [Conn -> {"h1", "h2"}]
  /\ pc = [q \in Request |-> "unsent"]
  /\ on = [q \in Request |-> "none"]
  /\ kind \in [Request -> Kinds]
  /\ answer = [q \in Request |-> "no answer"]
  /\ body = [q \in Request |-> "none"]
  /\ code = [q \in Request |-> "none"]
  /\ log = {}

-----------------------------------------------------------------------------
\* Connections

\* A client connects: the kernel queues the connection for the accept loop.
Connect(c) ==
  /\ phase[c] = "absent" /\ listening[PortOf(c)]
  /\ phase' = [phase EXCEPT ![c] = "backlog"]
  /\ backlog' = [backlog EXCEPT ![PortOf(c)] = Append(@, c)]
  /\ UNCHANGED <<listening, version, requestVars, log>>

\* Faulty form: the accept loop performs the handshake before it goes on, so
\* it takes no connection while one is in its handshake.
PollAcceptInline(p) ==
  /\ listening[p] /\ backlog[p] # <<>>
  /\ p = "tls" => \A d \in Tls : phase[d] # "handshaking"
  /\ phase' = [phase EXCEPT ![Head(backlog[p])] = IF p = "tls" THEN "handshaking" ELSE "open"]
  /\ backlog' = [backlog EXCEPT ![p] = Tail(@)]
  /\ UNCHANGED <<listening, version, requestVars, log>>

(***************************************************************************)
(* TlsAcceptor::poll_accept, and AddrIncoming's for the plain port: the    *)
(* connection gets its service and its task.  The TLS handshake is left to *)
(* that task.                                                              *)
(***************************************************************************)
PollAccept(p) ==
  /\ listening[p] /\ backlog[p] # <<>>
  /\ phase' = [phase EXCEPT ![Head(backlog[p])] = IF p = "tls" THEN "handshaking" ELSE "open"]
  /\ backlog' = [backlog EXCEPT ![p] = Tail(@)]
  /\ UNCHANGED <<listening, version, requestVars, log>>

\* It returns an error or None, with which hyper's server, and so run or
\* run_tls, is over.  The listener is closed.
PollAcceptEnds(p) ==
  /\ listening[p]
  /\ listening' = [listening EXCEPT ![p] = FALSE]
  /\ backlog' = [backlog EXCEPT ![p] = <<>>]
  /\ phase' = [c \in Conn |-> IF PortOf(c) = p /\ phase[c] = "backlog" THEN "gone" ELSE phase[c]]
  /\ UNCHANGED <<version, requestVars, log>>

\* The poll that gets the client's last part of the handshake.
Handshake(c) ==
  /\ phase[c] = "handshaking"
  /\ c \notin Stalled
  /\ phase' = [phase EXCEPT ![c] = "open"]
  /\ UNCHANGED <<portVars, version, requestVars, log>>

\* The connection ends, and with it every future and every body on it.
End(c) ==
  /\ phase' = [phase EXCEPT ![c] = "gone"]
  /\ pc' = [q \in Request |-> IF q \in Active(c) THEN "dropped" ELSE pc[q]]
  /\ body' = [q \in Request |-> IF q \in Sending(c) THEN "cut" ELSE body[q]]
  /\ UNCHANGED <<portVars, version, on, kind, answer, code, log>>

\* The peer goes away, or its handshake fails.
Disconnect(c) ==
  /\ phase[c] \in {"handshaking", "open"}
  /\ End(c)

-----------------------------------------------------------------------------
\* Requests

\* hyper has read a request and calls the service of its connection.
Call(q, c) ==
  /\ pc[q] = "unsent"
  /\ phase[c] = "open"
  /\ version[c] = "h1" => Active(c) \cup Sending(c) = {}
  /\ pc' = [pc EXCEPT ![q] = "called"]
  /\ on' = [on EXCEPT ![q] = c]
  /\ UNCHANGED <<portVars, connVars, kind, answer, body, code, log>>

\* The future of q resolves to the answer a.  The body of a redirect is empty,
\* which is_end_stream tells hyper at once.
Resolve(q, a) ==
  /\ pc' = [pc EXCEPT ![q] = "answered"]
  /\ answer' = [answer EXCEPT ![q] = a]
  /\ body' = [body EXCEPT ![q] = IF a = "redirect" THEN "whole" ELSE "data"]
  /\ UNCHANGED <<portVars, connVars, on, kind>>

\* Faulty form: the program is built with panic = "abort", and a failure ends
\* all that it serves.
BreakAborts(q) ==
  /\ phase' = [c \in Conn |-> IF phase[c] = "open" THEN "gone" ELSE phase[c]]
  /\ pc' = [r \in Request |-> IF pc[r] \in Suspended THEN "dropped" ELSE pc[r]]
  /\ body' = [r \in Request |-> IF body[r] \in Unsent THEN "cut" ELSE body[r]]
  /\ UNCHANGED <<portVars, version, on, kind, answer, code, log>>

\* The future of q panics or returns an error to hyper.
Break(q) ==
  \/ /\ version[on[q]] = "h1"
     /\ End(on[q])
  \/ /\ version[on[q]] = "h2"
     /\ pc' = [pc EXCEPT ![q] = "dropped"]
     /\ UNCHANGED <<portVars, connVars, on, kind, answer, body, code, log>>

\* Two faulty forms: a code that may have been used before, and the code that
\* is there when none is drawn.
AnyUuid == Uuid
NilUuid == {"none"}

FreshUuid == {u \in Uuid : \A e \in log : e.code # u}

\* An error that the helper meets: a new code is logged with it and put on the
\* page that answers q.
ErrorPage(q) ==
  /\ \E u \in FreshUuid :
       /\ log' = log \cup {[code |-> u, request |-> q]}
       /\ code' = [code EXCEPT ![q] = u]
  /\ Resolve(q, "error page")

(***************************************************************************)
(* The helpers up to their first await.  With gRPC the content type        *)
(* decides first.  The target is then parsed as a route: one without path  *)
(* and query makes expect() panic, a redirect is answered without waiting  *)
(* for anything, and the application is called for the rest.               *)
(***************************************************************************)
CallGrpc(q) ==
  /\ pc[q] = "called" /\ kind[q] = "grpc"
  /\ pc' = [pc EXCEPT ![q] = "grpc"]
  /\ UNCHANGED <<portVars, connVars, on, kind, answer, body, code, log>>

CallDispatch(q) ==
  /\ pc[q] = "called" /\ kind[q] = "match"
  /\ pc' = [pc EXCEPT ![q] = "dispatch"]
  /\ UNCHANGED <<portVars, connVars, on, kind, answer, body, code, log>>

CallNotFound(q) ==
  /\ pc[q] = "called" /\ kind[q] = "missing"
  /\ pc' = [pc EXCEPT ![q] = "not_found"]
  /\ UNCHANGED <<portVars, connVars, on, kind, answer, body, code, log>>

RedirectTemporary(q) ==
  /\ pc[q] = "called" /\ kind[q] = "crooked"
  /\ Resolve(q, "redirect")
  /\ UNCHANGED <<code, log>>

\* The destination is no header value.  What render writes always is one, but
\* the code handles the error.
RedirectErr(q) ==
  /\ pc[q] = "called" /\ kind[q] = "crooked"
  /\ ErrorPage(q)

ExpectPanics(q) ==
  /\ pc[q] = "called" /\ kind[q] = "authority"
  /\ Break(q)

\* The application's future, T::dispatch or T::not_found, is done.
DispatchOk(q) ==
  /\ pc[q] \in {"dispatch", "not_found"}
  /\ Resolve(q, IF pc[q] = "dispatch" THEN "page" ELSE "not found")
  /\ UNCHANGED <<code, log>>

\* It returned an error.
DispatchErr(q) ==
  /\ pc[q] \in {"dispatch", "not_found"}
  /\ ErrorPage(q)

\* It panics, which the helper does not catch.
DispatchPanics(q) ==
  /\ pc[q] \in {"dispatch", "not_found"}
  /\ Break(q)

GrpcOk(q) ==
  /\ pc[q] = "grpc"
  /\ Resolve(q, "grpc reply")
  /\ UNCHANGED <<code, log>>

\* Faulty form: the error is made a page, which no gRPC client can read.
GrpcErrAsPage(q) ==
  /\ pc[q] = "grpc"
  /\ Resolve(q, "error page")
  /\ UNCHANGED <<code, log>>

\* The gRPC service's own error is returned to hyper, not made a page.  It may
\* also panic, as a service may that is called without having said it is ready.
GrpcErr(q) ==
  /\ pc[q] = "grpc"
  /\ Break(q)

-----------------------------------------------------------------------------
(***************************************************************************)
(* The body of an answer: EitherBody, the gRPC service's or the            *)
(* application's.  hyper asks it for data until there are no more, and on  *)
(* an HTTP/2 connection then for its trailers.                             *)
(***************************************************************************)
PollDataNone(q) ==
  /\ body[q] = "data"
  /\ body' = [body EXCEPT ![q] = IF version[on[q]] = "h2" THEN "trailers" ELSE "whole"]
  /\ UNCHANGED <<portVars, connVars, pc, on, kind, answer, code, log>>

PollTrailers(q) ==
  /\ body[q] = "trailers"
  /\ body' = [body EXCEPT ![q] = "whole"]
  /\ UNCHANGED <<portVars, connVars, pc, on, kind, answer, code, log>>

\* The bodies that may fail: an error page is a string.
Streamed == Answer \ {"redirect", "error page"}

\* poll_data or poll_trailers returns an error of the body that it forwards to.
BodyErr(q) ==
  /\ body[q] \in Unsent
  /\ answer[q] \in Streamed
  /\ \/ /\ version[on[q]] = "h1"
        /\ End(on[q])
     \/ /\ version[on[q]] = "h2"
        /\ body' = [body EXCEPT ![q] = "cut"]
        /\ UNCHANGED <<portVars, connVars, pc, on, kind, answer, code, log>>

-----------------------------------------------------------------------------

Helper(q) ==
  \/ CallGrpc(q) \/ CallDispatch(q) \/ CallNotFound(q)
  \/ RedirectTemporary(q) \/ RedirectErr(q) \/ ExpectPanics(q)

Finish(q) ==
  \/ DispatchOk(q) \/ DispatchErr(q) \/ DispatchPanics(q)
  \/ GrpcOk(q) \/ GrpcErr(q)

SendBody(q) == PollDataNone(q) \/ PollTrailers(q) \/ BodyErr(q)

Next ==
  \/ \E p \in Port : PollAccept(p) \/ PollAcceptEnds(p)
  \/ \E c \in Conn : Connect(c) \/ Handshake(c) \/ Disconnect(c)
  \/ \E q \in Request : \E c \in Conn : Call(q, c)
  \/ \E q \in Request : Helper(q) \/ Finish(q) \/ SendBody(q)

(***************************************************************************)
(* tokio polls every task that can go on, the accept loop of a port being  *)
(* one of them, and the futures of the application and of the gRPC service *)
(* complete.  Nothing is assumed of the clients, nor of bodies, which a    *)
(* client that does not read holds up.                                     *)
(***************************************************************************)
Fairness ==
  /\ \A p \in Port : WF_vars(PollAccept(p))
  /\ \A q \in Request : WF_vars(Helper(q)) /\ WF_vars(Finish(q))

Spec == Init /\ [][Next]_vars /\ Fairness

-----------------------------------------------------------------------------

\* Every variable has its type.
TypeOK ==
  /\ listening \in [Port -> BOOLEAN]
  /\ backlog \in [Port -> Seq(Conn)]
  /\ phase \in [Conn -> {"absent", "backlog", "handshaking", "open", "gone"}]
  /\ version \in [Conn -> {"h1", "h2"}]
  /\ pc \in [Request -> {"unsent", "answered", "dropped"} \cup Suspended]
  /\ on \in [Request -> Conn \cup {"none"}]
  /\ kind \in [Request -> Kinds]
  /\ answer \in [Request -> Answer \cup {"no answer"}]
  /\ body \in [Request -> {"none", "whole", "cut"} \cup Unsent]
  /\ code \in [Request -> Uuid \cup {"none"}]
  /\ log \subseteq [code : Uuid, request : Request]

\* The code on an error page leads to one line of the log, and that line is
\* about the request that got the page, however many fail side by side.
ErrorCodeFindsItsError ==
  \A q \in Request : answer[q] = "error page" =>
    {e \in log : e.code = code[q]} = {[code |-> code[q], request |-> q]}

\* A request is lost, or its answer cut off, only with its own connection or
\* through its own fault: a panic of the helper, of the application or of the
\* gRPC service, or an error of that service or of a body, never takes what is
\* on another connection, nor on HTTP/2 another stream of the same one.  What
\* the helper answers itself, a redirect or an error page, is never what fails.
FailuresStayApart ==
  [][\A q \in Request :
       \/ pc[q] \in Suspended /\ pc'[q] = "dropped"
       \/ body[q] \in Unsent /\ body'[q] = "cut"
       => \/ /\ phase'[on[q]] = "gone"
             /\ \A c \in Conn : phase'[c] # phase[c] => c = on[q]
             /\ \A r \in Request : on[r] # on[q] => pc'[r] = pc[r] /\ body'[r] = body[r]
          \/ /\ \/ pc[q] \in {"dispatch", "not_found", "grpc"}
                \/ kind[q] = "authority" \/ answer[q] \in Streamed
             /\ version[on[q]] = "h2" /\ phase' = phase
             /\ \A r \in Request \ {q} : pc'[r] = pc[r] /\ body'[r] = body[r]]_vars

\* A connection is accepted in the end, whatever the clients queued before it
\* do with their handshakes, unless the accept loop of its port ends first.
EveryConnectionAccepted ==
  \A c \in Conn :
    phase[c] = "backlog" ~> phase[c] \in {"handshaking", "open"} \/ ~listening[PortOf(c)]

AllowedAnswers ==
  [k \in Kind |->
     CASE k = "match"     -> {"page", "error page"}
       [] k = "missing"   -> {"not found", "error page"}
       [] k = "crooked"   -> {"redirect", "error page"}
       [] k = "grpc"      -> {"grpc reply"}
       [] k = "authority" -> {}]

Service == INSTANCE RouteService
  WITH status  <- [q \in Request |-> IF pc[q] \in Suspended THEN "waiting" ELSE pc[q]],
       Allowed <- AllowedAnswers

\* The server is a RouteService: each request is settled, once, by an answer
\* that it calls for or with its connection.
ImplementsService == Service!Spec

\* "path_and_query cannot be None": the helper never meets such a target.
PathAndQueryIsSome ==
  \A q \in Request : pc[q] = "called" => kind[q] # "authority"
=============================================================================
