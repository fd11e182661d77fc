----------------------------- MODULE TlsStream ------------------------------
(***************************************************************************)
(* The TlsStream of routetype-hyper/src/tls.rs: a connection whose first   *)
(* reads and writes perform the TLS handshake.  Around it are the task     *)
(* that polls it (hyper's), the TLS session and its future (tokio-rustls), *)
(* the socket and the client, as far as tls.rs relies on them.             *)
(*                                                                         *)
(* Records are opaque: those of the handshake, and one for each piece of   *)
(* Question and Answer, which the client and the task send.                *)
(***************************************************************************)
EXTENDS Naturals, Sequences, SequencesExt, Filters

CONSTANTS Question,  \* what the client sends if it stays long enough
          Answer,    \* what the task writes in the end
          Room       \* the records a socket buffers in either direction

ASSUME RoomAssumption == Room \in Nat \ {0}
ASSUME QuestionAssumption == Question \in Seq(ToSet(Question))
ASSUME AnswerAssumption == Answer \in Seq(ToSet(Answer))
ASSUME PiecesAssumption ==
  (ToSet(Question) \cup ToSet(Answer)) \cap {"hello", "flight", "finished", "ticket"} = {}

VARIABLES
  state,     \* TlsStream::state: "Handshaking" or "Streaming"
  accept,    \* the Accept future: "pending", or finished as "yielded" or "failed"
  io,        \* the session on its socket: awaits is the record of the client
             \* that its handshake awaits, arrived what is in the socket, plain
             \* what it has decrypted, out what it has to send, sent what the
             \* socket has to send
  asked,     \* how many records the client has sent
  seen,      \* the records that the client has received
  eof,       \* whether the client has closed its side
  reset,     \* whether the connection was reset: the socket fails from then on
  pending,   \* the polls that returned Pending since the task was last woken
  interest,  \* what the socket wakes the task for: "readable", "writable"
  woken,     \* whether it has woken the task, which has not run since
  read,      \* the pieces that poll_read returned
  ended,     \* whether it returned the end of the stream
  written,   \* how many pieces poll_write has taken
  unflushed, \* whether it took one since poll_flush was last ready
  closed     \* whether the task is done with the stream

task == <<pending, read, ended, written, unflushed, closed>>
client == <<asked, seen, eof, reset, woken>>
vars == <<state, accept, io, asked, seen, eof, reset,
          pending, interest, woken, read, ended, written, unflushed, closed>>

Init ==
  /\ state = "Handshaking"
  /\ accept = "pending"
  /\ io = [awaits |-> "hello", arrived |-> <<>>, plain |-> <<>>, out |-> <<>>, sent |-> <<>>]
  /\ asked = 0 /\ seen = <<>> /\ eof = FALSE /\ reset = FALSE
  /\ pending = {} /\ interest = {} /\ woken = FALSE
  /\ read = <<>> /\ ended = FALSE
  /\ written = 0 /\ unflushed = FALSE
  /\ closed = FALSE

-----------------------------------------------------------------------------
\* The client

\* The socket becomes readable or writable, which wakes a task that waits for it.
Event(readiness) ==
  /\ woken' = (woken \/ readiness \in interest)
  /\ interest' = interest \ {readiness}

Script == <<"hello", "finished">> \o Question

\* The client finishes the handshake once the server's flight has reached it,
\* and its data follow at once.
ClientSend ==
  /\ ~eof /\ ~reset
  /\ asked < Len(Script)
  /\ Script[asked + 1] # "hello" => "flight" \in ToSet(seen)
  /\ Len(io.arrived) < Room
  /\ io' = [io EXCEPT !.arrived = Append(@, Script[asked + 1])]
  /\ asked' = asked + 1
  /\ Event("readable")
  /\ UNCHANGED <<state, accept, seen, eof, reset, task>>

ClientReceive ==
  /\ io.sent # <<>>
  /\ io' = [io EXCEPT !.sent = Tail(@)]
  /\ seen' = Append(seen, io.sent[1])
  /\ Event("writable")
  /\ UNCHANGED <<state, accept, asked, eof, reset, task>>

ClientClose ==
  /\ ~eof /\ ~reset
  /\ eof' = TRUE
  /\ Event("readable")
  /\ UNCHANGED <<state, accept, io, asked, seen, reset, task>>

\* What the socket had to send is lost, and what had arrived may be.
Reset ==
  /\ ~reset
  /\ reset' = TRUE
  /\ \E arrived \in {io.arrived, <<>>} :
       io' = [io EXCEPT !.arrived = arrived, !.sent = <<>>]
  /\ woken' = (woken \/ interest # {})
  /\ interest' = {}
  /\ UNCHANGED <<state, accept, asked, seen, eof, task>>

-----------------------------------------------------------------------------
\* The session

\* Hand the socket as much as it takes, which is nothing once it fails.
Push(s) ==
  LET n == IF reset THEN 0
           ELSE IF Len(s.out) < Room - Len(s.sent) THEN Len(s.out) ELSE Room - Len(s.sent)
  IN [s EXCEPT !.out = SubSeq(@, n + 1, Len(@)), !.sent = @ \o SubSeq(s.out, 1, n)]

\* Take everything that has arrived: it answers the client's part of the
\* handshake and decrypts the rest.
Pull(s) ==
  LET has(record) == record \in ToSet(s.arrived)
  IN [s EXCEPT
        !.arrived = <<>>,
        !.awaits = IF has("finished") THEN "nothing" ELSE IF has("hello") THEN "finished" ELSE @,
        !.out = @ \o (IF has("hello") THEN <<"flight">> ELSE <<>>)
                  \o (IF has("finished") THEN <<"ticket">> ELSE <<>>),
        !.plain = @ \o Among(s.arrived, ToSet(Question))]

\* What a poll of Accept makes of the session, and when it is over.
Drive(s) == Push(Pull(Push(s)))
Finished(s) == s.awaits = "nothing" /\ s.out = <<>>
Fails(s) ==
  \/ s.awaits # "nothing" /\ (eof \/ reset)
  \/ s.out # <<>> /\ reset

-----------------------------------------------------------------------------
\* The task

(***************************************************************************)
(* It reads to the end and writes the answer, in whatever order, flushes   *)
(* again and again, and shuts the stream down when it has both done, or    *)
(* when the handshake has failed, if it does not go on reading and writing *)
(* all the same.                                                           *)
(***************************************************************************)
Wanted ==
  IF closed THEN {}
  ELSE {"flush"}
         \cup (IF ~ended THEN {"read"} ELSE {})
         \cup (IF written < Len(Answer) THEN {"write"} ELSE {})
         \cup (IF accept = "failed" \/ (ended /\ written = Len(Answer)) THEN {"shutdown"} ELSE {})

Runs(op) == op \in Wanted \ pending

\* A poll that cannot go on leaves the wakers of what it waits for.
Pends(op, wakers) ==
  /\ pending' = pending \cup {op}
  /\ interest' = interest \cup wakers
  /\ UNCHANGED <<read, ended, written, unflushed, closed, client>>

\* A task that was woken polls everything again.
Wake ==
  /\ woken /\ ~closed
  /\ woken' = FALSE
  /\ pending' = {}
  /\ UNCHANGED <<state, accept, io, interest, read, ended, written, unflushed, closed>>
  /\ UNCHANGED <<asked, seen, eof, reset>>

-----------------------------------------------------------------------------
\* TlsStream

\* ready!(Pin::new(accept).poll(cx)) while the future waits.
AcceptPending(op) ==
  /\ state = "Handshaking" /\ accept = "pending"
  /\ ~Finished(Drive(io)) /\ ~Fails(Drive(io))
  /\ io' = Drive(io)
  /\ Pends(op, (IF Drive(io).awaits # "nothing" THEN {"readable"} ELSE {})
                 \cup (IF Drive(io).out # <<>> THEN {"writable"} ELSE {}))
  /\ UNCHANGED <<state, accept>>

\* An error of the stream ends the connection for the task.
StreamFails ==
  /\ reset
  /\ closed' = TRUE
  /\ UNCHANGED <<pending, interest, read, ended, written, unflushed, client>>

\* Faulty form: a failed handshake is taken for one that goes on.
AcceptNeverFails(op) ==
  /\ state = "Handshaking" /\ accept = "pending"
  /\ Fails(Drive(io))
  /\ io' = Drive(io)
  /\ Pends(op, {})
  /\ UNCHANGED <<state, accept>>

\* The handshake has failed, and the task is handed the error.
AcceptFails(op) ==
  /\ state = "Handshaking" /\ accept = "pending"
  /\ Fails(Drive(io))
  /\ accept' = "failed"
  /\ io' = Drive(io)
  /\ UNCHANGED <<state, pending, interest, read, ended, written, unflushed, closed, client>>

\* The future stays in place when it has failed, and panics when it is polled
\* again, which is the end of the task.
AcceptPanics ==
  /\ state = "Handshaking" /\ accept # "pending"
  /\ closed' = TRUE
  /\ UNCHANGED <<state, accept, io, pending, interest, read, ended, written, unflushed, client>>

\* The stream to poll, which the future yields if it has not done so before.
Stream == IF state = "Handshaking" THEN Drive(io) ELSE io
StreamReady == state = "Handshaking" => accept = "pending" /\ Finished(Drive(io))

Stored == accept' = "yielded" /\ state' = "Streaming"

\* tokio-rustls's poll_read: what is decrypted, or else what arrives.
ReadStream ==
  LET s == IF Stream.plain = <<>> THEN Pull(Stream) ELSE Stream
  IN \/ \E n \in 1..Len(s.plain) :
          /\ read' = read \o SubSeq(s.plain, 1, n)
          /\ io' = [s EXCEPT !.plain = SubSeq(@, n + 1, Len(@))]
          /\ UNCHANGED <<pending, interest, ended, written, unflushed, closed, client>>
     \/ /\ s.plain = <<>> /\ eof
        /\ ended' = TRUE
        /\ io' = s
        /\ UNCHANGED <<pending, interest, read, written, unflushed, closed, client>>
     \/ /\ s.plain = <<>> /\ ~eof /\ ~reset
        /\ io' = s
        /\ Pends("read", {"readable"})
     \/ /\ s.plain = <<>>
        /\ io' = s
        /\ StreamFails

\* tokio-rustls's poll_write of the next n pieces: the session takes them all,
\* and the socket as much as it can.
WriteStream(n) ==
  io' = Push([Stream EXCEPT !.out = @ \o SubSeq(Answer, written + 1, written + n)])

\* Faulty form: the poll that ends the handshake returns without reading.
PollReadLater ==
  /\ Runs("read")
  /\ \/ AcceptPending("read") \/ AcceptFails("read") \/ AcceptPanics
     \/ state = "Handshaking" /\ StreamReady /\ Stored /\ io' = Stream /\ Pends("read", {})
     \/ state = "Streaming" /\ Stored /\ ReadStream

PollRead ==
  /\ Runs("read")
  /\ \/ AcceptPending("read") \/ AcceptFails("read") \/ AcceptPanics
     \/ StreamReady /\ Stored /\ ReadStream

\* Two faulty forms: the result of the write that ends the handshake is lost,
\* and the task writes again; or it is reported twice.
PollWriteForgets ==
  /\ Runs("write")
  /\ \/ AcceptPending("write") \/ AcceptFails("write") \/ AcceptPanics
     \/ StreamReady /\ Stored /\ io' = Stream /\ StreamFails
     \/ /\ StreamReady /\ Stored /\ ~reset
        /\ \E n \in 1..Len(Answer) - written :
             /\ WriteStream(n)
             /\ written' = IF state = "Handshaking" THEN written ELSE written + n
        /\ unflushed' = TRUE
        /\ UNCHANGED <<pending, interest, read, ended, closed, client>>

PollWriteReportsTwice ==
  /\ Runs("write")
  /\ \/ AcceptPending("write") \/ AcceptFails("write") \/ AcceptPanics
     \/ StreamReady /\ Stored /\ io' = Stream /\ StreamFails
     \/ /\ StreamReady /\ Stored /\ ~reset
        /\ \E n \in 1..Len(Answer) - written :
             /\ WriteStream(n)
             /\ written' = IF state = "Handshaking" THEN written + 2 * n ELSE written + n
        /\ unflushed' = TRUE
        /\ UNCHANGED <<pending, interest, read, ended, closed, client>>

PollWrite ==
  /\ Runs("write")
  /\ \/ AcceptPending("write") \/ AcceptFails("write") \/ AcceptPanics
     \/ StreamReady /\ Stored /\ io' = Stream /\ StreamFails
     \/ /\ StreamReady /\ Stored /\ ~reset
        /\ \E n \in 1..Len(Answer) - written :
             /\ WriteStream(n)
             /\ written' = written + n
        /\ unflushed' = TRUE
        /\ UNCHANGED <<pending, interest, read, ended, closed, client>>

\* Faulty form: there is never anything to flush.
PollFlushReady ==
  /\ Runs("flush")
  /\ unflushed' = FALSE
  /\ UNCHANGED <<state, accept, io, pending, interest, read, ended, written, closed, client>>

\* During the handshake there is nothing to flush.
PollFlush ==
  /\ Runs("flush")
  /\ io' = IF state = "Handshaking" THEN io ELSE Push(io)
  /\ \/ /\ state = "Handshaking" \/ io'.out = <<>>
        /\ unflushed' = FALSE
        /\ UNCHANGED <<pending, interest, read, ended, written, closed, client>>
     \/ /\ state = "Streaming" /\ io'.out # <<>> /\ ~reset
        /\ Pends("flush", {"writable"})
     \/ /\ state = "Streaming" /\ io'.out # <<>>
        /\ StreamFails
  /\ UNCHANGED <<state, accept>>

\* During the handshake the connection is left as it is.
PollShutdown ==
  /\ Runs("shutdown")
  /\ io' = IF state = "Handshaking" THEN io ELSE Push(io)
  /\ \/ /\ state = "Handshaking" \/ io'.out = <<>>
        /\ closed' = TRUE
        /\ UNCHANGED <<pending, interest, read, ended, written, unflushed, client>>
     \/ /\ state = "Streaming" /\ io'.out # <<>> /\ ~reset
        /\ Pends("shutdown", {"writable"})
     \/ /\ state = "Streaming" /\ io'.out # <<>>
        /\ StreamFails
  /\ UNCHANGED <<state, accept>>

-----------------------------------------------------------------------------

Task == PollRead \/ PollWrite \/ PollFlush \/ PollShutdown

Next == ClientSend \/ ClientReceive \/ ClientClose \/ Reset \/ Wake \/ Task

(***************************************************************************)
(* The executor runs a task that was woken until all its polls are         *)
(* pending, and the client receives what was sent to it.  It need not go   *)
(* on with its handshake, send its data or close.                          *)
(***************************************************************************)
Fairness == WF_vars(Task) /\ WF_vars(Wake) /\ WF_vars(ClientReceive)

Spec == Init /\ [][Next]_vars /\ Fairness

-----------------------------------------------------------------------------

Record == ToSet(Script) \cup {"flight", "ticket"} \cup ToSet(Answer)

\* Every variable has its type.
TypeOK ==
  /\ state \in {"Handshaking", "Streaming"}
  /\ accept \in {"pending", "yielded", "failed"}
  /\ io.awaits \in {"hello", "finished", "nothing"}
  /\ \A f \in {"arrived", "plain", "out", "sent"} : io[f] \in Seq(Record)
  /\ Len(io.arrived) <= Room /\ Len(io.sent) <= Room
  /\ asked \in 0..Len(Script) /\ seen \in Seq(Record)
  /\ eof \in BOOLEAN /\ reset \in BOOLEAN
  /\ pending \subseteq {"read", "write", "flush", "shutdown"}
  /\ interest \subseteq {"readable", "writable"} /\ woken \in BOOLEAN
  /\ read \in Seq(ToSet(Question)) /\ written \in 0..Len(Answer)
  /\ ended \in BOOLEAN /\ unflushed \in BOOLEAN /\ closed \in BOOLEAN

\* What was written before a flush or a shutdown that reported success has been
\* handed to the socket, although both do nothing during the handshake.  Only a
\* connection that is reset is given up with something left to send.
FlushedIsSent ==
  ~unflushed \/ (closed /\ ~reset) => ToSet(io.out) \cap ToSet(Answer) = {}

\* The client's data, the first of which may arrive together with the end of
\* its handshake, reach the reader in order, once, and in the end.
Upload == INSTANCE ByteStream
  WITH Data <- Question,
       sent <- IF asked <= 2 THEN 0 ELSE asked - 2,
       got  <- read,
       cut  <- reset

UpIsByteStream == Upload!Spec

\* So do the pieces that poll_write accepted reach the client, the one that it
\* took while it completed the handshake among them.
Download == INSTANCE ByteStream
  WITH Data <- Answer,
       sent <- written,
       got  <- Among(seen, ToSet(Answer)),
       cut  <- reset

DownIsByteStream == Download!Spec

\* A client that goes away, during the handshake or later, or a connection that
\* is reset, leaves no task that sleeps forever, and none that goes on polling a
\* handshake that has failed.
ConnectionEnds == eof \/ reset ~> closed
=============================================================================
