--------------------------- MODULE TlsStreamProofs ---------------------------
(***************************************************************************)
(* What was flushed has been sent, and both directions of the stream are   *)
(* byte streams: nothing is lost, repeated or out of order, whoever        *)
(* completes the handshake and whatever the sizes.                         *)
(***************************************************************************)
EXTENDS TlsStream, SequenceFacts

\* What a flush leaves to be sent: parts of the handshake.
Handshake == {"flight", "ticket"}
Outgoing == Handshake \cup ToSet(Answer)

\* A session whose unsent records are in S, over a socket that is not overfull.
Holds(s, S) ==
  /\ DOMAIN s = {"awaits", "arrived", "plain", "out", "sent"}
  /\ s.out \in Seq(S)
  /\ s.sent \in Seq(Outgoing)
  /\ Len(s.sent) <= Room

\* What the socket takes it takes from the front.
LEMMA PushHolds ==
  ASSUME NEW s, NEW S \in SUBSET Outgoing, Holds(s, S)
  PROVE  Holds(Push(s), S)
<1> DEFINE free == IF Len(s.out) < Room - Len(s.sent) THEN Len(s.out) ELSE Room - Len(s.sent)
           n == IF reset THEN 0 ELSE free
<1>1. /\ n \in 0..Len(s.out)
      /\ n <= Room - Len(s.sent)
  BY RoomAssumption DEF Holds
<1>2. Push(s) = [s EXCEPT !.out = SubSeq(s.out, n + 1, Len(s.out)), !.sent = s.sent \o SubSeq(s.out, 1, n)]
  BY DEF Push
<1> HIDE DEF n
<1>3. SubSeq(s.out, n + 1, Len(s.out)) \in Seq(S)
  BY <1>1 DEF Holds
<1>4. SubSeq(s.out, 1, n) \in Seq(Outgoing) /\ Len(SubSeq(s.out, 1, n)) = n
  BY <1>1 DEF Holds
<1>5. s.sent \o SubSeq(s.out, 1, n) \in Seq(Outgoing) /\ Len(s.sent \o SubSeq(s.out, 1, n)) <= Room
  BY <1>1, <1>4, RoomAssumption DEF Holds
<1> QED
  BY <1>2, <1>3, <1>5 DEF Holds

\* What arrives makes the session answer with parts of the handshake only.
LEMMA PullHolds ==
  ASSUME NEW s, NEW S \in SUBSET Outgoing, Handshake \subseteq S, Holds(s, S)
  PROVE  Holds(Pull(s), S)
<1>1. ASSUME NEW P, NEW Q, P \in BOOLEAN, Q \in BOOLEAN
      PROVE  s.out \o (IF P THEN <<"flight">> ELSE <<>>) \o (IF Q THEN <<"ticket">> ELSE <<>>) \in Seq(S)
  BY <1>1 DEF Holds, Handshake
<1> QED
  BY <1>1 DEF Pull, Holds

LEMMA DriveHolds ==
  ASSUME NEW s, NEW S \in SUBSET Outgoing, Handshake \subseteq S, Holds(s, S)
  PROVE  Holds(Drive(s), S)
  BY PushHolds, PullHolds DEF Drive

LEMMA HoldsMore ==
  ASSUME NEW s, Holds(s, Handshake)
  PROVE  Holds(s, Outgoing)
BY DEF Holds, Handshake, Outgoing

-----------------------------------------------------------------------------
\* Nothing that was written is unsent: nothing was written since the last flush
\* or since the beginning, or the stream was shut down.
Flushed == ~unflushed \/ state = "Handshaking" \/ (closed /\ ~reset)

UnsentIsKnown ==
  /\ written \in 0..Len(Answer)
  /\ Holds(io, Outgoing)
  /\ Flushed => Holds(io, Handshake)

LEMMA NextUnsent == UnsentIsKnown /\ [Next]_vars => UnsentIsKnown'
<1> SUFFICES ASSUME UnsentIsKnown, [Next]_vars PROVE UnsentIsKnown'
  OBVIOUS
<1> Handshake \subseteq Outgoing
  BY DEF Outgoing
<1>0. ASSUME Holds(io, Outgoing) => Holds(io', Outgoing),
             Holds(io, Handshake) => Holds(io', Handshake),
             Flushed' => Flushed,
             UNCHANGED written
      PROVE  UnsentIsKnown'
  BY <1>0 DEF UnsentIsKnown
<1>1. ASSUME io'.out = io.out, DOMAIN io' = DOMAIN io,
             io'.sent \in Seq(Outgoing), Len(io'.sent) <= Room,
             Flushed' => Flushed, UNCHANGED written
      PROVE  UnsentIsKnown'
  BY <1>1 DEF UnsentIsKnown, Holds
<1>2. ASSUME UNCHANGED io, Flushed' => Flushed, UNCHANGED written
      PROVE  UnsentIsKnown'
  BY <1>2, <1>0
<1>3. Holds(Stream, Outgoing) /\ (Flushed => Holds(Stream, Handshake))
  BY DriveHolds DEF Stream, UnsentIsKnown
<1>4. Holds(Drive(io), Outgoing) /\ (Flushed => Holds(Drive(io), Handshake))
  BY DriveHolds DEF UnsentIsKnown
<1>5. Holds(Push(io), Outgoing) /\ (Flushed => Holds(Push(io), Handshake))
  BY PushHolds DEF UnsentIsKnown
<1>6. ASSUME NEW op, AcceptPending(op) \/ AcceptFails(op) \/ AcceptPanics PROVE UnsentIsKnown'
  <2>1. CASE AcceptPending(op) \/ AcceptFails(op)
    <3>1. io' = Drive(io) /\ UNCHANGED <<state, unflushed, closed, reset, written>>
      BY <2>1 DEF AcceptPending, AcceptFails, Pends, client
    <3> QED
      BY <3>1, <1>4 DEF UnsentIsKnown, Flushed
  <2>2. CASE AcceptPanics
    BY <2>2, <1>2 DEF AcceptPanics, Flushed
  <2> QED
    BY <1>6, <2>1, <2>2
<1>7. ASSUME io' = Stream, UNCHANGED written, StreamFails, Stored PROVE UnsentIsKnown'
  BY <1>7, <1>3 DEF UnsentIsKnown, Flushed, StreamFails, Stored, client
<1>8. CASE UNCHANGED vars
  BY <1>8, <1>2 DEF vars, Flushed
<1>9. CASE ClientSend
  BY <1>9, <1>1 DEF ClientSend, task, Flushed, UnsentIsKnown, Holds
<1>10. CASE ClientReceive
  <2>1. Tail(io.sent) \in Seq(Outgoing) /\ Len(Tail(io.sent)) <= Room
    BY <1>10, RoomAssumption DEF ClientReceive, UnsentIsKnown, Holds
  <2> QED
    BY <2>1, <1>10, <1>1 DEF ClientReceive, task, Flushed, UnsentIsKnown, Holds
<1>11. CASE ClientClose
  BY <1>11, <1>2 DEF ClientClose, task, Flushed
<1>12. CASE Reset
  BY <1>12, <1>1, RoomAssumption DEF Reset, task, Flushed, UnsentIsKnown, Holds
<1>13. CASE Wake
  BY <1>13, <1>2 DEF Wake, Flushed
<1>14. CASE PollRead
  <2>1. CASE AcceptPending("read") \/ AcceptFails("read") \/ AcceptPanics
    BY <2>1, <1>14, <1>6 DEF PollRead
  <2>2. CASE Stored /\ ReadStream
    <3> DEFINE s == IF Stream.plain = <<>> THEN Pull(Stream) ELSE Stream
    <3>1. Holds(s, Outgoing) /\ (Flushed => Holds(s, Handshake))
      BY <1>3, PullHolds
    <3>2. \/ io' = s
          \/ \E n \in 1..Len(s.plain) :
               io' = [s EXCEPT !.plain = SubSeq(s.plain, n + 1, Len(s.plain))]
      BY <2>2 DEF ReadStream
    <3>3. UNCHANGED <<unflushed, written, reset>> /\ (closed' => closed \/ reset)
      BY <2>2 DEF ReadStream, Pends, StreamFails, client
    <3> HIDE DEF s
    <3>4. Holds(io', Outgoing) /\ (Flushed => Holds(io', Handshake))
      BY <3>1, <3>2 DEF Holds
    <3> QED
      BY <2>2, <3>3, <3>4 DEF Stored, UnsentIsKnown, Flushed
  <2> QED
    BY <1>14, <2>1, <2>2 DEF PollRead
<1>15. CASE PollWrite
  <2>1. CASE AcceptPending("write") \/ AcceptFails("write") \/ AcceptPanics
    BY <2>1, <1>15, <1>6 DEF PollWrite
  <2>2. CASE Stored /\ io' = Stream /\ StreamFails
    BY <2>2, <1>7 DEF StreamFails
  <2>3. ASSUME Stored, ~reset, NEW n \in 1..Len(Answer) - written, WriteStream(n),
               written' = written + n, unflushed' = TRUE, UNCHANGED <<closed, client>>
        PROVE  UnsentIsKnown'
    <3> DEFINE more == SubSeq(Answer, written + 1, written + n)
               s == [Stream EXCEPT !.out = Stream.out \o more]
    <3>1. written' \in 0..Len(Answer) /\ more \in Seq(Outgoing)
      BY <2>3, AnswerAssumption DEF UnsentIsKnown, Outgoing
    <3>2. Holds(s, Outgoing)
      BY <1>3, <3>1 DEF Holds
    <3>3. io' = Push(s)
      BY <2>3 DEF WriteStream
    <3>4. ~closed
      BY <1>15 DEF PollWrite, Runs, Wanted
    <3> HIDE DEF s
    <3> QED
      BY <2>3, <3>1, <3>2, <3>3, <3>4, PushHolds DEF UnsentIsKnown, Flushed, Stored
  <2> QED
    BY <1>15, <2>1, <2>2, <2>3 DEF PollWrite
<1>16. CASE PollFlush
  <2>1. io' = (IF state = "Handshaking" THEN io ELSE Push(io)) /\ UNCHANGED <<state, written, reset>>
    BY <1>16 DEF PollFlush, Pends, StreamFails, client
  <2>2. \/ state = "Handshaking"
        \/ io'.out = <<>>
        \/ UNCHANGED unflushed /\ (closed' => closed \/ reset)
    BY <1>16 DEF PollFlush, Pends, StreamFails
  <2> QED
    BY <2>1, <2>2, <1>5 DEF UnsentIsKnown, Flushed, Holds
<1>17. CASE PollShutdown
  <2>1. io' = (IF state = "Handshaking" THEN io ELSE Push(io)) /\ UNCHANGED <<state, written, reset, unflushed>>
    BY <1>17 DEF PollShutdown, Pends, StreamFails, client
  <2>2. \/ state = "Handshaking"
        \/ io'.out = <<>>
        \/ closed' => closed \/ reset
    BY <1>17 DEF PollShutdown, Pends, StreamFails
  <2> QED
    BY <2>1, <2>2, <1>5 DEF UnsentIsKnown, Flushed, Holds
<1> QED
  BY <1>8, <1>9, <1>10, <1>11, <1>12, <1>13, <1>14, <1>15, <1>16, <1>17 DEF Next, Task

\* A flush or a shutdown that reports success has handed everything that was
\* written to the socket, for any answer and a socket of any size, although
\* both do nothing during the handshake.
THEOREM FlushSends == Spec => []FlushedIsSent
<1>1. Init => UnsentIsKnown
  BY RoomAssumption, AnswerAssumption DEF Init, UnsentIsKnown, Holds
<1>2. UnsentIsKnown => FlushedIsSent
  <2> SUFFICES ASSUME UnsentIsKnown, Flushed PROVE ToSet(io.out) \cap ToSet(Answer) = {}
    BY DEF FlushedIsSent, Flushed
  <2>1. ToSet(io.out) \subseteq Handshake
    BY DEF UnsentIsKnown, Holds, ToSet
  <2> QED
    BY <2>1, PiecesAssumption DEF Handshake
<1> QED
  BY <1>1, <1>2, NextUnsent, PTL DEF Spec

-----------------------------------------------------------------------------
\* The data of the two directions

Pieces == ToSet(Question)

\* No piece is taken for a record of the handshake.
LEMMA PiecesApart == Pieces \cap {"hello", "finished", "flight", "ticket"} = {}
BY PiecesAssumption DEF Pieces

\* The client sends two records of the handshake and then the question.
LEMMA ScriptFacts ==
  /\ Question \in Seq(Pieces) /\ Script \in Seq(ToSet(Script))
  /\ Len(Script) = Len(Question) + 2 /\ Len(Question) \in Nat
  /\ Script[1] = "hello" /\ Script[2] = "finished"
  /\ \A i \in 1..Len(Question) : Script[i + 2] = Question[i]
  /\ Pieces \subseteq ToSet(Script) /\ {"hello", "finished"} \subseteq ToSet(Script)
<1>1. Question \in Seq(Pieces)
  BY QuestionAssumption DEF Pieces
<1> DEFINE T == {"hello", "finished"} \cup Pieces
           u == <<"hello", "finished">>
<1>2. u \in Seq(T) /\ Len(u) = 2 /\ u[1] = "hello" /\ u[2] = "finished" /\ Question \in Seq(T)
  BY <1>1
<1> HIDE DEF T, u
<1>3. /\ u \o Question \in Seq(T) /\ Len(u \o Question) = Len(Question) + 2 /\ Len(Question) \in Nat
      /\ (u \o Question)[1] = "hello" /\ (u \o Question)[2] = "finished"
      /\ \A i \in 1..Len(Question) : (u \o Question)[i + 2] = Question[i]
  <2> DEFINE q == Question
  <2>1. u \in Seq(T) /\ q \in Seq(T)
    BY <1>2
  <2> HIDE DEF q
  <2>2. u \o q \in Seq(T) /\ Len(u \o q) = Len(u) + Len(q) /\ Len(q) \in Nat
    BY <2>1
  <2>3. \A i \in 1..Len(u) + Len(q) : (u \o q)[i] = IF i <= Len(u) THEN u[i] ELSE q[i - Len(u)]
    BY <2>1, ConcatElement
  <2>4. (u \o q)[1] = "hello" /\ (u \o q)[2] = "finished"
    BY <1>2, <2>2, <2>3
  <2>5. ASSUME NEW i \in 1..Len(q) PROVE (u \o q)[i + 2] = q[i]
    <3>1. i + 2 \in 1..Len(u) + Len(q) /\ ~(i + 2 <= Len(u)) /\ (i + 2) - Len(u) = i
      BY <1>2, <2>2
    <3> QED BY <2>3, <3>1
  <2>6. Len(u \o q) = Len(q) + 2
    BY <1>2, <2>2
  <2> QED BY <2>2, <2>4, <2>5, <2>6 DEF q
<1>4. Script = u \o Question
  BY DEF Script, u
<1>5. Script \in Seq(T) /\ Len(Script) = Len(Question) + 2
      /\ Script[1] = "hello" /\ Script[2] = "finished"
      /\ \A i \in 1..Len(Question) : Script[i + 2] = Question[i]
  BY <1>3, <1>4
<1>6. DOMAIN Script = 1..Len(Script) /\ DOMAIN Question = 1..Len(Question)
  BY <1>1, <1>5
<1>7. ToSet(Script) = {Script[i] : i \in 1..Len(Script)} /\ Pieces = {Question[i] : i \in 1..Len(Question)}
  BY <1>6 DEF ToSet, Pieces
<1>8. Script \in Seq(ToSet(Script))
  BY <1>5, <1>7
<1>9. Pieces \subseteq ToSet(Script)
  BY <1>3, <1>5, <1>7
<1>10. 1 \in 1..Len(Script) /\ 2 \in 1..Len(Script)
  BY <1>3, <1>5
<1>11. {"hello", "finished"} \subseteq ToSet(Script)
  BY <1>5, <1>7, <1>10
<1> QED BY <1>1, <1>3, <1>5, <1>8, <1>9, <1>11

\* How many pieces of the question are among the first k records.
SentOf(k) == IF k <= 2 THEN 0 ELSE k - 2

\* What it sends between two points in time holds the pieces of the question
\* that it has sent between them.
LEMMA ScriptData ==
  ASSUME NEW b \in 0..Len(Script), NEW k \in 0..b
  PROVE  Among(SubSeq(Script, k + 1, b), Pieces) = SubSeq(Question, SentOf(k) + 1, SentOf(b))
<1>0. b \in Nat /\ k \in Nat /\ Len(Question) \in Nat /\ Len(Script) = Len(Question) + 2
      /\ Script \in Seq(ToSet(Script)) /\ Question \in Seq(Pieces)
  BY ScriptFacts
<1>1. ASSUME NEW j \in 0..Len(Script), j <= 2, k <= j
      PROVE  Among(SubSeq(Script, k + 1, j), Pieces) = <<>>
  <2> DEFINE s == SubSeq(Script, k + 1, j)
  <2>1. \A i \in k + 1..j : Script[i] \in {"hello", "finished"}
    <3>1. \A i \in k + 1..j : i = 1 \/ i = 2
      BY <1>0, <1>1
    <3> QED BY <3>1, ScriptFacts
  <2>2. s \in Seq({"hello", "finished"})
    BY <1>0, <1>1, <2>1
  <2> HIDE DEF s
  <2> QED BY <2>2, AmongNone, PiecesApart DEF s
<1>2. ASSUME NEW j \in 2..b
      PROVE  Among(SubSeq(Script, j + 1, b), Pieces) = SubSeq(Question, j - 1, b - 2)
  <2> DEFINE s == SubSeq(Script, j + 1, b)
             q == SubSeq(Question, j - 1, b - 2)
  <2>1. s \in Seq(ToSet(Script)) /\ Len(s) = b - j /\ \A i \in 1..b - j : s[i] = Script[j + i]
    BY <1>0
  <2>2. q \in Seq(Pieces) /\ Len(q) = b - j /\ \A i \in 1..b - j : q[i] = Question[j - 2 + i]
    BY <1>0
  <2>3. \A i \in 1..b - j : Script[j + i] = Question[j - 2 + i]
    <3>1. \A i \in 1..b - j : j - 2 + i \in 1..Len(Question) /\ (j - 2 + i) + 2 = j + i
      BY <1>0
    <3> QED BY <3>1, ScriptFacts
  <2> HIDE DEF s, q
  <2>4. q \in Seq(ToSet(Script))
    BY <2>2, ScriptFacts
  <2>5. s = q
    BY <2>1, <2>2, <2>3, <2>4, SeqEqual
  <2>6. Among(q, Pieces) = q
    BY <2>2, AmongAll
  <2> QED BY <2>5, <2>6 DEF s, q
<1>3. CASE b <= 2
  <2>1. SentOf(k) = 0 /\ SentOf(b) = 0
    BY <1>0, <1>3 DEF SentOf
  <2>2. SubSeq(Question, 1, 0) = <<>> /\ 0 + 1 = 1
    BY <1>0
  <2>3. Among(SubSeq(Script, k + 1, b), Pieces) = <<>>
    BY <1>0, <1>1, <1>3
  <2> QED BY <2>1, <2>2, <2>3
<1>4. CASE ~(b <= 2) /\ k <= 2
  <2>1. SentOf(k) = 0 /\ SentOf(b) = b - 2
    BY <1>0, <1>4 DEF SentOf
  <2>2. 2 \in 0..b /\ k \in 0..2 /\ 2 \in 0..Len(Script) /\ 2 \in 2..b
    BY <1>0, <1>4
  <2> DEFINE x == SubSeq(Script, k + 1, 2)
             y == SubSeq(Script, 2 + 1, b)
  <2>3. SubSeq(Script, k + 1, b) = x \o y
    BY <1>0, <2>2, SubSeqJoin
  <2>4. x \in Seq(ToSet(Script)) /\ y \in Seq(ToSet(Script))
    BY <1>0, <2>2
  <2>5. Among(x, Pieces) = <<>>
    BY <1>1, <1>4, <2>2
  <2>6. Among(y, Pieces) = SubSeq(Question, 2 - 1, b - 2)
    BY <1>2, <2>2
  <2> HIDE DEF x, y
  <2>7. Among(x \o y, Pieces) = <<>> \o SubSeq(Question, 2 - 1, b - 2)
    <3>1. Among(x \o y, Pieces) = Among(x, Pieces) \o Among(y, Pieces)
      BY <2>4, AmongConcat
    <3> QED BY <2>5, <2>6, <3>1
  <2>8. SubSeq(Question, 2 - 1, b - 2) \in Seq(Pieces) /\ 2 - 1 = 0 + 1
    BY <1>0, <1>4
  <2>9. <<>> \o SubSeq(Question, 2 - 1, b - 2) = SubSeq(Question, 2 - 1, b - 2)
    BY <2>8, ConcatEmptySeq
  <2> QED BY <2>1, <2>3, <2>7, <2>8, <2>9
<1>5. CASE ~(b <= 2) /\ ~(k <= 2)
  <2>1. SentOf(k) = k - 2 /\ SentOf(b) = b - 2 /\ k \in 2..b /\ (k - 2) + 1 = k - 1
    BY <1>0, <1>5 DEF SentOf
  <2> QED BY <1>2, <2>1
<1> QED BY <1>3, <1>4, <1>5

\* What the variables outside the session hold, as far as the data go.
Counted ==
  /\ asked \in 0..Len(Script)
  /\ written \in 0..Len(Answer)
  /\ read \in Seq(Pieces)
  /\ seen \in Seq(Outgoing)
  /\ reset \in BOOLEAN

\* A session has its type, and its socket is not overfull.
Session ==
  [awaits : {"hello", "finished", "nothing"}, arrived : Seq(ToSet(Script)),
   plain : Seq(Pieces), out : Seq(Outgoing), sent : Seq(Outgoing)]

SessionOk(s) == s \in Session /\ Len(s.arrived) <= Room /\ Len(s.sent) <= Room

\* What the session has decrypted goes on where the reader has got, and what
\* waits in the socket goes on where the session has got.  Only a connection
\* that is reset may leave a gap, and after it nothing arrives.
Taken(s) == asked - Len(s.arrived)

InOrder(s) ==
  /\ Len(s.arrived) <= asked
  /\ s.arrived = SubSeq(Script, Taken(s) + 1, asked)
  /\ \E k \in 0..SentOf(Taken(s)) :
       /\ read \o s.plain = SubSeq(Question, 1, k)
       /\ s.arrived # <<>> \/ ~reset => k = SentOf(Taken(s))

\* What the client has got, what the socket has and what the session has are
\* together what was written.  A connection that is reset has lost the end.
Got(x) == Among(x, ToSet(Answer))

Delivers(s, w) ==
  /\ ~reset => Got(seen) \o (Got(s.sent) \o Got(s.out)) = SubSeq(Answer, 1, w)
  /\ reset => s.sent = <<>> /\ \E k \in 0..w : Got(seen) = SubSeq(Answer, 1, k)

\* What the socket takes it takes in order, so that what it has and what is
\* left are together what they were.
LEMMA PushShape ==
  ASSUME NEW s, SessionOk(s)
  PROVE  /\ SessionOk(Push(s))
         /\ Push(s).awaits = s.awaits /\ Push(s).arrived = s.arrived /\ Push(s).plain = s.plain
         /\ Push(s).sent \o Push(s).out = s.sent \o s.out
         /\ reset => Push(s).sent = s.sent
<1> DEFINE free == IF Len(s.out) < Room - Len(s.sent) THEN Len(s.out) ELSE Room - Len(s.sent)
           n == IF reset THEN 0 ELSE free
           f == SubSeq(s.out, 1, n)
           b == SubSeq(s.out, n + 1, Len(s.out))
<1>0. s.out \in Seq(Outgoing) /\ s.sent \in Seq(Outgoing) /\ Len(s.out) \in Nat /\ Len(s.sent) \in Nat
      /\ Len(s.sent) <= Room /\ Room \in Nat
  BY RoomAssumption DEF SessionOk, Session
<1>1. n \in 0..Len(s.out) /\ n <= Room - Len(s.sent) /\ (reset => n = 0)
  <2>1. ASSUME NEW i \in Nat, NEW j \in Nat, NEW m \in Nat, j <= m
        PROVE  LET k == IF reset THEN 0 ELSE IF i < m - j THEN i ELSE m - j
               IN k \in 0..i /\ k <= m - j /\ (reset => k = 0)
    BY <2>1
  <2> HIDE DEF n
  <2>2. LET k == IF reset THEN 0 ELSE IF Len(s.out) < Room - Len(s.sent) THEN Len(s.out) ELSE Room - Len(s.sent)
               IN k \in 0..Len(s.out) /\ k <= Room - Len(s.sent) /\ (reset => k = 0)
    BY <1>0, <2>1, Zenon
  <2> QED BY <2>2, Zenon DEF n
<1>2. Push(s) = [s EXCEPT !.out = b, !.sent = s.sent \o f]
  BY DEF Push, free
<1> HIDE DEF n
<1>3. /\ f \in Seq(Outgoing) /\ b \in Seq(Outgoing) /\ s.sent \o f \in Seq(Outgoing)
      /\ Len(s.sent \o f) = Len(s.sent) + n
      /\ (s.sent \o f) \o b = s.sent \o s.out
  <2>1. f \in Seq(Outgoing) /\ b \in Seq(Outgoing) /\ Len(f) = n
    BY <1>0, <1>1
  <2>2. f \o b = s.out
    BY <1>0, <1>1, SplitAt
  <2> HIDE DEF f, b
  <2>3. s.sent \o f \in Seq(Outgoing) /\ Len(s.sent \o f) = Len(s.sent) + Len(f)
    BY <1>0, <2>1, ConcatProperties
  <2>4. (s.sent \o f) \o b = s.sent \o (f \o b)
    <3> DEFINE p == s.sent
    <3>1. p \in Seq(Outgoing) /\ f \in Seq(Outgoing) /\ b \in Seq(Outgoing)
      BY <1>0, <2>1
    <3> HIDE DEF p
    <3>2. (p \o f) \o b = p \o (f \o b)
      BY <3>1, ConcatAssociative
    <3> QED BY <3>2 DEF p
  <2> QED BY <2>1, <2>2, <2>3, <2>4
<1>4. reset => s.sent \o f = s.sent
  <2> SUFFICES ASSUME reset PROVE s.sent \o f = s.sent
    OBVIOUS
  <2>1. f = <<>>
    BY <1>0, <1>1
  <2> QED BY <1>0, <2>1, ConcatEmptySeq
<1> HIDE DEF f, b
<1>5. Len(s.sent \o f) <= Room
  BY <1>0, <1>1, <1>3
<1>6. /\ Push(s).awaits = s.awaits /\ Push(s).arrived = s.arrived /\ Push(s).plain = s.plain
      /\ Push(s).out = b /\ Push(s).sent = s.sent \o f
  BY <1>2 DEF SessionOk, Session
<1>7. Push(s) \in Session
  BY <1>2, <1>3 DEF SessionOk, Session
<1> QED BY <1>3, <1>4, <1>5, <1>6, <1>7 DEF SessionOk

\* The records of the handshake are no part of the answer.
LEMMA HandshakeOut ==
  ASSUME NEW q \in Seq(Outgoing), NEW P \in BOOLEAN, NEW Q \in BOOLEAN
  PROVE  LET t == q \o (IF P THEN <<"flight">> ELSE <<>>) \o (IF Q THEN <<"ticket">> ELSE <<>>)
         IN t \in Seq(Outgoing) /\ Got(t) = Got(q)
<1> DEFINE a == IF P THEN <<"flight">> ELSE <<>>
           b == IF Q THEN <<"ticket">> ELSE <<>>
<1>1. a \in Seq(Handshake) /\ b \in Seq(Handshake) /\ a \in Seq(Outgoing) /\ b \in Seq(Outgoing)
  <2>1. {"flight", "ticket"} \subseteq Handshake /\ Handshake \subseteq Outgoing
    BY DEF Handshake, Outgoing
  <2>2. a \in Seq(Handshake) /\ b \in Seq(Handshake)
    BY <2>1
  <2>3. a \in Seq(Outgoing) /\ b \in Seq(Outgoing)
    BY <2>1
  <2> QED BY <2>2, <2>3
<1>2. Handshake \cap ToSet(Answer) = {}
  BY PiecesAssumption DEF Handshake
<1>3. Got(a) = <<>> /\ Got(b) = <<>>
  BY <1>1, <1>2, AmongNone DEF Got
<1> HIDE DEF a, b
<1>4. q \o a \in Seq(Outgoing) /\ (q \o a) \o b \in Seq(Outgoing)
  BY <1>1, ConcatProperties
<1>5. Got(q) \in Seq(ToSet(Answer) \cap Outgoing)
  BY AmongType DEF Got
<1>6. Got(q \o a) = Got(q)
  <2>1. Got(q \o a) = Got(q) \o Got(a)
    BY <1>1, AmongConcat DEF Got
  <2> QED BY <1>3, <1>5, <2>1, ConcatEmptySeq
<1>7. Got((q \o a) \o b) = Got(q \o a)
  <2>1. Got((q \o a) \o b) = Got(q \o a) \o Got(b)
    <3> DEFINE u == q \o a
    <3>1. u \in Seq(Outgoing) /\ b \in Seq(Outgoing)
      BY <1>1, <1>4
    <3> HIDE DEF u
    <3>2. Among(u \o b, ToSet(Answer)) = Among(u, ToSet(Answer)) \o Among(b, ToSet(Answer))
      BY <3>1, AmongConcat
    <3> QED BY <3>2 DEF Got, u
  <2> QED BY <1>3, <1>5, <1>6, <2>1, ConcatEmptySeq
<1> QED BY <1>4, <1>6, <1>7 DEF a, b

\* All that has arrived is taken, and the pieces among it are decrypted.
LEMMA PullShape ==
  ASSUME NEW s, SessionOk(s)
  PROVE  /\ SessionOk(Pull(s))
         /\ Pull(s).arrived = <<>>
         /\ Pull(s).plain = s.plain \o Among(s.arrived, Pieces)
         /\ Got(Pull(s).out) = Got(s.out)
         /\ Pull(s).sent = s.sent
<1> DEFINE h == "hello" \in ToSet(s.arrived)
           f == "finished" \in ToSet(s.arrived)
           t == s.out \o (IF h THEN <<"flight">> ELSE <<>>) \o (IF f THEN <<"ticket">> ELSE <<>>)
           a == IF f THEN "nothing" ELSE IF h THEN "finished" ELSE s.awaits
           p == s.plain \o Among(s.arrived, Pieces)
<1>0. /\ s.out \in Seq(Outgoing) /\ s.arrived \in Seq(ToSet(Script)) /\ s.plain \in Seq(Pieces)
      /\ s.sent \in Seq(Outgoing) /\ Len(s.sent) <= Room /\ Room \in Nat
  BY RoomAssumption DEF SessionOk, Session
<1>1. Pull(s) = [s EXCEPT !.arrived = <<>>, !.awaits = a, !.out = t, !.plain = p]
  BY DEF Pull, Pieces
<1>2. t \in Seq(Outgoing) /\ Got(t) = Got(s.out)
  BY <1>0, HandshakeOut
<1>3. a \in {"hello", "finished", "nothing"}
  BY DEF SessionOk, Session
<1>4. p \in Seq(Pieces)
  <2> DEFINE w == Among(s.arrived, Pieces)
  <2>1. w \in Seq(Pieces \cap ToSet(Script))
    BY <1>0, AmongType
  <2> HIDE DEF w
  <2>2. w \in Seq(Pieces)
    BY <2>1
  <2> QED BY <1>0, <2>2, ConcatProperties DEF w
<1> HIDE DEF h, f, t, a, p
<1>5. <<>> \in Seq(ToSet(Script)) /\ Len(<<>>) = 0
  OBVIOUS
<1>6. Pull(s) \in Session
  BY <1>1, <1>2, <1>3, <1>4, <1>5 DEF SessionOk, Session
<1>7. Pull(s).arrived = <<>> /\ Pull(s).plain = p /\ Pull(s).out = t /\ Pull(s).sent = s.sent
  BY <1>1 DEF SessionOk, Session
<1> QED BY <1>0, <1>2, <1>5, <1>6, <1>7 DEF SessionOk, p

\* Neither brings the client's data out of order.
LEMMA PushInOrder ==
  ASSUME NEW s, SessionOk(s), InOrder(s)
  PROVE  InOrder(Push(s))
BY PushShape DEF InOrder, Taken

LEMMA PullInOrder ==
  ASSUME NEW s, SessionOk(s), Counted, InOrder(s)
  PROVE  InOrder(Pull(s))
<1> DEFINE g == Among(s.arrived, Pieces)
           m == SentOf(Taken(s))
           l == SentOf(asked)
<1>a. s.arrived \in Seq(ToSet(Script)) /\ s.plain \in Seq(Pieces) /\ read \in Seq(Pieces)
  BY DEF SessionOk, Session, Counted
<1>b. /\ Len(Question) \in Nat /\ Len(Script) = Len(Question) + 2
      /\ Question \in Seq(Pieces) /\ Script \in Seq(ToSet(Script))
  BY ScriptFacts
<1>c. asked \in 0..Len(Script) /\ Len(s.arrived) <= asked
  BY DEF Counted, InOrder
<1>0. /\ s.arrived \in Seq(ToSet(Script)) /\ s.plain \in Seq(Pieces) /\ read \in Seq(Pieces)
      /\ asked \in Nat /\ Len(s.arrived) \in Nat /\ Len(s.arrived) <= asked
      /\ asked \in 0..Len(Script) /\ Len(Question) \in Nat /\ Len(Script) = Len(Question) + 2
      /\ Question \in Seq(Pieces) /\ Script \in Seq(ToSet(Script))
  BY <1>a, <1>b, <1>c
<1>1. Taken(s) \in 0..asked
  BY <1>0 DEF Taken
<1>2. m \in 0..l /\ l \in 0..Len(Question)
  BY <1>0, <1>1 DEF SentOf
<1>3. Pull(s).arrived = <<>> /\ Pull(s).plain = s.plain \o g
  BY PullShape
<1>4. Taken(Pull(s)) = asked
  BY <1>0, <1>3 DEF Taken
<1>5. SubSeq(Script, asked + 1, asked) = <<>>
  BY <1>0
<1>6. g = SubSeq(Question, m + 1, l)
  BY <1>0, <1>1, ScriptData DEF InOrder
<1>7. g \in Seq(Pieces)
  BY <1>0, <1>2, <1>6
<1>8. PICK k \in 0..m : /\ read \o s.plain = SubSeq(Question, 1, k)
                        /\ s.arrived # <<>> \/ ~reset => k = m
  BY DEF InOrder
<1> HIDE DEF g, m
<1>9. read \o Pull(s).plain = (read \o s.plain) \o g
  <2> DEFINE p == s.plain
  <2>1. p \in Seq(Pieces)
    BY <1>0
  <2> HIDE DEF p
  <2>2. (read \o p) \o g = read \o (p \o g)
    <3>1. read \in Seq(Pieces)
      BY <1>0
    <3> QED BY <3>1, <1>7, <2>1, ConcatAssociative
  <2> QED BY <1>3, <2>2 DEF p
<1>10. CASE k = m
  <2>1. SubSeq(Question, 1, m) \o SubSeq(Question, m + 1, l) = SubSeq(Question, 1, l)
    BY <1>0, <1>2, PrefixGrows
  <2>2. read \o Pull(s).plain = SubSeq(Question, 1, l)
    BY <1>6, <1>8, <1>9, <1>10, <2>1
  <2>3. l \in 0..l
    BY <1>2
  <2>4. Len(Pull(s).arrived) <= asked
    BY <1>0, <1>3
  <2> DEFINE u == Pull(s)
  <2> HIDE DEF u
  <2>5. \E i \in 0..l : read \o u.plain = SubSeq(Question, 1, i) /\ (u.arrived # <<>> \/ ~reset => i = l)
    BY <2>2, <2>3 DEF u
  <2>6. u.arrived = SubSeq(Script, Taken(u) + 1, asked) /\ Taken(u) = asked
    BY <1>3, <1>4, <1>5 DEF u
  <2> QED BY <2>4, <2>5, <2>6 DEF InOrder, u
<1>11. CASE k # m
  <2>1. s.arrived = <<>> /\ reset
    BY <1>8, <1>11 DEF Counted
  <2>2. g = <<>>
    BY <2>1, AmongNothing DEF g
  <2>3. read \o Pull(s).plain = SubSeq(Question, 1, k)
    <3>1. read \o s.plain \in Seq(Pieces)
      BY <1>0, ConcatProperties
    <3> QED BY <1>8, <1>9, <2>2, <3>1, ConcatEmptySeq
  <2>4. k \in 0..l
    BY <1>2, <1>8
  <2> QED BY <1>0, <1>3, <1>4, <1>5, <2>1, <2>3, <2>4 DEF InOrder
<1> QED BY <1>10, <1>11

\* Nor the answer.
LEMMA PushDelivers ==
  ASSUME NEW s, SessionOk(s), NEW w, Delivers(s, w)
  PROVE  Delivers(Push(s), w)
<1>1. /\ s.out \in Seq(Outgoing) /\ s.sent \in Seq(Outgoing)
      /\ Push(s).out \in Seq(Outgoing) /\ Push(s).sent \in Seq(Outgoing)
  BY PushShape DEF SessionOk, Session
<1>a. ASSUME NEW p \in Seq(Outgoing), NEW q \in Seq(Outgoing) PROVE Got(p) \o Got(q) = Got(p \o q)
  BY AmongConcat DEF Got
<1>2. Got(s.sent) \o Got(s.out) = Got(s.sent \o s.out)
  BY <1>1, <1>a, Zenon
<1>3. Got(Push(s).sent) \o Got(Push(s).out) = Got(Push(s).sent \o Push(s).out)
  BY <1>1, <1>a, Zenon
<1>4. Got(Push(s).sent) \o Got(Push(s).out) = Got(s.sent) \o Got(s.out)
  BY <1>2, <1>3, PushShape
<1> QED BY <1>4, PushShape DEF Delivers

LEMMA PullDelivers ==
  ASSUME NEW s, SessionOk(s), NEW w, Delivers(s, w)
  PROVE  Delivers(Pull(s), w)
BY PullShape DEF Delivers

Good(s) == SessionOk(s) /\ InOrder(s) /\ Delivers(s, written)

\* So no poll of the handshake does.
LEMMA DriveGood ==
  ASSUME NEW s, Counted, Good(s)
  PROVE  Good(Push(s)) /\ Good(Pull(s)) /\ Good(Drive(s))
<1>0. reset \in BOOLEAN
  BY DEF Counted
<1>1. ASSUME NEW t, Good(t) PROVE Good(Push(t)) /\ Good(Pull(t))
  BY <1>0, <1>1, PushShape, PullShape, PushInOrder, PullInOrder, PushDelivers, PullDelivers DEF Good
<1> QED BY <1>1 DEF Drive

-----------------------------------------------------------------------------
\* Every step keeps them

\* The variables that the data do not depend on.
Other ==
  /\ state \in {"Handshaking", "Streaming"}
  /\ accept \in {"pending", "yielded", "failed"}
  /\ pending \subseteq {"read", "write", "flush", "shutdown"}
  /\ interest \subseteq {"readable", "writable"}
  /\ eof \in BOOLEAN /\ woken \in BOOLEAN /\ ended \in BOOLEAN
  /\ unflushed \in BOOLEAN /\ closed \in BOOLEAN

\* Their types are kept by every step.
LEMMA NextOther == Other /\ Counted /\ [Next]_vars => Other'
<1> SUFFICES ASSUME Other, reset \in BOOLEAN, [Next]_vars PROVE Other'
  BY DEF Counted
<1> USE DEF Other
<1>1. CASE UNCHANGED vars
  BY <1>1 DEF vars
<1>2. CASE ClientSend
  BY <1>2 DEF ClientSend, Event, task
<1>3. CASE ClientReceive
  BY <1>3 DEF ClientReceive, Event, task
<1>4. CASE ClientClose
  BY <1>4 DEF ClientClose, Event, task
<1>5. CASE Reset
  BY <1>5 DEF Reset, task
<1>6. CASE Wake
  BY <1>6 DEF Wake
<1>7. ASSUME NEW op \in {"read", "write", "flush", "shutdown"},
             NEW wakers \in SUBSET {"readable", "writable"}, Pends(op, wakers),
             state' \in {"Handshaking", "Streaming"}, accept' \in {"pending", "yielded", "failed"}
      PROVE  Other'
  BY <1>7 DEF Pends, client
<1>8. ASSUME StreamFails,
             state' \in {"Handshaking", "Streaming"}, accept' \in {"pending", "yielded", "failed"}
      PROVE  Other'
  BY <1>8 DEF StreamFails, client
<1>9. ASSUME NEW op \in {"read", "write", "flush", "shutdown"}, AcceptPending(op) PROVE Other'
  <2>1. \E wakers \in SUBSET {"readable", "writable"} : Pends(op, wakers)
    <3> DEFINE wakers == (IF Drive(io).awaits # "nothing" THEN {"readable"} ELSE {})
                 \cup (IF Drive(io).out # <<>> THEN {"writable"} ELSE {})
    <3>1. Pends(op, wakers)
      BY <1>9 DEF AcceptPending
    <3>2. wakers \in SUBSET {"readable", "writable"}
      OBVIOUS
    <3> QED BY <3>1, <3>2
  <2>2. UNCHANGED <<state, accept>>
    BY <1>9 DEF AcceptPending
  <2> QED BY <1>7, <2>1, <2>2
<1>10. ASSUME NEW op, AcceptFails(op) \/ AcceptPanics PROVE Other'
  BY <1>10 DEF AcceptFails, AcceptPanics, client
<1>11. Stored => state' \in {"Handshaking", "Streaming"} /\ accept' \in {"pending", "yielded", "failed"}
  BY DEF Stored
<1>12. CASE PollRead
  <2>1. CASE AcceptPending("read") \/ AcceptFails("read") \/ AcceptPanics
    BY <2>1, <1>9, <1>10
  <2>2. ASSUME Stored, ReadStream PROVE Other'
    <3>1. \/ UNCHANGED <<pending, interest, unflushed, closed, client>> /\ ended' \in {TRUE, ended}
          \/ Pends("read", {"readable"})
          \/ StreamFails
      BY <2>2 DEF ReadStream
    <3> QED BY <3>1, <2>2, <1>7, <1>8, <1>11 DEF client
  <2> QED BY <1>12, <2>1, <2>2 DEF PollRead
<1>13. CASE PollWrite
  <2>1. CASE AcceptPending("write") \/ AcceptFails("write") \/ AcceptPanics
    BY <2>1, <1>9, <1>10
  <2>2. CASE Stored /\ StreamFails
    BY <2>2, <1>8, <1>11
  <2>3. CASE Stored /\ unflushed' = TRUE /\ UNCHANGED <<pending, interest, read, ended, closed, client>>
    BY <2>3, <1>11 DEF client
  <2> QED BY <1>13, <2>1, <2>2, <2>3 DEF PollWrite
<1>14. CASE PollFlush
  BY <1>14, <1>7, <1>8 DEF PollFlush, client
<1>15. CASE PollShutdown
  BY <1>15, <1>7, <1>8 DEF PollShutdown, client
<1> QED BY <1>1, <1>2, <1>3, <1>4, <1>5, <1>6, <1>12, <1>13, <1>14, <1>15 DEF Next, Task

\* The client's next record goes behind those that wait in the socket, at the
\* place in the script that the session has not reached.
LEMMA SendGood ==
  ASSUME Counted, Good(io), ClientSend
  PROVE  Counted' /\ Good(io)'
<1>1. /\ Counted /\ io \in Session /\ Len(io.arrived) < Room
      /\ ~reset /\ asked < Len(Script) /\ asked' = asked + 1
      /\ UNCHANGED <<read, written, seen, reset>>
  BY DEF ClientSend, Good, SessionOk, task
<1>2. io' = [io EXCEPT !.arrived = Append(io.arrived, Script[asked + 1])]
  BY DEF ClientSend
<1>3. /\ asked \in Nat /\ asked \in 0..Len(Script) /\ Len(Script) \in Nat
      /\ Script \in Seq(ToSet(Script)) /\ io.arrived \in Seq(ToSet(Script))
      /\ Len(io.arrived) <= asked /\ Len(io.arrived) \in Nat
  <2>1. asked \in 0..Len(Script) /\ Len(io.arrived) <= asked /\ io.arrived \in Seq(ToSet(Script))
    BY DEF Counted, Good, InOrder, SessionOk, Session
  <2>2. Script \in Seq(ToSet(Script))
    BY ScriptFacts
  <2> QED BY <2>1, <2>2
<1> DEFINE a == Append(io.arrived, Script[asked + 1])
<1>4. a \in Seq(ToSet(Script)) /\ Len(a) = Len(io.arrived) + 1
  BY <1>1, <1>3
<1>5. /\ io'.awaits = io.awaits /\ io'.arrived = a /\ io'.plain = io.plain
      /\ io'.out = io.out /\ io'.sent = io.sent
  BY <1>1, <1>2 DEF Session
<1>6. SessionOk(io')
  <2>1. io' \in Session
    BY <1>1, <1>2, <1>4 DEF Session
  <2>2. Len(a) <= Room
    BY <1>1, <1>3, <1>4, RoomAssumption
  <2> HIDE DEF a
  <2>3. Len(io.sent) <= Room
    BY DEF Good, SessionOk
  <2> QED BY <1>5, <2>1, <2>2, <2>3 DEF SessionOk
<1>7. Counted'
  BY <1>1, <1>3 DEF Counted
<1>8. Taken(io)' = Taken(io) /\ Taken(io) \in 0..asked
  <2>1. Len(io'.arrived) = Len(io.arrived) + 1
    BY <1>4, <1>5
  <2>2. asked' - Len(io'.arrived) = asked - Len(io.arrived)
    BY <1>1, <1>3, <2>1
  <2>3. asked - Len(io.arrived) \in 0..asked
    BY <1>3
  <2> QED BY <2>2, <2>3 DEF Taken
<1>9. a = SubSeq(Script, Taken(io) + 1, asked + 1)
  <2>1. io.arrived = SubSeq(Script, Taken(io) + 1, asked)
    BY DEF Good, InOrder
  <2> DEFINE k == Taken(io)
  <2> HIDE DEF k
  <2>2. k \in 0..asked
    BY <1>8 DEF k
  <2>3. SubSeq(Script, k + 1, asked + 1) = Append(SubSeq(Script, k + 1, asked), Script[asked + 1])
    BY <1>1, <1>3, <2>2, SubSeqAppend
  <2> QED BY <2>1, <2>3 DEF k
<1>10. Len(a) <= asked + 1
  BY <1>3, <1>4
<1> HIDE DEF a
<1>11. InOrder(io)'
  <2>1. \E k \in 0..SentOf(Taken(io)) : read \o io.plain = SubSeq(Question, 1, k) /\ k = SentOf(Taken(io))
    BY <1>1 DEF Good, InOrder
  <2>2. \E k \in 0..SentOf(Taken(io)') : read' \o io'.plain = SubSeq(Question, 1, k) /\ k = SentOf(Taken(io)')
    BY <1>1, <1>5, <1>8, <2>1
  <2>3. Len(io'.arrived) <= asked' /\ io'.arrived = SubSeq(Script, Taken(io)' + 1, asked')
    BY <1>1, <1>5, <1>8, <1>9, <1>10
  <2> QED BY <2>2, <2>3 DEF InOrder
<1>12. Delivers(io, written)'
  <2>1. Delivers(io, written)
    BY DEF Good
  <2> QED BY <2>1, <1>1, <1>5 DEF Delivers, Got
<1> QED BY <1>6, <1>7, <1>11, <1>12 DEF Good, SessionOk

\* The client's next record belongs to what it has got from now on.
LEMMA ReceiveGood ==
  ASSUME Counted, Good(io), ClientReceive
  PROVE  /\ Counted' /\ Good(io)'
         /\ Got(seen)' = Got(seen) \/ Len(Got(seen)') = Len(Got(seen)) + 1
<1>1. /\ io \in Session /\ io.sent # <<>> /\ io.sent \in Seq(Outgoing) /\ seen \in Seq(Outgoing)
      /\ io.out \in Seq(Outgoing)
      /\ seen' = Append(seen, io.sent[1])
      /\ UNCHANGED <<read, written, asked, reset>>
  BY DEF ClientReceive, Good, SessionOk, Session, task, Counted
<1>2. io' = [io EXCEPT !.sent = Tail(io.sent)]
  BY DEF ClientReceive
<1> DEFINE e == io.sent[1]
           t == Tail(io.sent)
<1>3. e \in Outgoing /\ t \in Seq(Outgoing) /\ Len(t) = Len(io.sent) - 1 /\ <<e>> \in Seq(Outgoing)
  BY <1>1
<1>4. <<e>> \o t = io.sent
  BY <1>1
<1>5. Append(seen, e) = seen \o <<e>> /\ Append(seen, e) \in Seq(Outgoing)
  BY <1>1, <1>3
<1>6. /\ io'.awaits = io.awaits /\ io'.arrived = io.arrived /\ io'.plain = io.plain
      /\ io'.out = io.out /\ io'.sent = t
  BY <1>1, <1>2 DEF Session
<1>7. SessionOk(io')
  <2>1. io' \in Session
    BY <1>1, <1>2, <1>3 DEF Session
  <2>2. Len(t) <= Room /\ Len(io.arrived) <= Room
    <3>1. Len(io.sent) <= Room /\ Len(io.arrived) <= Room
      BY DEF Good, SessionOk
    <3>2. Len(io.sent) \in Nat
      BY <1>1
    <3> QED BY <1>3, <3>1, <3>2, RoomAssumption
  <2> HIDE DEF t
  <2> QED BY <1>6, <2>1, <2>2 DEF SessionOk
<1> HIDE DEF e, t
<1>8. Counted'
  BY <1>1, <1>5 DEF Counted, e
<1>a. ASSUME NEW p \in Seq(Outgoing), NEW q \in Seq(Outgoing) PROVE Got(p) \o Got(q) = Got(p \o q)
  BY AmongConcat DEF Got
<1>b. ASSUME NEW p \in Seq(Outgoing) PROVE Got(p) \in Seq(ToSet(Answer) \cap Outgoing)
  BY AmongType DEF Got
<1>9. Got(seen') = Got(seen) \o Got(<<e>>)
  <2>1. Got(seen) \o Got(<<e>>) = Got(seen \o <<e>>)
    BY <1>1, <1>3, <1>a
  <2> QED BY <2>1, <1>1, <1>5 DEF e
<1>10. Got(io.sent) = Got(<<e>>) \o Got(t)
  <2>1. Got(<<e>>) \o Got(t) = Got(<<e>> \o t)
    BY <1>3, <1>a
  <2> QED BY <2>1, <1>4
<1>11. Got(seen') \o (Got(io'.sent) \o Got(io'.out)) = Got(seen) \o (Got(io.sent) \o Got(io.out))
  <2> DEFINE a == Got(seen)
             b == Got(<<e>>)
             c == Got(t)
             d == Got(io.out)
             S == ToSet(Answer) \cap Outgoing
  <2>1. a \in Seq(S) /\ b \in Seq(S) /\ c \in Seq(S) /\ d \in Seq(S)
    BY <1>1, <1>3, <1>b
  <2> HIDE DEF a, b, c, d, S
  <2>2. c \o d \in Seq(S)
    BY <2>1, ConcatProperties
  <2>3. (b \o c) \o d = b \o (c \o d)
    BY <2>1, ConcatAssociative
  <2>4. (a \o b) \o (c \o d) = a \o (b \o (c \o d))
    BY <2>1, <2>2, ConcatAssociative
  <2>5. Got(seen') = a \o b /\ Got(io'.sent) = c /\ Got(io'.out) = d /\ Got(io.sent) = b \o c
        /\ Got(seen) = a /\ Got(io.out) = d
    BY <1>6, <1>9, <1>10 DEF a, b, c, d
  <2> QED BY <2>3, <2>4, <2>5
<1>12. ~reset
  BY <1>1 DEF Good, Delivers
<1>13. Delivers(io, written)'
  <2>1. Delivers(io, written)
    BY DEF Good
  <2>2. Got(seen') \o (Got(io'.sent) \o Got(io'.out)) = SubSeq(Answer, 1, written')
    BY <1>1, <1>11, <1>12, <2>1 DEF Delivers
  <2> QED BY <1>1, <1>12, <2>2 DEF Delivers, Got
<1>14. InOrder(io)'
  <2>1. InOrder(io)
    BY DEF Good
  <2> QED BY <2>1, <1>1, <1>6 DEF InOrder, Taken
<1>15. Got(<<e>>) = <<>> \/ Got(<<e>>) = <<e>>
  <2>1. <<e>> \in Seq({e})
    OBVIOUS
  <2>2. CASE e \in ToSet(Answer)
    <3>1. {e} \subseteq ToSet(Answer)
      BY <2>2
    <3> DEFINE S == ToSet(Answer)
               T == {e}
               s == <<e>>
    <3>2. s \in Seq(T) /\ T \subseteq S
      BY <2>1, <3>1
    <3> HIDE DEF S, T, s
    <3>3. Among(s, S) = s
      BY <3>2, AmongAll
    <3> QED BY <3>3 DEF Got, S, s
  <2>3. CASE e \notin ToSet(Answer)
    <3>1. {e} \cap ToSet(Answer) = {}
      BY <2>3
    <3> QED BY <2>1, <3>1, AmongNone DEF Got
  <2> QED BY <2>2, <2>3
<1>16. Got(seen') = Got(seen) \/ Len(Got(seen')) = Len(Got(seen)) + 1
  <2> DEFINE a == Got(seen)
             b == Got(<<e>>)
             S == ToSet(Answer) \cap Outgoing
  <2>1. a \in Seq(S) /\ b \in Seq(S)
    BY <1>1, <1>3, <1>b
  <2>2. b = <<>> \/ Len(b) = 1
    BY <1>15
  <2> HIDE DEF a, b, S
  <2>3. Len(a \o b) = Len(a) + Len(b)
    BY <2>1, ConcatProperties
  <2>4. b = <<>> => a \o b = a
    BY <2>1, ConcatEmptySeq
  <2>5. Got(seen') = a \o b
    BY <1>9 DEF a, b
  <2>6. a \o b = a \/ Len(a \o b) = Len(a) + 1
    BY <2>2, <2>3, <2>4
  <2> QED BY <2>5, <2>6 DEF a
<1>17. Got(seen)' = Got(seen')
  BY DEF Got
<1> QED BY <1>7, <1>8, <1>13, <1>14, <1>16, <1>17 DEF Good, SessionOk

\* A step that leaves the data alone leaves the session in order.
LEMMA StillGood ==
  ASSUME NEW t, Good(t), Counted, io' = t, UNCHANGED <<asked, written, read, seen, reset>>
  PROVE  Counted' /\ Good(io)'
<1>1. Counted'
  BY DEF Counted
<1>2. SessionOk(io') /\ InOrder(io)' /\ Delivers(io, written)'
  <2>1. SessionOk(io')
    BY DEF Good
  <2>2. InOrder(io)'
    BY DEF Good, InOrder, Taken
  <2>3. Delivers(io, written)'
    BY DEF Good, Delivers, Got
  <2> QED BY <2>1, <2>2, <2>3
<1> QED BY <1>1, <1>2 DEF Good, SessionOk

\* Whatever the state, what the reader and the client have got so far is the
\* beginning of what the other side has sent.
LEMMA ReadSoFar ==
  ASSUME Counted, Good(io)
  PROVE  /\ Len(read) <= SentOf(asked) /\ SentOf(asked) \in 0..Len(Question)
         /\ read = SubSeq(Question, 1, Len(read))
<1>1. /\ asked \in 0..Len(Script) /\ Len(io.arrived) <= asked /\ Len(io.arrived) \in Nat
      /\ Len(Script) = Len(Question) + 2 /\ Len(Question) \in Nat
  <2>1. asked \in 0..Len(Script) /\ Len(io.arrived) <= asked /\ io.arrived \in Seq(ToSet(Script))
    BY DEF Counted, Good, InOrder, SessionOk, Session
  <2>2. Len(Script) = Len(Question) + 2 /\ Len(Question) \in Nat
    BY ScriptFacts
  <2> QED BY <2>1, <2>2
<1>2. Taken(io) \in 0..asked
  BY <1>1 DEF Taken
<1>3. SentOf(asked) \in 0..Len(Question) /\ SentOf(Taken(io)) \in 0..SentOf(asked)
  BY <1>1, <1>2 DEF SentOf
<1>4. PICK k \in 0..SentOf(Taken(io)) : read \o io.plain = SubSeq(Question, 1, k)
  BY DEF Good, InOrder
<1>5. k \in 0..Len(Question) /\ k <= SentOf(asked)
  BY <1>1, <1>3
<1> DEFINE p == io.plain
<1>6. read \in Seq(Pieces) /\ p \in Seq(Pieces) /\ Question \in Seq(Pieces)
  BY ScriptFacts DEF Good, SessionOk, Session, Counted
<1>7. read \o p = SubSeq(Question, 1, k)
  BY <1>4
<1> HIDE DEF p
<1>8. Len(read) <= k /\ read = SubSeq(Question, 1, Len(read))
  BY <1>5, <1>6, <1>7, PrefixOfPrefix
<1>9. Len(read) \in Nat
  BY <1>6
<1>10. Len(read) <= SentOf(asked)
  BY <1>1, <1>3, <1>5, <1>8, <1>9
<1> QED BY <1>3, <1>8, <1>10

\* Of a connection that is reset this is remembered, of another one it follows
\* from what is on its way.
LEMMA GotSoFar ==
  ASSUME Counted, Good(io)
  PROVE  Len(Got(seen)) <= written /\ Got(seen) = SubSeq(Answer, 1, Len(Got(seen)))
<1>1. written \in 0..Len(Answer) /\ Len(Answer) \in Nat /\ Answer \in Seq(ToSet(Answer))
  BY AnswerAssumption DEF Counted
<1>2. CASE reset
  <2>1. PICK k \in 0..written : Got(seen) = SubSeq(Answer, 1, k)
    BY <1>2 DEF Good, Delivers
  <2>2. Len(SubSeq(Answer, 1, k)) = k /\ k <= written
    BY <1>1
  <2> QED BY <2>1, <2>2
<1>3. CASE ~reset
  <2> DEFINE S == ToSet(Answer)
             a == Got(seen)
             b == Got(io.sent)
             c == Got(io.out)
  <2>1. a \o (b \o c) = SubSeq(Answer, 1, written)
    BY <1>3 DEF Good, Delivers
  <2>2. a \in Seq(S) /\ b \in Seq(S) /\ c \in Seq(S)
    <3>1. ASSUME NEW p \in Seq(Outgoing) PROVE Got(p) \in Seq(S)
      <4>1. Got(p) \in Seq(S \cap Outgoing)
        BY AmongType DEF Got
      <4> DEFINE g == Got(p)
      <4> HIDE DEF g, S
      <4>2. g \in Seq(S)
        BY <4>1 DEF g
      <4> QED BY <4>2 DEF g
    <3>2. seen \in Seq(Outgoing) /\ io.sent \in Seq(Outgoing) /\ io.out \in Seq(Outgoing)
      BY DEF Good, SessionOk, Session, Counted
    <3> QED BY <3>1, <3>2
  <2>3. written \in 0..Len(Answer) /\ Answer \in Seq(S)
    BY <1>1
  <2> HIDE DEF S, a, b, c
  <2>4. b \o c \in Seq(S)
    BY <2>2, ConcatProperties
  <2>5. Len(a) <= written /\ a = SubSeq(Answer, 1, Len(a))
    BY <2>1, <2>2, <2>3, <2>4, PrefixOfPrefix
  <2> QED BY <2>5 DEF a
<1> QED BY <1>2, <1>3

\* What had arrived may be lost, and what was to be sent is.
LEMMA ResetGood ==
  ASSUME Counted, Good(io), Reset
  PROVE  Counted' /\ Good(io)'
<1>1. /\ ~reset /\ reset' = TRUE /\ UNCHANGED <<asked, written, read, seen>>
      /\ io \in Session /\ Len(io.arrived) <= Room
  BY DEF Reset, task, Good, SessionOk
<1>2. PICK arrived \in {io.arrived, <<>>} : io' = [io EXCEPT !.arrived = arrived, !.sent = <<>>]
  BY DEF Reset
<1>3. /\ io'.awaits = io.awaits /\ io'.arrived = arrived /\ io'.plain = io.plain
      /\ io'.out = io.out /\ io'.sent = <<>>
  BY <1>1, <1>2 DEF Session
<1>4. Counted'
  BY <1>1 DEF Counted
<1>5. SessionOk(io')
  <2>1. arrived \in Seq(ToSet(Script)) /\ <<>> \in Seq(Outgoing) /\ Len(<<>>) = 0
    <3>1. io.arrived \in Seq(ToSet(Script))
      BY <1>1 DEF Session
    <3>2. <<>> \in Seq(ToSet(Script)) /\ <<>> \in Seq(Outgoing) /\ Len(<<>>) = 0
      OBVIOUS
    <3> QED BY <1>2, <3>1, <3>2
  <2>2. io' \in Session
    BY <1>1, <1>2, <2>1 DEF Session
  <2>3. Len(arrived) <= Room /\ 0 <= Room
    BY <1>1, <1>2, RoomAssumption
  <2> QED BY <1>3, <2>1, <2>2, <2>3 DEF SessionOk
<1>6. Delivers(io, written)'
  <2> DEFINE k == Len(Got(seen))
  <2>1. k <= written /\ Got(seen) = SubSeq(Answer, 1, k)
    BY GotSoFar
  <2>2. k \in Nat
    <3> DEFINE g == Got(seen)
    <3>1. g \in Seq(ToSet(Answer) \cap Outgoing)
      BY AmongType DEF Counted, Got
    <3> HIDE DEF g
    <3>2. Len(g) \in Nat
      BY <3>1
    <3> QED BY <3>2 DEF g
  <2> HIDE DEF k
  <2>3. written \in Nat
    BY AnswerAssumption DEF Counted
  <2>4. k \in 0..written
    BY <2>1, <2>2, <2>3
  <2>5. \E i \in 0..written : Got(seen) = SubSeq(Answer, 1, i)
    BY <2>1, <2>4
  <2> QED BY <2>5, <1>1, <1>3 DEF Delivers, Got
<1>7. InOrder(io)'
  <2>1. InOrder(io)
    BY DEF Good
  <2>2. CASE arrived = io.arrived
    <3>1. \E k \in 0..SentOf(Taken(io)) :
            read \o io.plain = SubSeq(Question, 1, k) /\ (io.arrived # <<>> => k = SentOf(Taken(io)))
      BY <2>1 DEF InOrder
    <3>2. Taken(io)' = Taken(io)
      BY <1>1, <1>3, <2>2 DEF Taken
    <3> QED BY <1>1, <1>3, <2>1, <2>2, <3>1, <3>2 DEF InOrder
  <2>3. CASE arrived = <<>>
    <3>1. asked \in Nat
      BY ScriptFacts DEF Counted
    <3>2. Len(<<>>) = 0 /\ Len(<<>>) <= asked /\ SubSeq(Script, asked + 1, asked) = <<>>
      <4>1. Script \in Seq(ToSet(Script))
        BY ScriptFacts
      <4> QED BY <3>1, <4>1
    <3>3. Taken(io)' = asked
      <4>1. asked - 0 = asked
        BY <3>1
      <4> QED BY <1>1, <1>3, <2>3, <3>2, <4>1 DEF Taken
    <3>4. Taken(io) \in 0..asked
      <4>1. Len(io.arrived) \in Nat /\ Len(io.arrived) <= asked
        <5>1. io.arrived \in Seq(ToSet(Script))
          BY <1>1 DEF Session
        <5>2. Len(io.arrived) \in Nat
          BY <5>1
        <5> QED BY <2>1, <5>2 DEF InOrder
      <4> QED BY <3>1, <4>1 DEF Taken
    <3>5. \A k \in 0..SentOf(Taken(io)) : k \in 0..SentOf(asked)
      BY <3>1, <3>4 DEF SentOf
    <3>6. \E k \in 0..SentOf(asked) : read \o io.plain = SubSeq(Question, 1, k)
      BY <2>1, <3>5 DEF InOrder
    <3> QED BY <1>1, <1>3, <2>3, <3>2, <3>3, <3>6 DEF InOrder
  <2> QED BY <1>2, <2>2, <2>3
<1> QED BY <1>4, <1>5, <1>6, <1>7 DEF Good, SessionOk

\* What is read is taken from the front of what is decrypted.
LEMMA TakeGood ==
  ASSUME NEW s, Counted, Good(s), NEW n \in 1..Len(s.plain),
         read' = read \o SubSeq(s.plain, 1, n),
         io' = [s EXCEPT !.plain = SubSeq(s.plain, n + 1, Len(s.plain))],
         UNCHANGED <<asked, written, seen, reset>>
  PROVE  Counted' /\ Good(io)' /\ Len(read)' = Len(read) + n
<1> DEFINE p == s.plain
           f == SubSeq(p, 1, n)
           b == SubSeq(p, n + 1, Len(p))
<1>1. s \in Session /\ p \in Seq(Pieces) /\ read \in Seq(Pieces)
  BY DEF Good, SessionOk, Session, Counted
<1>2. io' = [s EXCEPT !.plain = b] /\ read' = read \o f /\ n \in 1..Len(p)
  OBVIOUS
<1> HIDE DEF p
<1>3. Len(p) \in Nat /\ n \in 0..Len(p)
  BY <1>1, <1>2
<1>4. f \in Seq(Pieces) /\ b \in Seq(Pieces) /\ Len(f) = n
  BY <1>1, <1>3
<1>5. f \o b = p
  BY <1>1, <1>3, SplitAt
<1> HIDE DEF f, b
<1>6. read \o f \in Seq(Pieces) /\ Len(read \o f) = Len(read) + Len(f)
  BY <1>1, <1>4, ConcatProperties
<1>7. (read \o f) \o b = read \o (f \o b)
  <2> DEFINE r == read
  <2>1. r \in Seq(Pieces) /\ f \in Seq(Pieces) /\ b \in Seq(Pieces)
    BY <1>1, <1>4
  <2> HIDE DEF r
  <2>2. (r \o f) \o b = r \o (f \o b)
    BY <2>1, ConcatAssociative
  <2> QED BY <2>2 DEF r
<1>8. /\ io'.awaits = s.awaits /\ io'.arrived = s.arrived /\ io'.plain = b
      /\ io'.out = s.out /\ io'.sent = s.sent
  BY <1>1, <1>2 DEF Session
<1>9. io' \in Session
  BY <1>1, <1>2, <1>4 DEF Session
<1>10. SessionOk(io')
  BY <1>8, <1>9 DEF Good, SessionOk
<1>11. Counted'
  BY <1>2, <1>6 DEF Counted
<1>12. read' \o io'.plain = read \o s.plain
  BY <1>2, <1>5, <1>7, <1>8 DEF p
<1>13. InOrder(io)'
  <2>1. InOrder(s)
    BY DEF Good
  <2> QED BY <2>1, <1>8, <1>12 DEF InOrder, Taken
<1>14. Delivers(io, written)'
  <2>1. Delivers(s, written)
    BY DEF Good
  <2> QED BY <2>1, <1>8 DEF Delivers, Got
<1> QED BY <1>2, <1>4, <1>6, <1>10, <1>11, <1>13, <1>14 DEF Good, SessionOk

\* What is written is put at the end of what the session has to send.
LEMMA PutGood ==
  ASSUME NEW s, Counted, Good(s), ~reset, NEW n \in 1..Len(Answer) - written,
         io' = Push([s EXCEPT !.out = s.out \o SubSeq(Answer, written + 1, written + n)]),
         written' = written + n,
         UNCHANGED <<asked, read, seen, reset>>
  PROVE  Counted' /\ Good(io)'
<1> DEFINE m == SubSeq(Answer, written + 1, written + n)
           t == [s EXCEPT !.out = s.out \o m]
           o == s.out
           S == ToSet(Answer)
<1>1. /\ s \in Session /\ o \in Seq(Outgoing) /\ s.sent \in Seq(Outgoing) /\ seen \in Seq(Outgoing)
      /\ written \in 0..Len(Answer) /\ Answer \in Seq(S) /\ S \subseteq Outgoing
  BY AnswerAssumption DEF Good, SessionOk, Session, Counted, Outgoing
<1>2. written \in Nat /\ n \in Nat /\ written + n \in 0..Len(Answer) /\ written \in 0..written + n
  <2>1. Len(Answer) \in Nat
    BY <1>1
  <2> DEFINE l == Len(Answer)
  <2> HIDE DEF l
  <2>2. l \in Nat /\ written \in 0..l /\ n \in 1..l - written
    BY <1>1, <2>1 DEF l
  <2>3. written \in Nat /\ n \in Nat /\ written + n \in 0..l /\ written \in 0..written + n
    BY <2>2
  <2> QED BY <2>3 DEF l
<1>3. m \in Seq(S)
  BY <1>1, <1>2
<1>4. SubSeq(Answer, 1, written) \o m = SubSeq(Answer, 1, written + n)
  BY <1>1, <1>2, PrefixGrows
<1>5. io' = Push(t)
  OBVIOUS
<1> HIDE DEF m
<1>6. m \in Seq(Outgoing)
  BY <1>1, <1>3
<1>7. t \in Session /\ t.out = o \o m /\ t.sent = s.sent /\ t.arrived = s.arrived /\ t.plain = s.plain
  <2>1. o \o m \in Seq(Outgoing)
    BY <1>1, <1>6, ConcatProperties
  <2> QED BY <1>1, <2>1 DEF Session
<1> HIDE DEF t
<1>8. SessionOk(t)
  BY <1>7 DEF Good, SessionOk
<1>9. InOrder(t)
  BY <1>7 DEF Good, InOrder, Taken
<1>10. Got(o \o m) = Got(o) \o m
  <2>1. Among(o \o m, S) = Among(o, S) \o Among(m, S)
    <3> DEFINE x == o
    <3>1. x \in Seq(Outgoing) /\ m \in Seq(Outgoing)
      BY <1>1, <1>6
    <3> HIDE DEF x, S
    <3>2. Among(x \o m, S) = Among(x, S) \o Among(m, S)
      BY <3>1, AmongConcat
    <3> QED BY <3>2 DEF x
  <2>2. Among(m, S) = m
    BY <1>3, AmongAll
  <2> QED BY <2>1, <2>2 DEF Got
<1>a. ASSUME NEW p \in Seq(Outgoing) PROVE Got(p) \in Seq(S)
  <2>1. Got(p) \in Seq(S \cap Outgoing)
    BY AmongType DEF Got
  <2> DEFINE g == Got(p)
  <2> HIDE DEF g, S
  <2>2. g \in Seq(S)
    BY <2>1 DEF g
  <2> QED BY <2>2 DEF g
<1>11. Delivers(t, written + n)
  <2> DEFINE a == Got(seen)
             b == Got(s.sent)
             c == Got(o)
  <2>1. a \in Seq(S) /\ b \in Seq(S) /\ c \in Seq(S)
    BY <1>1, <1>a
  <2>2. a \o (b \o c) = SubSeq(Answer, 1, written)
    BY DEF Good, Delivers, o
  <2>3. Got(t.sent) = b /\ Got(t.out) = c \o m
    BY <1>7, <1>10
  <2> HIDE DEF a, b, c, S
  <2>4. b \o c \in Seq(S)
    BY <2>1, ConcatProperties
  <2>5. (b \o c) \o m = b \o (c \o m)
    BY <1>3, <2>1, ConcatAssociative
  <2>6. (a \o (b \o c)) \o m = a \o ((b \o c) \o m)
    BY <1>3, <2>1, <2>4, ConcatAssociative
  <2>7. a \o (b \o (c \o m)) = SubSeq(Answer, 1, written + n)
    BY <1>4, <2>2, <2>5, <2>6
  <2> QED BY <2>3, <2>7 DEF Delivers, a
<1>12. SessionOk(Push(t)) /\ InOrder(Push(t)) /\ Delivers(Push(t), written + n)
  BY <1>8, <1>9, <1>11, PushShape, PushInOrder, PushDelivers
<1>13. Counted'
  BY <1>2 DEF Counted
<1>14. SessionOk(io') /\ InOrder(io)' /\ Delivers(io, written)'
  <2> DEFINE u == Push(t)
  <2>1. io' = u /\ SessionOk(u) /\ InOrder(u) /\ Delivers(u, written + n)
    BY <1>5, <1>12
  <2> HIDE DEF u
  <2>2. SessionOk(io')
    BY <2>1
  <2>3. InOrder(io)'
    BY <2>1 DEF InOrder, Taken
  <2>4. Delivers(io, written)'
    BY <2>1 DEF Delivers, Got
  <2> QED BY <2>2, <2>3, <2>4
<1> QED BY <1>13, <1>14 DEF Good, SessionOk

\* What the steps of the task do to the data: nothing, a read, or a write.
Idle == UNCHANGED <<asked, written, read, seen, reset>>
Reads == /\ Len(read)' \in Nat /\ Len(read)' > Len(read) /\ UNCHANGED <<asked, written, seen, reset>>
Writes == written' > written /\ UNCHANGED <<asked, read, seen, reset>>

\* Every poll keeps the data in order, whatever it has made of the handshake
\* before: a read and a write are done after that on the same stream.
LEMMA TaskGood ==
  ASSUME Counted, Good(io), Task
  PROVE  Counted' /\ Good(io)' /\ (Idle \/ Reads \/ Writes)
<1>1. Good(Stream) /\ Good(Drive(io)) /\ Good(Push(io))
  BY DriveGood DEF Stream
<1>2. ASSUME NEW t, Good(t), io' = t, Idle PROVE Counted' /\ Good(io)' /\ Idle
  BY <1>2, StillGood DEF Idle
<1>3. ASSUME NEW op, AcceptPending(op) \/ AcceptFails(op) \/ AcceptPanics
      PROVE  Counted' /\ Good(io)' /\ Idle
  <2>1. \/ io' = Drive(io) /\ Idle
        \/ io' = io /\ Idle
    BY <1>3 DEF AcceptPending, AcceptFails, AcceptPanics, Pends, Idle, client
  <2> QED BY <2>1, <1>1, <1>2
<1>4. ASSUME NEW t, Good(t), io' = t, StreamFails PROVE Counted' /\ Good(io)' /\ Idle
  <2>1. Idle
    BY <1>4 DEF StreamFails, Idle, client
  <2> QED BY <1>2, <1>4, <2>1
<1>5. CASE PollRead
  <2>1. CASE AcceptPending("read") \/ AcceptFails("read") \/ AcceptPanics
    BY <2>1, <1>3
  <2>2. CASE ReadStream
    <3> DEFINE s == IF Stream.plain = <<>> THEN Pull(Stream) ELSE Stream
    <3>1. Good(s)
      BY <1>1, DriveGood
    <3>2. \/ \E n \in 1..Len(s.plain) :
               /\ read' = read \o SubSeq(s.plain, 1, n)
               /\ io' = [s EXCEPT !.plain = SubSeq(s.plain, n + 1, Len(s.plain))]
               /\ UNCHANGED <<asked, written, seen, reset>>
          \/ io' = s /\ Idle
      BY <2>2 DEF ReadStream, Pends, StreamFails, Idle, client
    <3> HIDE DEF s
    <3>3. ASSUME NEW n \in 1..Len(s.plain), read' = read \o SubSeq(s.plain, 1, n),
                 io' = [s EXCEPT !.plain = SubSeq(s.plain, n + 1, Len(s.plain))],
                 UNCHANGED <<asked, written, seen, reset>>
          PROVE  Counted' /\ Good(io)' /\ Reads
      <4>1. Counted' /\ Good(io)' /\ Len(read)' = Len(read) + n
        BY <3>1, <3>3, TakeGood
      <4>2. Len(read) \in Nat /\ n \in Nat /\ n > 0
        <5>1. read \in Seq(Pieces) /\ s.plain \in Seq(Pieces)
          BY <3>1 DEF Counted, Good, SessionOk, Session
        <5> QED BY <5>1
      <4> QED BY <3>3, <4>1, <4>2 DEF Reads
    <3> QED BY <3>1, <3>2, <3>3, <1>2
  <2> QED BY <1>5, <2>1, <2>2 DEF PollRead
<1>6. CASE PollWrite
  <2>1. CASE AcceptPending("write") \/ AcceptFails("write") \/ AcceptPanics
    BY <2>1, <1>3
  <2>2. CASE io' = Stream /\ StreamFails
    BY <2>2, <1>1, <1>4
  <2>3. ASSUME ~reset, NEW n \in 1..Len(Answer) - written, WriteStream(n), written' = written + n,
               UNCHANGED <<read, client>>
        PROVE  Counted' /\ Good(io)' /\ Writes
    <3> DEFINE s == Stream
    <3>1. io' = Push([s EXCEPT !.out = s.out \o SubSeq(Answer, written + 1, written + n)])
      BY <2>3 DEF WriteStream
    <3>2. Good(s) /\ UNCHANGED <<asked, read, seen, reset>>
      BY <1>1, <2>3 DEF client
    <3> HIDE DEF s
    <3>3. Counted' /\ Good(io)'
      BY <2>3, <3>1, <3>2, PutGood
    <3>4. written' > written
      BY <2>3, AnswerAssumption DEF Counted
    <3> QED BY <3>2, <3>3, <3>4 DEF Writes
  <2> QED BY <1>6, <2>1, <2>2, <2>3 DEF PollWrite
<1>7. ASSUME io' = (IF state = "Handshaking" THEN io ELSE Push(io)), Idle
      PROVE  Counted' /\ Good(io)' /\ Idle
  BY <1>1, <1>2, <1>7
<1>8. CASE PollFlush
  <2>1. io' = (IF state = "Handshaking" THEN io ELSE Push(io)) /\ Idle
    BY <1>8 DEF PollFlush, Pends, StreamFails, Idle, client
  <2> QED BY <1>7, <2>1
<1>9. CASE PollShutdown
  <2>1. io' = (IF state = "Handshaking" THEN io ELSE Push(io)) /\ Idle
    BY <1>9 DEF PollShutdown, Pends, StreamFails, Idle, client
  <2> QED BY <1>7, <2>1
<1> QED BY <1>5, <1>6, <1>8, <1>9 DEF Task

StreamInv == Counted /\ Other /\ Good(io)

\* The invariant of the stream.
LEMMA InitStream == Init => StreamInv
<1> SUFFICES ASSUME Init PROVE StreamInv
  OBVIOUS
<1>1. /\ io = [awaits |-> "hello", arrived |-> <<>>, plain |-> <<>>, out |-> <<>>, sent |-> <<>>]
      /\ asked = 0 /\ written = 0 /\ read = <<>> /\ seen = <<>> /\ reset = FALSE
  BY DEF Init
<1>2. Len(Script) \in Nat /\ Len(Answer) \in Nat /\ Script \in Seq(ToSet(Script))
  BY ScriptFacts, AnswerAssumption
<1>3. Counted
  <2>1. <<>> \in Seq(Pieces) /\ <<>> \in Seq(Outgoing)
    OBVIOUS
  <2>2. 0 \in 0..Len(Script) /\ 0 \in 0..Len(Answer)
    BY <1>2
  <2> QED BY <1>1, <2>1, <2>2 DEF Counted
<1>4. Other
  BY DEF Init, Other
<1>5. SessionOk(io)
  BY <1>1, RoomAssumption DEF SessionOk, Session
<1>6. InOrder(io)
  <2>1. Taken(io) = 0 /\ Len(io.arrived) = 0 /\ SentOf(0) = 0 /\ SubSeq(Script, 1, 0) = <<>>
    <3>1. Len(<<>>) = 0 /\ 0 - 0 = 0 /\ io.arrived = <<>>
      BY <1>1
    <3>2. SubSeq(Script, 1, 0) = <<>>
      BY <1>2
    <3>3. SentOf(0) = 0
      BY DEF SentOf
    <3>4. Len(io.arrived) = 0
      BY <3>1, Zenon
    <3>5. Taken(io) = 0
      BY <1>1, <3>1, <3>4, Zenon DEF Taken
    <3> QED BY <3>2, <3>3, <3>4, <3>5, Zenon
  <2>2. read \o io.plain = SubSeq(Question, 1, 0)
    <3>1. <<>> \o <<>> = <<>> /\ SubSeq(Question, 1, 0) = <<>>
      BY QuestionAssumption
    <3> QED BY <1>1, <3>1
  <2> QED BY <1>1, <2>1, <2>2 DEF InOrder
<1>7. Delivers(io, written)
  <2>1. Got(<<>>) = <<>>
    BY AmongNothing DEF Got
  <2>2. <<>> \o (<<>> \o <<>>) = <<>> /\ SubSeq(Answer, 1, 0) = <<>>
    BY AnswerAssumption
  <2> QED BY <1>1, <2>1, <2>2 DEF Delivers
<1> QED BY <1>3, <1>4, <1>5, <1>6, <1>7 DEF StreamInv, Good

LEMMA NextStream == StreamInv /\ [Next]_vars => StreamInv'
<1> SUFFICES ASSUME Counted, Other, Good(io), [Next]_vars PROVE Counted' /\ Good(io)'
  BY NextOther DEF StreamInv
<1>1. ASSUME UNCHANGED <<io, asked, written, read, seen, reset>> PROVE Counted' /\ Good(io)'
  BY <1>1, StillGood
<1>2. CASE UNCHANGED vars
  BY <1>2, <1>1 DEF vars
<1>3. CASE ClientClose
  BY <1>3, <1>1 DEF ClientClose, task
<1>4. CASE Wake
  BY <1>4, <1>1 DEF Wake
<1> QED BY <1>2, <1>3, <1>4, SendGood, ReceiveGood, ResetGood, TaskGood DEF Next

\* The types, the order of the client's data and that of the answer are kept
\* by every step of the client, the socket and the task.
THEOREM StreamInvariant == Spec => []StreamInv
BY InitStream, NextStream, PTL DEF Spec

\* Every variable has its type: no more is buffered than the socket has room
\* for, and nothing is read that the client would not send.
THEOREM TypeCorrect == Spec => []TypeOK
<1>1. StreamInv => TypeOK
  <2> SUFFICES ASSUME StreamInv PROVE TypeOK
    OBVIOUS
  <2>1. ToSet(Script) \subseteq Record /\ Pieces \subseteq Record /\ Outgoing \subseteq Record
    BY ScriptFacts DEF Record, Outgoing, Handshake
  <2>2. io \in Session /\ Len(io.arrived) <= Room /\ Len(io.sent) <= Room
    BY DEF StreamInv, Good, SessionOk
  <2>3. io.arrived \in Seq(Record)
    BY <2>1, <2>2 DEF Session
  <2>4. io.plain \in Seq(Record)
    BY <2>1, <2>2 DEF Session
  <2>5. io.out \in Seq(Record)
    BY <2>1, <2>2 DEF Session
  <2>6. io.sent \in Seq(Record)
    BY <2>1, <2>2 DEF Session
  <2>7. io.awaits \in {"hello", "finished", "nothing"}
    BY <2>2 DEF Session
  <2>8. \A f \in {"arrived", "plain", "out", "sent"} : io[f] \in Seq(Record)
    BY <2>3, <2>4, <2>5, <2>6
  <2>9. asked \in 0..Len(Script) /\ written \in 0..Len(Answer) /\ read \in Seq(ToSet(Question))
        /\ reset \in BOOLEAN /\ seen \in Seq(Outgoing)
    BY DEF StreamInv, Counted, Pieces
  <2>10. seen \in Seq(Record)
    BY <2>1, <2>9
  <2> QED BY <2>2, <2>7, <2>8, <2>9, <2>10 DEF TypeOK, StreamInv, Other
<1> QED BY <1>1, StreamInvariant, PTL

-----------------------------------------------------------------------------
\* The two byte streams

ReadIsBeginning == Len(read) <= SentOf(asked) /\ read = SubSeq(Question, 1, Len(read))
GotIsBeginning == Len(Got(seen)) <= written /\ Got(seen) = SubSeq(Answer, 1, Len(Got(seen)))

\* The same holds after a step.
LEMMA Beginnings == (StreamInv => ReadIsBeginning /\ GotIsBeginning)'
<1>1. StreamInv => ReadIsBeginning /\ GotIsBeginning
  BY ReadSoFar, GotSoFar DEF StreamInv, ReadIsBeginning, GotIsBeginning
<1> QED BY <1>1, PTL

\* The client's data reach the reader in order, nothing twice and nothing else,
\* for any question and a socket of any size.  The piece that arrives together
\* with the end of the handshake, before there is a stream to read from, is
\* read first; a connection that is reset breaks off.
THEOREM UpInOrder == Spec => Upload!Init /\ [][Upload!Next]_(Upload!vars)
<1>1. Init => Upload!Init
  BY DEF Init, Upload!Init
<1>2. StreamInv /\ StreamInv' /\ [Next]_vars => [Upload!Next]_(Upload!vars)
  <2> SUFFICES ASSUME StreamInv, StreamInv', [Next]_vars
               PROVE  Upload!Next \/ UNCHANGED <<SentOf(asked), read, reset>>
    BY DEF Upload!vars, SentOf
  <2> USE DEF StreamInv
  <2>1. ASSUME UNCHANGED <<asked, read, reset>> PROVE UNCHANGED <<SentOf(asked), read, reset>>
    BY <2>1
  <2>2. ASSUME UNCHANGED <<asked, reset>>, Len(read)' \in Nat, Len(read)' > Len(read)
        PROVE  Upload!Next
    <3>1. Len(read)' <= SentOf(asked)' /\ read' = SubSeq(Question, 1, Len(read)')
      BY Beginnings DEF ReadIsBeginning
    <3> DEFINE n == Len(read)'
    <3>2. Len(read) \in Nat /\ SentOf(asked) \in Nat /\ SentOf(asked)' = SentOf(asked)
      BY <2>2, ReadSoFar DEF Counted
    <3>3. n \in Len(read) + 1..SentOf(asked) /\ read' = SubSeq(Question, 1, n)
      BY <2>2, <3>1, <3>2
    <3> HIDE DEF n
    <3>4. Upload!Receive
      BY <2>2, <3>3 DEF Upload!Receive, SentOf
    <3> QED BY <3>4 DEF Upload!Next
  <2>3. CASE ClientSend
    <3>1. asked' = asked + 1 /\ asked < Len(Script) /\ UNCHANGED <<read, reset>>
      BY <2>3 DEF ClientSend, task
    <3>2. asked \in Nat /\ Len(Script) = Len(Question) + 2 /\ Len(Question) \in Nat
      BY ScriptFacts DEF Counted
    <3>3. CASE asked < 2
      <4>1. SentOf(asked') = SentOf(asked)
        BY <3>1, <3>2, <3>3 DEF SentOf
      <4> QED BY <3>1, <4>1
    <3>4. CASE ~(asked < 2)
      <4>1. SentOf(asked) = asked - 2 /\ SentOf(asked') = asked - 1
        BY <3>1, <3>2, <3>4 DEF SentOf
      <4>2. SentOf(asked') \in SentOf(asked) + 1..Len(Question)
        BY <3>1, <3>2, <3>4, <4>1
      <4>3. Upload!Send
        BY <3>1, <4>2 DEF Upload!Send, SentOf
      <4> QED BY <4>3 DEF Upload!Next
    <3> QED BY <3>3, <3>4
  <2>4. CASE ClientReceive \/ ClientClose \/ Wake \/ UNCHANGED vars
    BY <2>1, <2>4 DEF ClientReceive, ClientClose, Wake, vars, task
  <2>5. CASE Reset
    <3>1. ~reset /\ reset' = TRUE /\ UNCHANGED <<asked, read>>
      BY <2>5 DEF Reset, task
    <3> QED BY <3>1 DEF Upload!Next, Upload!Cut
  <2>6. CASE Task
    BY <2>1, <2>2, <2>6, TaskGood DEF Idle, Reads, Writes
  <2> QED BY <2>3, <2>4, <2>5, <2>6 DEF Next
<1> QED BY <1>1, <1>2, StreamInvariant, PTL DEF Spec

\* The answer reaches the client in order, once, for any answer and a socket of
\* any size: what poll_write took while it completed the handshake is neither
\* forgotten nor written again.
THEOREM DownInOrder == Spec => Download!Init /\ [][Download!Next]_(Download!vars)
<1>1. Init => Download!Init
  <2>1. Among(<<>>, ToSet(Answer)) = <<>>
    BY AmongNothing
  <2> QED BY <2>1 DEF Init, Download!Init
<1>2. StreamInv /\ StreamInv' /\ [Next]_vars => [Download!Next]_(Download!vars)
  <2> SUFFICES ASSUME StreamInv, StreamInv', [Next]_vars
               PROVE  Download!Next \/ UNCHANGED <<written, Got(seen), reset>>
    BY DEF Download!vars, Got
  <2> USE DEF StreamInv
  <2>1. ASSUME UNCHANGED <<written, seen, reset>> PROVE UNCHANGED <<written, Got(seen), reset>>
    BY <2>1 DEF Got
  <2>2. CASE ClientReceive
    <3>1. UNCHANGED <<written, reset>>
      BY <2>2 DEF ClientReceive, task
    <3>2. Got(seen)' = Got(seen) \/ Len(Got(seen)') = Len(Got(seen)) + 1
      BY <2>2, ReceiveGood
    <3>3. CASE Got(seen)' = Got(seen)
      BY <3>1, <3>3
    <3>4. CASE Len(Got(seen)') = Len(Got(seen)) + 1
      <4>1. Len(Got(seen)') <= written' /\ Got(seen)' = SubSeq(Answer, 1, Len(Got(seen)'))
        BY Beginnings DEF GotIsBeginning
      <4>2. Len(Got(seen)) \in Nat /\ written \in Nat
        <5>1. Got(seen) \in Seq(ToSet(Answer) \cap Outgoing)
          BY AmongType DEF Got, Counted
        <5> DEFINE g == Got(seen)
        <5> HIDE DEF g
        <5>2. Len(g) \in Nat
          BY <5>1 DEF g
        <5>3. written \in Nat
          BY AnswerAssumption DEF Counted
        <5> QED BY <5>2, <5>3 DEF g
      <4> DEFINE n == Len(Got(seen)')
      <4>3. n \in Len(Got(seen)) + 1..written /\ Got(seen)' = SubSeq(Answer, 1, n)
        BY <3>1, <3>4, <4>1, <4>2
      <4> HIDE DEF n
      <4>4. Download!Receive
        BY <3>1, <4>3 DEF Download!Receive, Got
      <4> QED BY <4>4 DEF Download!Next
    <3> QED BY <3>2, <3>3, <3>4
  <2>3. CASE ClientSend \/ ClientClose \/ Wake \/ UNCHANGED vars
    BY <2>1, <2>3 DEF ClientSend, ClientClose, Wake, vars, task
  <2>4. CASE Reset
    <3>1. ~reset /\ reset' = TRUE /\ UNCHANGED <<written, seen>>
      BY <2>4 DEF Reset, task
    <3> QED BY <3>1 DEF Download!Next, Download!Cut
  <2>5. CASE Task
    <3>1. CASE Writes
      <4>1. written' \in 0..Len(Answer) /\ written \in 0..Len(Answer) /\ Len(Answer) \in Nat
        BY AnswerAssumption DEF Counted
      <4>2. written' > written /\ UNCHANGED <<seen, reset>>
        BY <3>1 DEF Writes
      <4>3. written' \in written + 1..Len(Answer)
        BY <4>1, <4>2
      <4> QED BY <4>2, <4>3 DEF Download!Next, Download!Send
    <3> QED BY <2>1, <2>5, <3>1, TaskGood DEF Idle, Reads
  <2> QED BY <2>2, <2>3, <2>4, <2>5 DEF Next
<1> QED BY <1>1, <1>2, StreamInvariant, PTL DEF Spec
=============================================================================
