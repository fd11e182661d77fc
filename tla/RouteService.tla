---------------------------- MODULE RouteService ----------------------------
(***************************************************************************)
(* What a routetype-hyper server promises the requests that reach it: each *)
(* is settled once, by an answer that its own target calls for or by being *)
(* dropped with its connection, and none waits forever.                    *)
(***************************************************************************)
CONSTANTS Request,  \* the requests that clients ever make
          Kind,     \* what the server tells apart in a request
          Answer,   \* the answers there are
          Allowed   \* Allowed[k]: the answers a request of kind k may get

NoAnswer == "no answer"

VARIABLES status,  \* status[q]: where request q stands
          kind,    \* kind[q]: what it asks for, once it has been made
          answer   \* answer[q]: what it was answered with

vars == <<status, kind, answer>>

Waiting == {q \in Request : status[q] = "waiting"}

Init ==
  /\ status = [q \in Request |-> "unsent"]
  /\ kind \in [Request -> Kind]
  /\ answer = [q \in Request |-> NoAnswer]

Ask(q) ==
  /\ status[q] = "unsent"
  /\ status' = [status EXCEPT ![q] = "waiting"]
  /\ UNCHANGED <<kind, answer>>

AnswerOne(q) ==
  /\ status[q] = "waiting"
  /\ status' = [status EXCEPT ![q] = "answered"]
  /\ \E a \in Allowed[kind[q]] : answer' = [answer EXCEPT ![q] = a]
  /\ UNCHANGED kind

\* A connection that ends takes the requests with it that wait on it.
Drop(Q) ==
  /\ Q # {} /\ Q \subseteq Waiting
  /\ status' = [q \in Request |-> IF q \in Q THEN "dropped" ELSE status[q]]
  /\ UNCHANGED <<kind, answer>>

Settle(q) == AnswerOne(q) \/ \E Q \in SUBSET Waiting : q \in Q /\ Drop(Q)

Next ==
  \/ \E q \in Request : Ask(q) \/ AnswerOne(q)
  \/ \E Q \in SUBSET Waiting : Drop(Q)

Fairness == \A q \in Request : WF_vars(Settle(q))

Spec == Init /\ [][Next]_vars /\ Fairness
=============================================================================
