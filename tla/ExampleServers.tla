--------------------------- MODULE ExampleServers ---------------------------
(***************************************************************************)
(* The program of routetype-example/src/hyper.rs: main joins a plain and a *)
(* TLS listener in one task, the connections they accept get tasks of      *)
(* their own on other threads, and every home page shows how many came     *)
(* before it.  A visit is a connection that asks for the home page; the    *)
(* other two pages touch nothing that is shared.                           *)
(*                                                                         *)
(* try_join! polls both futures whenever its task runs, and returns when   *)
(* one of them has failed or both are done.  A server's future is done     *)
(* only if its incoming connections end, which those of a port never do.   *)
(***************************************************************************)
EXTENDS TlsConfig, Naturals, FiniteSets

CONSTANTS Visit,     \* the visits ever made
          Asset,     \* what the embedded key and certificate may be
          UsizeSize  \* 2^64: how many values a usize has

ASSUME VisitAssumption == IsFiniteSet(Visit)
ASSUME AssetAssumption == Asset \subseteq Bytes
ASSUME UsizeAssumption == UsizeSize \in Nat \ {0}

Port == {"plain", "tls"}
NoCount == UsizeSize

VARIABLES assets,    \* the embedded files, None when one is not found
          main,      \* where the task of main stands
          listener,  \* listener[p]: the future that serves port p
          outcome,   \* how main ended: with an "error" or a "panic"
          visit,     \* visit[v]: where its task stands
          counter,   \* MyApp::counter
          shown      \* shown[v]: what fetch_add gave to its page

visits == <<visit, counter, shown>>
vars == <<assets, main, listener, outcome, visits>>

Init ==
  /\ assets \in [{"key", "crt"} -> {None} \cup {Some(a) : a \in Asset}]
  /\ main = "assets"
  /\ listener = [p \in Port |-> "new"]
  /\ outcome = "none"
  /\ visit = [v \in Visit |-> "unmade"]
  /\ counter = 0
  /\ shown = [v \in Visit |-> NoCount]

-----------------------------------------------------------------------------
\* main

\* A failure makes main leave its body, which drops both futures.
Leave(how) ==
  /\ outcome' = how
  /\ main' = "leaving"

Assets ==
  /\ main = "assets"
  /\ \/ /\ None \in {assets.key, assets.crt}
        /\ Leave("error")
     \/ /\ None \notin {assets.key, assets.crt}
        /\ main' = "plain"
        /\ UNCHANGED outcome
  /\ UNCHANGED <<assets, listener, visits>>

\* The first poll of DispatchServer::run: Server::bind panics if the port is taken.
PollPlain ==
  /\ main = "plain"
  /\ \/ /\ listener' = [listener EXCEPT !["plain"] = "listening"]
        /\ main' = "tls"
        /\ UNCHANGED outcome
     \/ /\ listener' = [listener EXCEPT !["plain"] = "failed"]
        /\ Leave("panic")
  /\ UNCHANGED <<assets, visits>>

TlsConfigBuilds == build("Off", [key |-> assets.key, cert |-> assets.crt], <<>>).ok

\* The first poll of run_tls: it builds the configuration and then binds its
\* port, and an error of either is returned.
PollTls ==
  /\ main = "tls"
  /\ \/ /\ TlsConfigBuilds
        /\ listener' = [listener EXCEPT !["tls"] = "listening"]
        /\ main' = "joined"
        /\ UNCHANGED outcome
     \/ /\ listener' = [listener EXCEPT !["tls"] = "failed"]
        /\ Leave("error")
  /\ UNCHANGED <<assets, visits>>

\* Faulty form: join! waits for the other future when one has failed.
AcceptErrJoin(p) ==
  /\ main = "joined" /\ listener[p] = "listening"
  /\ listener' = [listener EXCEPT ![p] = "failed"]
  /\ IF \A q \in Port : listener'[q] = "failed" THEN Leave("error") ELSE UNCHANGED <<main, outcome>>
  /\ UNCHANGED <<assets, visits>>

\* A later poll: the accept loop of a port fails.
AcceptErr(p) ==
  /\ main = "joined" /\ listener[p] = "listening"
  /\ listener' = [listener EXCEPT ![p] = "failed"]
  /\ Leave("error")
  /\ UNCHANGED <<assets, visits>>

\* The futures of both servers are dropped, and their ports closed.
DropFutures ==
  /\ main = "leaving"
  /\ main' = "left"
  /\ listener' = [p \in Port |-> IF listener[p] = "failed" THEN "failed" ELSE "dropped"]
  /\ UNCHANGED <<assets, outcome, visits>>

\* The runtime is dropped with every task that has not come to its end.
ShutdownRuntime ==
  /\ main = "left"
  /\ main' = "exit"
  /\ visit' = [v \in Visit |-> IF visit[v] \in {"accepted", "counted"} THEN "dropped" ELSE visit[v]]
  /\ UNCHANGED <<assets, listener, outcome, counter, shown>>

-----------------------------------------------------------------------------
\* Visits

\* main's task polls the accept loop of p, and its connection becomes a task.
Accept(v, p) ==
  /\ visit[v] = "unmade"
  /\ listener[p] = "listening"
  /\ main \in {"tls", "joined"}
  /\ visit' = [visit EXCEPT ![v] = "accepted"]
  /\ UNCHANGED <<assets, main, listener, outcome, counter, shown>>

Runs(v, state) == visit[v] = state /\ main # "exit"

\* Faulty form: the counter is loaded, and stored afterwards.
LoadThenStore(v) ==
  /\ Runs(v, "accepted")
  /\ \/ /\ shown[v] = NoCount
        /\ shown' = [shown EXCEPT ![v] = counter]
        /\ UNCHANGED <<visit, counter>>
     \/ /\ shown[v] # NoCount
        /\ counter' = (shown[v] + 1) % UsizeSize
        /\ visit' = [visit EXCEPT ![v] = "counted"]
        /\ UNCHANGED shown
  /\ UNCHANGED <<assets, main, listener, outcome>>

\* Faulty form: the sum is not taken modulo the size of the type.
FetchAddUnbounded(v) ==
  /\ Runs(v, "accepted")
  /\ shown' = [shown EXCEPT ![v] = counter]
  /\ counter' = counter + 1
  /\ visit' = [visit EXCEPT ![v] = "counted"]
  /\ UNCHANGED <<assets, main, listener, outcome>>

\* get_home takes a number for its page.
FetchAdd(v) ==
  /\ Runs(v, "accepted")
  /\ shown' = [shown EXCEPT ![v] = counter]
  /\ counter' = (counter + 1) % UsizeSize
  /\ visit' = [visit EXCEPT ![v] = "counted"]
  /\ UNCHANGED <<assets, main, listener, outcome>>

\* respond::askama renders the page, or fails, which helper makes an error page.
Render(v) ==
  /\ Runs(v, "counted")
  /\ visit' = [visit EXCEPT ![v] = "answered"]
  /\ UNCHANGED <<assets, main, listener, outcome, counter, shown>>

RenderErr(v) ==
  /\ Runs(v, "counted")
  /\ visit' = [visit EXCEPT ![v] = "error page"]
  /\ UNCHANGED <<assets, main, listener, outcome, counter, shown>>

-----------------------------------------------------------------------------

Main == Assets \/ PollPlain \/ PollTls \/ DropFutures \/ ShutdownRuntime
Task(v) == FetchAdd(v) \/ Render(v) \/ RenderErr(v)

Next ==
  \/ Main
  \/ \E p \in Port : AcceptErr(p)
  \/ \E v \in Visit : Task(v) \/ \E p \in Port : Accept(v, p)

\* tokio polls the task of main and those of the connections; visitors need
\* not come and ports need not fail.
Fairness == WF_vars(Main) /\ \A v \in Visit : WF_vars(Task(v))

Spec == Init /\ [][Next]_vars /\ Fairness

-----------------------------------------------------------------------------

\* Every variable has its type.
TypeOK ==
  /\ assets \in [{"key", "crt"} -> {None} \cup {Some(a) : a \in Asset}]
  /\ main \in {"assets", "plain", "tls", "joined", "leaving", "left", "exit"}
  /\ listener \in [Port -> {"new", "listening", "failed", "dropped"}]
  /\ outcome \in {"none", "error", "panic"}
  /\ visit \in [Visit -> {"unmade", "accepted", "counted", "answered", "error page", "dropped"}]
  /\ counter \in 0..UsizeSize - 1
  /\ shown \in [Visit -> 0..UsizeSize]

Counted == {v \in Visit : shown[v] # NoCount}

\* However the visits of both ports overlap, the counter has counted each once,
\* and until the numbers wrap around no two pages show the same one and none is
\* left out.
EachVisitCountsOnce ==
  /\ counter = Cardinality(Counted) % UsizeSize
  /\ Cardinality(Counted) <= UsizeSize =>
       \A v \in Counted :
         /\ shown[v] < Cardinality(Counted)
         /\ \A w \in Counted : shown[w] = shown[v] => w = v

\* While main waits, both ports are served: there is no program that goes on
\* with one of them, and none that listens for TLS without a configuration.
BothPortsOrNone ==
  /\ main = "joined" => \A p \in Port : listener[p] = "listening"
  /\ listener["tls"] = "listening" => TlsConfigBuilds

\* A port that fails, at the start or later, ends the whole program with an
\* error, and no visit that it has accepted is left waiting.
FailureEndsTheProgram ==
  \A p \in Port : listener[p] = "failed" ~>
    /\ main = "exit" /\ outcome # "none"
    /\ \A v \in Visit : visit[v] \in {"unmade", "answered", "error page", "dropped"}
=============================================================================
