--------------------------- MODULE NavigationText ---------------------------
(***************************************************************************)
(* Navigation over the text that browser and server exchange: the address  *)
(* line, the request target, the href of a link and the Location of a      *)
(* redirect.  Stack says which server it is: routetype-hyper's helper,     *)
(* which parses with parse_str, or routetype-warp's dispatch_filter, which *)
(* parses with route_filter_result.                                        *)
(***************************************************************************)
EXTENDS RouteText

CONSTANTS Url,      \* the text a user may type
          Route,    \* the routes the application renders links to
          HopLimit, \* where the count of redirects stops counting
          Stack     \* "hyper" or "warp"

ASSUME UrlAssumption == Url \subseteq Seq(Char)
ASSUME RouteAssumption == Route \subseteq PathAndQuery
ASSUME HopLimitAssumption == HopLimit \in Nat /\ HopLimit >= 2
ASSUME StackAssumption == Stack \in {"hyper", "warp"}

VARIABLES url,      \* the text of the outstanding request, or None
          reads,    \* history: what parse_path_and_query reads in url
          link, hops, page

vars == <<url, reads, link, hops, page>>

server_parse(s) == IF Stack = "hyper" THEN parse_str(s) ELSE route_filter_result(s)

Send(s) == url' = Some(s) /\ reads' = Some(parse_path_and_query(s))

Init ==
  /\ url = None
  /\ reads = None
  /\ link = None
  /\ hops = 0
  /\ page = None

Type(s) ==
  /\ url = None /\ page = None
  /\ Send(s)
  /\ UNCHANGED <<link, hops, page>>

Follow(r) ==
  /\ url = None
  /\ page = None \/ page = Some(r)
  /\ Send(render(r))
  /\ link' = Some(r)
  /\ hops' = 0
  /\ page' = None

Close ==
  /\ page # None
  /\ link' = None
  /\ hops' = 0
  /\ page' = None
  /\ UNCHANGED <<url, reads>>

Dispatch ==
  /\ url # None
  /\ LET result == server_parse(url[1])
     IN  /\ result.ok
         /\ page' = Some(result.route)
  /\ url' = None /\ reads' = None
  /\ UNCHANGED <<link, hops>>

Redirect ==
  /\ url # None
  /\ LET result == server_parse(url[1])
     IN  /\ ~result.ok
         /\ Send(result.dest)
  /\ hops' = IF hops < HopLimit THEN hops + 1 ELSE hops
  /\ UNCHANGED <<link, page>>

Next ==
  \/ \E s \in Url : Type(s)
  \/ \E r \in IF page = None THEN Route ELSE ToSet(page) : Follow(r)
  \/ Close
  \/ Dispatch
  \/ Redirect

Fairness == WF_vars(Dispatch) /\ WF_vars(Redirect)

Spec == Init /\ [][Next]_vars /\ Fairness

-----------------------------------------------------------------------------

UrlAddress == {parse_path_and_query(s) : s \in Url}

Nav == INSTANCE Navigation
  WITH request <- reads,
       Address <- UrlAddress

\* Text in transit is text, and what is parsed from it is a route.
TypeOK ==
  /\ url \in Option(Seq(Char))
  /\ reads \in Option(PathAndQuery)
  /\ link \in Option(PathAndQuery)
  /\ page \in Option(PathAndQuery)

\* The text that is exchanged carries what Navigation says of the decoded
\* addresses: percent escapes, separators and the optional parts of a URL are
\* written and read so that no route, link or redirect is confused with
\* another one, whatever characters it is made of.
ImplementsNavigation == Nav!Init /\ [][Nav!Next]_(Nav!vars)

BeginsWith(path, c) == path # <<>> /\ path[1] # <<>> /\ path[1][1] = c

\* The address of a link or a redirect is well formed, as the expect() of the
\* warp filter and the header of the hyper response need, and is an absolute
\* path of RFC 3986: it begins with one slash, never two, whatever the first
\* segment of the route or of the address typed was.  A browser also takes a
\* backslash for a slash, and PATH_SET leaves it as it is: one can follow the
\* first slash, and does only where the first segment begins with it.
WrittenUrlsAreAbsolutePaths ==
  url # None /\ (link # None \/ hops > 0) =>
    /\ url[1] # <<>> /\ url[1][1] = "/"
    /\ Len(url[1]) > 1 =>
         /\ url[1][2] # "/"
         /\ url[1][2] = Backslash => BeginsWith(reads[1].path, Backslash)
    /\ \A i \in 1..Len(url[1]) :
         /\ url[1][i] \notin {" ", Replacement}
         /\ url[1][i] = "%" => i < Len(url[1]) /\ url[1][i + 1] \in Digits

\* "Like parse_str, but takes the path and query string as separate strings":
\* both entry points read the same thing in the address at hand.
ParseStrsLikeParseStr ==
  url # None => route_filter_result(url[1]) = parse_str(url[1])
=============================================================================
