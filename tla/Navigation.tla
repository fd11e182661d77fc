----------------------------- MODULE Navigation -----------------------------
(***************************************************************************)
(* One browser and a server built with routetype, at the level of decoded  *)
(* paths and queries: the user types an address or follows a link that a   *)
(* page rendered, the server parses what arrives and either dispatches the *)
(* route or answers with a redirect to the normalized address, which the   *)
(* browser then requests.                                                  *)
(*                                                                         *)
(* The server is routetype-hyper's helper with PlainRoute as the route     *)
(* type.  NavigationText states the same system over the bytes that are    *)
(* sent, and implements this one.                                          *)
(***************************************************************************)
EXTENDS Normalize

CONSTANTS Address,   \* what the addresses a user may type read as
          Route,     \* the routes the application renders links to
          HopLimit   \* where the count of redirects stops counting

ASSUME AddressAssumption ==
  Address \subseteq {a \in PathAndQuery : Wire(a) = a}
ASSUME RouteAssumption == Route \subseteq PathAndQuery
ASSUME HopLimitAssumption == HopLimit \in Nat /\ HopLimit >= 2

VARIABLES request,  \* the address the browser is requesting, or None
          link,     \* the route whose link led here, None for a typed address
          hops,     \* redirects followed since then
          page      \* the route of the page on display, None while one loads

vars == <<request, link, hops, page>>

Init ==
  /\ request = None
  /\ link = None
  /\ hops = 0
  /\ page = None

\* The user opens an address, normalized or not.
Type ==
  /\ request = None /\ page = None
  /\ UNCHANGED <<link, hops, page>>
  /\ request' \in {Some(a) : a \in Address}

\* A page shows a link to r and the user follows it: Route::render wrote its
\* address.  A page may link to itself, whichever address it was opened at.
Follow(r) ==
  /\ link' = Some(r)
  /\ request = None
  /\ page = None \/ page = Some(r)
  /\ request' = Some(Wire(PlainPathAndQuery(r)))
  /\ hops' = 0
  /\ page' = None

\* The user closes the page.
Close ==
  /\ page # None
  /\ link' = None
  /\ hops' = 0
  /\ page' = None
  /\ UNCHANGED request

\* The request parses: the application is given the route.
Dispatch ==
  /\ request # None
  /\ LET result == normalize_parse(request[1])
     IN  /\ result.ok
         /\ page' = Some(result.to)
  /\ request' = None
  /\ UNCHANGED <<link, hops>>

\* Faulty form: the browser is sent back where it came from.
RedirectToSame ==
  /\ request # None
  /\ ~normalize_parse(request[1]).ok
  /\ hops' = hops + 1
  /\ UNCHANGED <<request, link, page>>

\* NormalizationFailed: the browser is sent to the rendered destination.
Redirect ==
  /\ request # None
  /\ LET result == normalize_parse(request[1])
     IN  /\ ~result.ok
         /\ request' = Some(Wire(result.to))
  /\ hops' = IF hops < HopLimit THEN hops + 1 ELSE hops
  /\ UNCHANGED <<link, page>>

Next ==
  \/ Type
  \/ \E r \in IF page = None THEN Route ELSE ToSet(page) : Follow(r)
  \/ Close
  \/ Dispatch
  \/ Redirect

Fairness == WF_vars(Dispatch) /\ WF_vars(Redirect)

Spec == Init /\ [][Next]_vars /\ Fairness

-----------------------------------------------------------------------------

\* Every variable has its type: what the server produces from an address is
\* again an address, and what it dispatches is a route.
TypeOK ==
  /\ request \in Option(PathAndQuery)
  /\ link \in Option(PathAndQuery)
  /\ hops \in 0..HopLimit
  /\ page \in Option(PathAndQuery)

\* "You have one canonical URL": a redirect leads to an address that is not
\* redirected again, whatever the user typed.
AtMostOneRedirect == hops <= 1

\* A link that the application rendered is never redirected, and once it is
\* served the application gets back the very route it rendered, except that
\* a lone pair without key and value reads as an empty query.
LinkReachesItsRoute ==
  link # None =>
    /\ hops = 0
    /\ request = None =>
         page = Some([path |-> link[1].path, query |-> WireQuery(link[1].query)])

\* A redirect changes slashes only: the query and the sequence of segments
\* that are not empty reach the server again unchanged.
RedirectKeepsMeaning ==
  [][ hops' # hops /\ request' # None /\ request # None =>
        /\ request'[1].query = request[1].query
        /\ DropEmpty(request'[1].path) = DropEmpty(request[1].path) ]_vars

\* Every navigation ends with a page: no address leads into a redirect loop.
NavigationEnds == request # None ~> request = None
=============================================================================
