--------------------------- MODULE DerivedServer ----------------------------
(***************************************************************************)
(* An application whose routes are an enum with #[derive(Route)]: the      *)
(* macro compiles the declarations, the server parses what browsers        *)
(* request and renders links with what the macro generated, and the user   *)
(* sees the page of a route or none.  Addresses are decoded, as in         *)
(* Navigation.                                                             *)
(***************************************************************************)
EXTENDS DeriveMacro

CONSTANTS Enums,    \* the enums a developer may write
          Texts,    \* what the fields of routes are written with
          Address   \* what the addresses a user may type read as

ASSUME EnumsAssumption == Enums \subseteq Seq(Declaration)
ASSUME TextsAssumption == Texts \subseteq Segment
ASSUME AddressAssumption == Address \subseteq {a \in PathAndQuery : Wire(a) = a}

VARIABLES source,   \* the declarations
          build,    \* "source", "built" or "rejected"
          table,    \* what was compiled from them
          request,  \* the address in the browser, or None
          link,     \* the route whose link led there, None for a typed address
          page      \* what it was answered with, None until then

vars == <<source, build, table, request, link, page>>

\* The values of the enum whose fields are written with Texts.
Routes(t) ==
  UNION { LET types == t[i].types
              piece(f, s) == parse_route_piece(types[f], s)
          IN { <<i, [f \in DOMAIN types |-> piece(f, texts[f])[1]]>> :
                 texts \in {x \in [DOMAIN types -> Texts] :
                              \A f \in DOMAIN types : piece(f, x[f]) # None} }
          : i \in 1..Len(t) }

Init ==
  /\ source \in Enums
  /\ build = "source"
  /\ table = <<>>
  /\ request = None
  /\ link = None
  /\ page = None

\* Routes::parse and gen_impl, and then rustc on what they generate.
Derive ==
  /\ build = "source"
  /\ IF \A i \in 1..Len(source) : Accepted(source[i]) /\ RustcAccepts(source[i])
       THEN /\ build' = "built"
            /\ table' = [i \in 1..Len(source) |-> Variant(source[i])]
       ELSE build' = "rejected" /\ UNCHANGED table
  /\ UNCHANGED <<source, request, link, page>>

Edit ==
  /\ build = "rejected"
  /\ source' \in Enums
  /\ build' = "source"
  /\ UNCHANGED <<table, request, link, page>>

Type ==
  /\ build = "built" /\ request = None
  /\ request' \in {Some(a) : a \in Address}
  /\ UNCHANGED <<source, build, table, link, page>>

Follow(r) ==
  /\ build = "built" /\ request = None
  /\ request' = Some(Wire([path |-> path(table, r), query |-> query(table, r)]))
  /\ link' = Some(r)
  /\ UNCHANGED <<source, build, table, page>>

\* The page of the route, or the one for an address that matches none.
Dispatch ==
  /\ request # None /\ page = None
  /\ LET result == parse(table, request[1])
     IN result.outcome # "redirect" /\ page' = Some(result)
  /\ UNCHANGED <<source, build, table, request, link>>

Redirect ==
  /\ request # None /\ page = None
  /\ LET result == parse(table, request[1])
     IN result.outcome = "redirect" /\ request' = Some(Wire(result.to))
  /\ UNCHANGED <<source, build, table, link, page>>

Close ==
  /\ page # None
  /\ request' = None
  /\ link' = None
  /\ page' = None
  /\ UNCHANGED <<source, build, table>>

Next ==
  \/ Derive \/ Edit
  \/ Type \/ (\E r \in Routes(table) : Follow(r))
  \/ Dispatch \/ Redirect \/ Close

Spec == Init /\ [][Next]_vars

-----------------------------------------------------------------------------

Served == {p \in ToSet(page) : p.outcome = "route"}

\* Every variable has its type; the fields of a route that was dispatched hold
\* values of their types.
TypeOK ==
  /\ source \in Enums
  /\ build \in {"source", "built", "rejected"}
  /\ request \in Option(PathAndQuery)
  /\ \A p \in Served :
       LET types == table[p.route[1]].types
       IN /\ DOMAIN p.route[2] = DOMAIN types
          /\ \A f \in DOMAIN types :
               CASE types[f] = "String" -> p.route[2][f] \in Segment
                 [] types[f] = "i32"    -> p.route[2][f] \in i32
                 [] types[f] = "bool"   -> p.route[2][f] \in BOOLEAN

\* No key has two values in one route.
KeysAreSingle(v) ==
  \A i, j \in 1..Len(v.query) :
    v.query[i][1] = v.query[j][1] /\ v.query[i][2] # None /\ v.query[j][2] # None => i = j

\* p takes no address that q renders: their paths differ in length or in a
\* literal, or p asks for a pair that q does not write.
Apart(p, q) ==
  \/ Len(p.path) # Len(q.path)
  \/ \E i \in 1..Len(p.path) :
       /\ p.path[i].literal # None /\ q.path[i].literal # None
       /\ p.path[i].literal # q.path[i].literal
  \/ \E k \in 1..Len(p.query) :
       LET key == p.query[k][1]  value == p.query[k][2]
       IN \/ ~contains(q.query, key)
          \/ value # None /\ valued(q.query, key) = {}
          \/ /\ value # None /\ value[1].literal # None
             /\ \A i \in valued(q.query, key) :
                  /\ q.query[i][2][1].literal # None
                  /\ q.query[i][2][1].literal # value[1].literal

\* "A type which can be parsed from and rendered to an HTTP path and query":
\* the link of a route is served with a page, and never redirected, whatever
\* its Strings hold, when no key of the route has two values.
LinkIsServed ==
  link # None /\ KeysAreSingle(table[link[1][1]]) =>
    /\ parse(table, request[1]).outcome = "route"
    /\ page # None => page[1].outcome = "route"

\* And the page is that of the very route, with its fields, when it is apart
\* from the variants declared before it.
LinkReachesItsRoute ==
  \A r \in ToSet(link) :
    /\ page # None
    /\ KeysAreSingle(table[r[1]])
    /\ \A i \in 1..r[1] - 1 : Apart(table[i], table[r[1]])
    => page = Some([outcome |-> "route", route |-> r])

\* What the enum of the tests takes for granted, that each of its routes can be
\* parsed from what it renders to.
EveryLinkReachesItsRoute ==
  link # None /\ page # None => page = Some([outcome |-> "route", route |-> link[1]])

SameText(s, t) == s = t \/ (parse_i32(s) # None /\ parse_i32(s) = parse_i32(t))

\* A page is shown at its own address only: the route that was dispatched is
\* written with the segments that were requested, up to the spelling of
\* numbers, and each of its pairs is in the query with no other value.
PageIsAtItsAddress ==
  \A p \in Served :
    LET segments == path(table, p.route)
        pairs == query(table, p.route)
        asked == IF request[1].query = None THEN <<>> ELSE request[1].query[1]
    IN /\ Len(segments) = Len(request[1].path)
       /\ \A i \in 1..Len(segments) : SameText(segments[i], request[1].path[i])
       /\ pairs # None => \A i \in 1..Len(pairs[1]) :
            LET key == pairs[1][i][1]  value == pairs[1][i][2]
            IN /\ contains(asked, key)
               /\ value # None => \A j \in 1..Len(asked) :
                    asked[j][1] = key /\ asked[j][2] # None => SameText(asked[j][2][1], value[1])
=============================================================================
