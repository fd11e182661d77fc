---------------------------- MODULE DeriveMacro -----------------------------
(***************************************************************************)
(* #[derive(Route)] itself: how the #[route("...")] attribute of a variant *)
(* and its fields become a row of DerivedRoute's table, and what the macro *)
(* refuses (routetype-derive/src/route_parse.rs).                          *)
(*                                                                         *)
(* A declaration is [shape, fields, route]: whether the variant is "unit", *)
(* "positional" or "named", its fields as [name, type] in order, and the   *)
(* text of the attribute.                                                  *)
(***************************************************************************)
EXTENDS DerivedRoute, Strings, Filters

\* What a derive macro is applied to.
Declaration ==
  [ shape  : {"unit", "positional", "named"},
    fields : Seq([name : Segment, type : {"String", "i32", "bool"}]),
    route  : Segment ]

\* "{...}" stands for a field and anything else for itself.
interpolates(raw) == raw # <<>> /\ raw[1] = "{"
name(raw) == SubSeq(raw, 2, Len(raw) - 1)

\* RouteValueRaw::from_str and AsField: "{}" is for tuple variants, "{name}" is
\* for variants with named fields, and unit variants have neither.
RouteValueOk(raw, shape) ==
  interpolates(raw) =>
    /\ Len(raw) >= 2 /\ raw[Len(raw)] = "}"
    /\ shape = IF name(raw) = <<>> THEN "positional" ELSE "named"

raw_path(route) ==
  LET i == find(route, "?")
  IN strip_prefix(IF i = 0 THEN route ELSE SubSeq(route, 1, i - 1), "/")

raw_query(route) ==
  LET i == find(route, "?")
  IN IF i = 0 THEN None ELSE Some(SubSeq(route, i + 1, Len(route)))

raw_segments(route) ==
  IF raw_path(route) = <<>> THEN <<>> ELSE split(raw_path(route), "/")

raw_pair(s) ==
  LET i == find(s, "=")
  IN IF i = 0 THEN <<s, None>>
     ELSE <<SubSeq(s, 1, i - 1), Some(SubSeq(s, i + 1, Len(s)))>>

raw_pairs(route) ==
  IF raw_query(route) = None THEN <<>>
  ELSE LET parts == split(raw_query(route)[1], "&")
       IN [i \in 1..Len(parts) |-> raw_pair(parts[i])]

\* A value for each segment and each pair, None for a key that stands alone.
raw_values(route) ==
  LET segments == raw_segments(route)  pairs == raw_pairs(route)
  IN [i \in 1..Len(segments) |-> Some(segments[i])] \o [i \in 1..Len(pairs) |-> pairs[i][2]]

\* The places of those that take a field, in the order in which they do.
fields_used(route) ==
  LET raws == raw_values(route)
  IN Among([i \in 1..Len(raws) |-> i],
           {i \in 1..Len(raws) : raws[i] # None /\ interpolates(raws[i][1])})

\* PathAndQuery::parse succeeds: every value is well formed, "?" is followed by
\* something, and popping one field for each "{...}" leaves none over.
Accepted(decl) ==
  /\ raw_query(decl.route) # Some(<<>>)
  /\ \A raw \in ToSet(raw_values(decl.route)) : raw # None => RouteValueOk(raw[1], decl.shape)
  /\ Len(fields_used(decl.route)) = Len(decl.fields)

\* The pattern and the constructor that are generated name each field once, and
\* nothing else.
RustcAccepts(decl) ==
  decl.shape = "named" =>
    LET used == fields_used(decl.route)
        named(k) == name(raw_values(decl.route)[used[k]][1])
        names == {decl.fields[i].name : i \in 1..Len(decl.fields)}
    IN /\ \A k \in 1..Len(used) : named(k) \in names
       /\ \A f \in names : \E k \in 1..Len(used) :
            \A j \in 1..Len(used) : named(j) = f <=> j = k

(***************************************************************************)
(* The row of an accepted declaration.  A field of a tuple variant is      *)
(* known by its position among the values that are interpolated, those of  *)
(* the path before those of the query.                                     *)
(***************************************************************************)
Variant(decl) ==
  LET segments == raw_segments(decl.route)
      pairs == raw_pairs(decl.route)
      used == fields_used(decl.route)
      route_value(raw, place) ==
        IF ~interpolates(raw) THEN Literal(raw)
        ELSE Field(IF decl.shape = "named" THEN name(raw)
                   ELSE CHOOSE k \in 1..Len(used) : used[k] = place)
      value(i) ==
        IF pairs[i][2] = None THEN None
        ELSE Some(route_value(pairs[i][2][1], Len(segments) + i))
  IN [ path  |-> [i \in 1..Len(segments) |-> route_value(segments[i], i)],
       query |-> [i \in 1..Len(pairs) |-> <<pairs[i][1], value(i)>>],
       types |-> IF decl.shape = "named"
                 THEN [f \in {decl.fields[i].name : i \in 1..Len(decl.fields)} |->
                         (CHOOSE d \in ToSet(decl.fields) : d.name = f).type]
                 ELSE [i \in 1..Len(decl.fields) |-> decl.fields[i].type] ]
=============================================================================
