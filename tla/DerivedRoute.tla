---------------------------- MODULE DerivedRoute ----------------------------
(***************************************************************************)
(* What #[derive(Route)] makes of an enum: the generated parse, path and   *)
(* query (routetype-derive/src/route_parse.rs) with the RoutePiece and     *)
(* QueryMap of routetype/src/lib.rs that they call.  The enum is a table   *)
(* of variants, in the order of their declaration; DeriveMacro says how it *)
(* is read from the attributes.                                            *)
(*                                                                         *)
(* A value of the enum is <<i, args>>: the variant Table[i] with a value   *)
(* for each of its fields.                                                 *)
(***************************************************************************)
EXTENDS Normalize, Integers

CONSTANT I32Max  \* i32::MAX; i32::MIN is one further from zero

ASSUME I32MaxAssumption == I32Max \in Nat

i32 == -I32Max - 1..I32Max

Digit == <<"0", "1", "2", "3", "4", "5", "6", "7", "8", "9">>
IsDigits(s) == s # <<>> /\ \A i \in 1..Len(s) : s[i] \in ToSet(Digit)

\* What pieces are written with is text; a word is kept together.
ASSUME PieceAssumption ==
  /\ Dash = "-"
  /\ ToSet(Digit) \cup {"+", "true", "false"} \subseteq Char

\* The number that a sequence of digits names, and back.
Worth(digit) == CHOOSE k \in 0..9 : Digit[k + 1] = digit

Number(s) ==
  LET value[i \in 0..Len(s)] == IF i = 0 THEN 0 ELSE 10 * value[i - 1] + Worth(s[i])
  IN value[Len(s)]

Decimal(n) ==
  LET digits[m \in 0..n] ==
        IF m < 10 THEN <<Digit[m + 1]>> ELSE Append(digits[m \div 10], Digit[(m % 10) + 1])
  IN digits[n]

\* Faulty form: a number that is too large is taken all the same.
parse_i32_unbounded(s) ==
  LET digits == IF s # <<>> /\ s[1] \in {"+", "-"} THEN Tail(s) ELSE s
  IN IF ~IsDigits(digits) THEN None
     ELSE Some(IF s[1] = "-" THEN -Number(digits) ELSE Number(digits))

\* A sign may lead, and so may zeros; out of range is no number.
parse_i32(s) ==
  LET digits == IF s # <<>> /\ s[1] \in {"+", "-"} THEN Tail(s) ELSE s
      n == IF s[1] = "-" THEN -Number(digits) ELSE Number(digits)
  IN IF IsDigits(digits) /\ n \in i32 THEN Some(n) ELSE None

parse_route_piece(type, s) ==
  CASE type = "String" -> Some(s)
    [] type = "i32"    -> parse_i32(s)
    [] type = "bool"   -> IF s \in {<<"true">>, <<"false">>} THEN Some(s = <<"true">>) ELSE None

render_route_piece(type, v) ==
  CASE type = "String" -> v
    [] type = "i32"    -> IF v < 0 THEN <<"-">> \o Decimal(-v) ELSE Decimal(v)
    [] type = "bool"   -> IF v THEN <<"true">> ELSE <<"false">>

-----------------------------------------------------------------------------
\* QueryMap, made from the pairs of a query (none when there is no query)

contains(pairs, key) == \E i \in 1..Len(pairs) : pairs[i][1] = key

\* Where a key has a value.
valued(pairs, key) == {i \in 1..Len(pairs) : pairs[i][1] = key /\ pairs[i][2] # None}

get_single(pairs, key) ==
  LET places == valued(pairs, key)
  IN IF \E i \in places : places = {i} THEN pairs[CHOOSE i \in places : TRUE][2] ELSE None

-----------------------------------------------------------------------------
(***************************************************************************)
(* A RouteValue is a literal or one of the fields of its variant.  A       *)
(* variant has the RouteValues of its path, the pairs of its query, with   *)
(* None for the value of a key that stands alone, and its fields' types.   *)
(***************************************************************************)
Literal(s) == [literal |-> Some(s), field |-> None]
Field(f) == [literal |-> None, field |-> Some(f)]

\* What the generated path and query write for a RouteValue.
written(v, args, rv) ==
  IF rv.literal # None THEN rv.literal[1]
  ELSE render_route_piece(v.types[rv.field[1]], args[rv.field[1]])

\* What the generated parse makes of the text found in its place, if anything.
accepts(v, rv, text) ==
  IF rv.literal # None THEN text = rv.literal[1]
  ELSE parse_route_piece(v.types[rv.field[1]], text) # None

\* Faulty form: the segments are written as they are.
path_unmarked(table, r) ==
  LET v == table[r[1]]
  IN [i \in 1..Len(v.path) |-> written(v, r[2], v.path[i])]

path(table, r) ==
  LET v == table[r[1]]
  IN normalize_render_path([i \in 1..Len(v.path) |-> written(v, r[2], v.path[i])])

query(table, r) ==
  LET v == table[r[1]]
      pair(q) == <<q[1], IF q[2] = None THEN None ELSE Some(written(v, r[2], q[2][1]))>>
  IN IF v.query = <<>> THEN None ELSE Some([i \in 1..Len(v.query) |-> pair(v.query[i])])

\* Faulty form: segments that are left over do not disturb.
path_matches_prefix(v, segments) ==
  /\ Len(segments) >= Len(v.path)
  /\ \A i \in 1..Len(v.path) : accepts(v, v.path[i], segments[i])

path_matches(v, segments) ==
  /\ Len(segments) = Len(v.path)
  /\ \A i \in 1..Len(v.path) : accepts(v, v.path[i], segments[i])

\* Faulty form: the value of a literal pair is not looked at.
query_matches_keys(v, pairs) ==
  \A i \in 1..Len(v.query) :
    LET key == v.query[i][1]  value == v.query[i][2]
    IN IF value = None \/ value[1].literal # None THEN contains(pairs, key)
       ELSE get_single(pairs, key) # None /\ accepts(v, value[1], get_single(pairs, key)[1])

query_matches(v, pairs) ==
  \A i \in 1..Len(v.query) :
    LET key == v.query[i][1]  value == v.query[i][2]
    IN IF value = None THEN contains(pairs, key)
       ELSE get_single(pairs, key) # None /\ accepts(v, value[1], get_single(pairs, key)[1])

\* The fields of a variant that matched, each parsed where it stands.
construct(v, segments, pairs) ==
  [f \in DOMAIN v.types |->
     LET inPath == {i \in 1..Len(v.path) : v.path[i] = Field(f)}
         inQuery == CHOOSE i \in 1..Len(v.query) : v.query[i][2] = Some(Field(f))
         text == IF inPath # {} THEN segments[CHOOSE i \in inPath : TRUE]
                 ELSE get_single(pairs, v.query[inQuery][1])[1]
     IN parse_route_piece(v.types[f], text)[1]]

\* The generated parse: the first variant whose block gets to its end.
parse(table, a) ==
  LET result == normalize_parse(a)
      segments == result.to.path
      pairs == IF result.to.query = None THEN <<>> ELSE result.to.query[1]
      hits == {i \in 1..Len(table) :
                 path_matches(table[i], segments) /\ query_matches(table[i], pairs)}
      first == CHOOSE i \in hits : \A j \in hits : i <= j
  IN CASE ~result.ok -> [outcome |-> "redirect", to |-> result.to]
       [] result.ok /\ hits = {} -> [outcome |-> "no match"]
       [] result.ok /\ hits # {} ->
            [outcome |-> "route", route |-> <<first, construct(table[first], segments, pairs)>>]
=============================================================================
