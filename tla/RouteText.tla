----------------------------- MODULE RouteText -----------------------------
(***************************************************************************)
(* The text of a URL: routetype/src/raw.rs, and parse_str, parse_strs and  *)
(* render of routetype/src/lib.rs for PlainRoute.                          *)
(*                                                                         *)
(* Text is a sequence of characters.  The two hexadecimal digits of a      *)
(* percent escape are ordinary characters too, and are kept together as    *)
(* one of them: "%2F" is <<"%", "2F">>, and a text may hold the digits     *)
(* without a percent sign before them.  One character stands for every     *)
(* other one of its kind: the blank for the control characters, the blank, *)
(* '"', '#', '<', '>', which are escaped everywhere; "?" also for the back *)
(* quote and the braces, which are escaped in a path only.  The backslash  *)
(* is escaped nowhere, yet is no plain character: the URL standard of      *)
(* browsers reads it as a slash in a path, and raw.rs does not.            *)
(***************************************************************************)
EXTENDS Normalize, Strings

\* What decode_utf8_lossy puts in place of bytes that are not UTF-8.
Replacement == "U+FFFD"

Backslash == "U+005C"

\* The escape of every character that has one here.
Code ==
  [c \in {"%", " ", "=", "&", "?", "/", Backslash, Replacement} |->
     CASE c = "%" -> "25" [] c = " " -> "20" [] c = "=" -> "3D" [] c = "&" -> "26"
       [] c = "?" -> "3F" [] c = "/" -> "2F" [] c = Backslash -> "5C"
       [] c = Replacement -> "EFBFBD"]

\* A byte that starts no UTF-8 sequence.
InvalidByte == "FF"

Digits == {Code[c] : c \in DOMAIN Code} \cup {InvalidByte}

\* Faulty form: the byte is taken over unchecked, and the text is not UTF-8.
UncodeUnchecked(d) ==
  IF d = InvalidByte THEN "not a character" ELSE CHOOSE c \in DOMAIN Code : Code[c] = d

Uncode(d) ==
  IF d = InvalidByte THEN Replacement ELSE CHOOSE c \in DOMAIN Code : Code[c] = d

ASSUME CharAssumption == DOMAIN Code \cup Digits \subseteq Char
ASSUME DashIsPlain == Dash \notin DOMAIN Code \cup Digits

\* The percent-encode sets of render_path_and_query.
BASE == {"%", " ", Replacement}
\* Faulty form: a percent sign in a key or value is left as it is.
QUERY_SET_WITHOUT_PERCENT == {" ", Replacement, "=", "&"}

QUERY_SET == BASE \cup {"=", "&"}
PATH_SET == BASE \cup {"?", "/"}

-----------------------------------------------------------------------------
\* Reading

\* A percent sign escapes when digits follow it, and is left as it is otherwise.
decode(s) ==
  LET escapes(i) == i \in 1..Len(s) - 1 /\ s[i] = "%" /\ s[i + 1] \in Digits
  IN FlattenSeq([i \in 1..Len(s) |->
       IF escapes(i) THEN <<Uncode(s[i + 1])>>
       ELSE IF escapes(i - 1) THEN <<>> ELSE <<s[i]>>])

\* Exactly one leading slash is ignored, and what is then empty has no segment.
parse_path(s) ==
  LET path == strip_prefix(s, "/")
      parts == split(path, "/")
  IN IF path = <<>> THEN <<>> ELSE [i \in 1..Len(parts) |-> decode(parts[i])]

parse_query_pair(s) ==
  LET i == find(s, "=")
  IN IF i = 0 THEN <<decode(s), None>>
     ELSE <<decode(SubSeq(s, 1, i - 1)), Some(decode(SubSeq(s, i + 1, Len(s))))>>

parse_query(s) ==
  LET parts == split(s, "&")
  IN IF s = <<>> THEN <<>> ELSE [i \in 1..Len(parts) |-> parse_query_pair(parts[i])]

\* There is a query, an empty one perhaps, exactly when there is a "?".
parse_path_and_query(s) ==
  LET i == find(s, "?")
  IN IF i = 0 THEN [path |-> parse_path(s), query |-> None]
     ELSE [path  |-> parse_path(SubSeq(s, 1, i - 1)),
           query |-> Some(parse_query(SubSeq(s, i + 1, Len(s))))]

-----------------------------------------------------------------------------
\* Writing

encode(s, set) ==
  FlattenSeq([i \in 1..Len(s) |->
                IF s[i] \in set THEN <<"%", Code[s[i]]>> ELSE <<s[i]>>])

encode_pair(pair) ==
  LET value == pair[2]
  IN encode(pair[1], QUERY_SET)
       \o (IF value = None THEN <<>> ELSE <<"=">> \o encode(value[1], QUERY_SET))

render_path_and_query(a) ==
  LET path == FlattenSeq([i \in 1..Len(a.path) |-> <<"/">> \o encode(a.path[i], PATH_SET)])
      pairs(q) == FlattenSeq([i \in 1..Len(q) |->
                    (IF i = 1 THEN <<>> ELSE <<"&">>) \o encode_pair(q[i])])
  IN (IF path = <<>> THEN <<"/">> ELSE path)
       \o (IF a.query = None THEN <<>> ELSE <<"?">> \o pairs(a.query[1]))

-----------------------------------------------------------------------------
\* Routes

\* Route::parse of PlainRoute, with the redirect as the text it is.
PlainParse(a) ==
  LET result == normalize_parse(a)
  IN IF result.ok THEN [ok |-> TRUE, route |-> result.to]
     ELSE [ok |-> FALSE, dest |-> render_path_and_query(result.to)]

\* Route::render of PlainRoute.
render(r) == render_path_and_query(PlainPathAndQuery(r))

parse_str(s) == PlainParse(parse_path_and_query(s))

\* The query is parsed when it is empty, and dropped when it is not.
parse_strs(path, query) ==
  PlainParse([path |-> parse_path(path),
              query |-> IF query = <<>> THEN Some(parse_query(query)) ELSE None])

\* routetype-warp's route_filter_result: raw() rejects an address without a
\* "?", which then takes the filter that looks at the path alone.
route_filter_result(s) ==
  LET i == find(s, "?")
  IN IF i = 0 THEN parse_str(s)
     ELSE parse_strs(SubSeq(s, 1, i - 1), SubSeq(s, i + 1, Len(s)))
=============================================================================
