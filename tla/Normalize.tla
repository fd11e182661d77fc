----------------------------- MODULE Normalize -----------------------------
(***************************************************************************)
(* Decoded URLs and their normalization: routetype/src/normalize.rs, and   *)
(* the part of routetype/src/lib.rs (PlainRoute) that is written in terms  *)
(* of it.  A path segment is a sequence of characters, a path a sequence   *)
(* of segments; nothing here knows how a path looks on the wire            *)
(* (RouteText does).                                                       *)
(*                                                                         *)
(* An Option<T> is a sequence of at most one T: None, or Some(x).          *)
(***************************************************************************)
EXTENDS Naturals, Sequences, SequencesExt

CONSTANTS Char,  \* the characters of decoded text
          Dash   \* the one that normalization uses, '-'

ASSUME DashAssumption == Dash \in Char

None == <<>>
Some(x) == <<x>>
Option(S) == {o \in Seq(S) : Len(o) <= 1}

Segment == Seq(Char)
QueryPair == Segment \X Option(Segment)

\* What parse_path_and_query returns, and the fields of a PlainRoute.
PathAndQuery == [path : Seq(Segment), query : Option(Seq(QueryPair))]

HasEmptySegment(path) == \E i \in 1..Len(path) : path[i] = <<>>

\* Two faulty forms: one that removes a trailing slash only, and one that
\* removes nothing.
DropTrailing(path) ==
  IF path # <<>> /\ path[Len(path)] = <<>> THEN Front(path) ELSE path
DropNothing(path) == path

DropEmpty(path) ==
  FlattenSeq([i \in 1..Len(path) |-> IF path[i] = <<>> THEN <<>> ELSE <<path[i]>>])

OnlyDashes(seg) == \A i \in 1..Len(seg) : seg[i] = Dash

drop_one(seg) == SubSeq(seg, 1, Len(seg) - 1)

Undash(path) ==
  [i \in 1..Len(path) |-> IF OnlyDashes(path[i]) THEN drop_one(path[i]) ELSE path[i]]

\* Faulty form: the redirect forgets the query.
normalize_parse_without_query(a) ==
  IF HasEmptySegment(a.path)
    THEN [ok |-> FALSE, to |-> [path |-> DropEmpty(a.path), query |-> None]]
    ELSE [ok |-> TRUE,  to |-> [path |-> Undash(a.path),    query |-> a.query]]

(***************************************************************************)
(* Normalization::normalize_parse.  A path with an empty segment is not    *)
(* served: the caller is told to redirect to the same path without its     *)
(* empty segments and with the query untouched.  Otherwise every segment   *)
(* that consists of dashes loses one.                                      *)
(***************************************************************************)
normalize_parse(a) ==
  IF HasEmptySegment(a.path)
    THEN [ok |-> FALSE, to |-> [path |-> DropEmpty(a.path), query |-> a.query]]
    ELSE [ok |-> TRUE,  to |-> [path |-> Undash(a.path),    query |-> a.query]]

\* Faulty form: only the empty segment is marked, so "-" reads as empty.
mark_empty_only(path) ==
  [i \in 1..Len(path) |-> IF path[i] = <<>> THEN <<Dash>> ELSE path[i]]

(***************************************************************************)
(* Normalization::normalize_render_path: a segment that consists of        *)
(* dashes, the empty one among them, gets one more.                        *)
(***************************************************************************)
normalize_render_path(path) ==
  [i \in 1..Len(path) |->
     IF OnlyDashes(path[i]) THEN Append(path[i], Dash) ELSE path[i]]

\* PlainRoute::path and PlainRoute::query, what Route::render hands to raw.
PlainPathAndQuery(r) == [path |-> normalize_render_path(r.path), query |-> r.query]

(***************************************************************************)
(* What is left of a path and a query once render_path_and_query has       *)
(* written them and parse_path_and_query has read them back: a path of one *)
(* empty segment is "/", which reads as no segment at all, and a query of  *)
(* one pair with an empty key and no value is "?", which reads as no pair. *)
(***************************************************************************)
WirePath(path) == IF path = << <<>> >> THEN <<>> ELSE path

WireQuery(query) ==
  IF query = Some(<< << <<>>, None >> >>) THEN Some(<<>>) ELSE query

Wire(a) == [path |-> WirePath(a.path), query |-> WireQuery(a.query)]
=============================================================================
