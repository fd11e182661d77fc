-------------------------- MODULE MCDerivedServer ---------------------------
(***************************************************************************)
(* DerivedServer for every enum of one or two variants out of a list that  *)
(* has each form a declaration may take, the refused ones included, and    *)
(* for the enum of routetype/tests/deriving.rs.                            *)
(***************************************************************************)
EXTENDS DerivedServer

MCChar == ToSet(Digit) \cup {"-", "+", "/", "?", "&", "=", "{", "}", "true", "false",
                              "a", "b", "f", "h", "x", "y"}

Unit(route) == [shape |-> "unit", fields |-> <<>>, route |-> route]
Tuple(types, route) ==
  [shape |-> "positional",
   fields |-> [i \in 1..Len(types) |-> [name |-> <<>>, type |-> types[i]]],
   route |-> route]
Named(fields, route) ==
  [shape |-> "named",
   fields |-> [i \in 1..Len(fields) |-> [name |-> <<fields[i][1]>>, type |-> fields[i][2]]],
   route |-> route]

Home == Unit(<<"/">>)
Readiness == Unit(<<"/", "?", "h">>)
Poll == Tuple(<<"bool">>, <<"/", "?", "b", "=", "{", "}">>)
Refresh == Unit(<<"/", "f", "?", "f", "=", "true">>)
Foo == Named(<< <<"b", "i32">> >>, <<"f", "?", "b", "=", "{", "b", "}">>)
Hello == Named(<< <<"x", "String">> >>, <<"h", "/", "{", "x", "}">>)
Goodbye == Tuple(<<"String">>, <<"/", "b", "/", "{", "}">>)

TestRoutes == <<Home, Unit(<<"a">>), Hello, Foo, Goodbye, Readiness, Poll, Refresh>>

Declarations ==
  { Home, Readiness, Poll, Refresh, Foo, Hello,
    \* literals that are empty or that look like another variant's field
    Unit(<<"h", "/", "/">>), Unit(<<"h", "/", "-">>), Unit(<<"f", "?", "b", "=", "7">>),
    \* two fields, the query's named before the path's
    Tuple(<<"String", "i32">>, <<"{", "}", "?", "b", "=", "{", "}">>),
    Named(<< <<"y", "String">>, <<"x", "i32">> >>,
          <<"{", "x", "}", "?", "b", "=", "{", "y", "}", "&", "f">>),
    \* one key with two values
    Named(<< <<"x", "String">>, <<"y", "String">> >>,
          <<"a", "?", "b", "=", "{", "x", "}", "&", "b", "=", "{", "y", "}">>),
    \* refused: an empty query, a field without a name, one that is not used,
    \* a brace that is not closed, and one name for two fields
    Unit(<<"/", "?">>),
    Named(<< <<"x", "String">> >>, <<"{", "}">>),
    Tuple(<<"String", "String">>, <<"h", "/", "{", "}">>),
    Named(<< <<"x", "String">> >>, <<"{", "x">>),
    Named(<< <<"x", "String">>, <<"y", "String">> >>, <<"{", "x", "}", "/", "{", "x", "}">>) }

MCEnums == {<<d>> : d \in Declarations} \cup (Declarations \X Declarations)

MCTestEnums == {TestRoutes}

MCTexts ==
  {<<>>, <<"-">>, <<"a">>, <<"7">>, <<"-", "1", "3">>, <<"1", "2">>, <<"true">>, <<"false">>}

Segments == {<<>>, <<"-">>, <<"-", "-">>, <<"h">>, <<"f">>, <<"7">>, <<"0", "7">>, <<"9", "9">>}

Queries ==
  LET pair(k, v) == << <<k>>, Some(<<v>>) >>
      key(k) == << <<k>>, None >>
  IN {None, Some(<<>>)}
       \cup {Some(<<p>>) : p \in {key("h"), key("b"), pair("b", "true"), pair("b", "7"),
                                  pair("b", "+"), pair("f", "true"), pair("f", "a"),
                                  << <<"b">>, Some(<<"+", "7">>) >>,
                                  << <<"b">>, Some(<<"-", "1", "3">>) >>,
                                  << <<"b">>, Some(<<"-", "1", "4">>) >>}}
       \cup {Some(q) : q \in {pair("b", "7"), key("b"), key("f")} \X {pair("b", "a"), key("f"), pair("f", "true")}}

MCAddress ==
  {a \in [path : BoundedSeq(Segments, 2), query : {None, Some(<< << <<"b">>, Some(<<"7">>) >> >>)}]
           \cup [path : BoundedSeq({<<"f">>, <<"7">>}, 1), query : Queries] : Wire(a) = a}
=============================================================================
