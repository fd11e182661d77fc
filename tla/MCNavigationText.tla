-------------------------- MODULE MCNavigationText --------------------------
(***************************************************************************)
(* NavigationText with every text of up to UrlLen characters typed, and    *)
(* links to routes whose segments, keys and values hold each character     *)
(* that is special on the wire, next to the digits of an escape.           *)
(***************************************************************************)
EXTENDS NavigationText

MCChar == DOMAIN Code \cup Digits \cup {Dash, "a"}

UrlPaths == BoundedSeq({"/", "%", "2F", Dash, Backslash, "5C"}, 4)
UrlQueries == BoundedSeq({"?", "&", "=", "%", "26", "FF"}, 3)

MCUrl ==
  UrlPaths
    \cup {p \o <<"?">> : p \in UrlPaths}
    \cup {<<"/">> \o p \o <<"?">> \o q : p \in {<<>>, <<"/">>, <<Dash, "/">>}, q \in UrlQueries}

PathSegments ==
  BoundedSeq({"/", "%", "2F", Dash}, 2) \cup {<<c>> : c \in DOMAIN Code}
QueryTexts == {<<>>, <<"&">>, <<"=">>, <<"%", "26">>, <<Replacement>>}
QueryPairs == QueryTexts \X ({None} \cup {Some(t) : t \in QueryTexts})

MCRoute ==
  [path : BoundedSeq(PathSegments, 2), query : {None}]
    \cup [path : {<<>>, << <<"?">> >>}, query : {Some(q) : q \in BoundedSeq(QueryPairs, 1)}]
    \cup [path : {<<>>}, query : {Some(q) : q \in QueryPairs \X QueryPairs}]
=============================================================================
