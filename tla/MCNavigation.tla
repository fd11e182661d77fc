---------------------------- MODULE MCNavigation ----------------------------
(***************************************************************************)
(* Navigation over two characters: the dash and one that is not, segments  *)
(* of up to two, paths of up to three of them.  That covers every way      *)
(* empty segments and dash-only segments can stand next to each other and  *)
(* to an ordinary one; longer segments only repeat these cases.            *)
(***************************************************************************)
EXTENDS Navigation

MCSegments == BoundedSeq(Char, 2)

MCQueries ==
  { None, Some(<<>>), Some(<< << <<>>, None >> >>),
    Some(<< << <<Dash>>, Some(<<>>) >> >>),
    Some(<< << <<>>, None >>, << <<>>, None >> >>) }

MCAddress ==
  {a \in [path : BoundedSeq(MCSegments, 3), query : MCQueries] : Wire(a) = a}
MCRoute == [path : BoundedSeq(MCSegments, 2), query : MCQueries]
=============================================================================
