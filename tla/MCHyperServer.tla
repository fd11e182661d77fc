--------------------------- MODULE MCHyperServer ---------------------------
(***************************************************************************)
(* HyperServer on a few connections and requests.                          *)
(***************************************************************************)
EXTENDS HyperServer, TLC

CONSTANTS c1, c2, c3, q1, q2, q3, u1, u2, u3

MCSymmetry == Permutations({q1, q2, q3}) \cup Permutations({u1, u2, u3})
=============================================================================
