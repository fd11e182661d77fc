------------------------------ MODULE Filters -------------------------------
(***************************************************************************)
(* The filter of Rust's iterators.                                         *)
(***************************************************************************)
EXTENDS Naturals, Sequences, SequencesExt

\* The elements of s that are in S, in their order.
Among(s, S) == FlattenSeq([i \in 1..Len(s) |-> IF s[i] \in S THEN <<s[i]>> ELSE <<>>])
=============================================================================
