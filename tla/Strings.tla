------------------------------ MODULE Strings -------------------------------
(***************************************************************************)
(* The two operations of Rust's str that URLs and route attributes are     *)
(* taken apart with, on text as a sequence of characters.                  *)
(***************************************************************************)
EXTENDS Naturals, Sequences, SequencesExt

\* The first position of c, or 0.
find(s, c) == SelectInSeq(s, LAMBDA x : x = c)

\* A part begins at the start and after every c, and ends before the next one.
split(s, c) ==
  LET end(i) == CHOOSE e \in i..Len(s) + 1 :
                  /\ e = Len(s) + 1 \/ s[e] = c
                  /\ \A k \in i..e - 1 : s[k] # c
  IN FlattenSeq([i \in 1..Len(s) + 1 |->
       IF i = 1 \/ s[i - 1] = c THEN <<SubSeq(s, i, end(i) - 1)>> ELSE <<>>])

\* One leading c is taken away, if there is one.
strip_prefix(s, c) == IF s # <<>> /\ s[1] = c THEN Tail(s) ELSE s
=============================================================================
