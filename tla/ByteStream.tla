----------------------------- MODULE ByteStream -----------------------------
(***************************************************************************)
(* What one direction of a connection promises: the receiver gets what was *)
(* sent, in order, nothing twice and nothing else, and all of it at last   *)
(* unless the connection is cut.                                           *)
(***************************************************************************)
EXTENDS Naturals, Sequences

CONSTANT Data  \* the pieces that the sender sends if it sends all

VARIABLES sent,  \* how many of them it has sent
          got,   \* what the receiver has got
          cut    \* whether the connection is cut

vars == <<sent, got, cut>>

Init == sent = 0 /\ got = <<>> /\ cut = FALSE

Send ==
  /\ sent' \in sent + 1..Len(Data)
  /\ UNCHANGED <<got, cut>>

Receive ==
  /\ \E n \in Len(got) + 1..sent : got' = SubSeq(Data, 1, n)
  /\ UNCHANGED <<sent, cut>>

Cut ==
  /\ ~cut
  /\ cut' = TRUE
  /\ UNCHANGED <<sent, got>>

Next == Send \/ Receive \/ Cut

Spec == Init /\ [][Next]_vars /\ WF_vars(Receive /\ ~cut)
=============================================================================
