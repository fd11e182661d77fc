---------------------------- MODULE MCTlsStream -----------------------------
(***************************************************************************)
(* TlsStream with a question of two pieces and an answer of three over a   *)
(* socket of two records: the end of the handshake may arrive together     *)
(* with the first piece, and an answer fills the socket more than once.    *)
(***************************************************************************)
EXTENDS TlsStream

MCQuestion == <<"a", "b">>
MCAnswer == <<"x", "y", "z">>
=============================================================================
