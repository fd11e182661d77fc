-------------------------- MODULE MCExampleServers --------------------------
(***************************************************************************)
(* ExampleServers with four visits, whose numbers wrap around after three, *)
(* and with embedded files of each kind that matters to run_tls.           *)
(***************************************************************************)
EXTENDS ExampleServers

MCAsset ==
  { <<[label |-> "CERTIFICATE", der |-> "crt"]>>, <<[label |-> "RSA PRIVATE KEY", der |-> "key"]>>,
    <<[label |-> "CERTIFICATE", der |-> Damaged]>> }
=============================================================================
