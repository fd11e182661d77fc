---------------------------- MODULE MCTlsServer -----------------------------
(***************************************************************************)
(* TlsServer with two files: a bundle of certificate and key that is       *)
(* renewed, and a file of trust anchors.  Each may also be in one of the   *)
(* states that build has an error for.                                     *)
(***************************************************************************)
EXTENDS TlsServer

Cert(d) == [label |-> "CERTIFICATE", der |-> d]
Pkcs8(d) == [label |-> "PRIVATE KEY", der |-> d]
Rsa(d) == [label |-> "RSA PRIVATE KEY", der |-> d]

MCDer == {"crt1", "crt2", "key1", "key2", "junk", "ca"}
MCSigning == {"key1", "key2"}
MCAnchor == {"ca", "crt1"}

MCVersion ==
  [p \in Path |->
     IF p = "bundle"
       THEN { <<Cert("crt1"), Pkcs8("key1")>>, <<Cert("crt2"), Rsa("key2")>>,
              <<Rsa("junk"), Pkcs8(Damaged)>> }
       ELSE { <<Cert("ca"), Cert("junk")>>, <<>> }]

MCLiteral == { <<>>, <<Cert("junk"), Rsa("junk")>>, <<Cert(Damaged), Rsa(Damaged)>> }
MCOcsp == {<<"response">>}
=============================================================================
