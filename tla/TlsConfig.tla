----------------------------- MODULE TlsConfig ------------------------------
(***************************************************************************)
(* What TlsConfigBuilder::build (routetype-hyper/src/tls.rs) makes of the  *)
(* bytes that it reads.  Bytes are the PEM sections that rustls' pemfile   *)
(* finds in them, each with its label and what it holds; a section that is *)
(* not base64 is Damaged.  What is read is Some of them, or None when      *)
(* reading failed.                                                         *)
(***************************************************************************)
EXTENDS Naturals, Sequences, SequencesExt

CONSTANTS Der,      \* what PEM sections hold
          Signing,  \* the private keys among it that rustls can sign with
          Anchor    \* the certificates among it that can be trust anchors

Damaged == "damaged"

ASSUME DerAssumption == Signing \subseteq Der /\ Anchor \subseteq Der /\ Damaged \notin Der

Section == [label : {"CERTIFICATE", "PRIVATE KEY", "RSA PRIVATE KEY"}, der : Der \cup {Damaged}]
Bytes == Seq(Section)

None == <<>>
Some(x) == <<x>>
Option(S) == {s \in Seq(S) : Len(s) <= 1}

Ok(x) == [ok |-> TRUE, value |-> x]
Err(e) == [ok |-> FALSE, error |-> e]

-----------------------------------------------------------------------------

\* pemfile: one damaged section with the label spoils all of them.
Broken(bytes, label) == [label |-> label, der |-> Damaged] \in ToSet(bytes)
Ders(bytes, label) ==
  FlattenSeq([i \in 1..Len(bytes) |->
               IF bytes[i].label = label THEN <<bytes[i].der>> ELSE <<>>])

certs(read) ==
  IF read = None \/ Broken(read[1], "CERTIFICATE")
    THEN Err("CertParseError")
    ELSE Ok(Ders(read[1], "CERTIFICATE"))

\* The first PKCS #8 key, or else the first RSA key.
private_key(read) ==
  LET pkcs8 == Ders(read[1], "PRIVATE KEY")
      rsa == Ders(read[1], "RSA PRIVATE KEY")
  IN IF read = None THEN Err("Io")
     ELSE IF Broken(read[1], "PRIVATE KEY") THEN Err("Pkcs8ParseError")
     ELSE IF pkcs8 # <<>> THEN Ok(pkcs8[1])
     ELSE IF Broken(read[1], "RSA PRIVATE KEY") THEN Err("RsaParseError")
     ELSE IF rsa # <<>> THEN Ok(rsa[1])
     ELSE Err("EmptyKey")

\* Faulty form: only Err is taken for a failure, and not Ok((0, _)).
read_trust_anchor_empty(read) ==
  IF certs(read).ok THEN Ok(ToSet(certs(read).value) \cap Anchor) ELSE certs(read)

\* Certificates that cannot be trust anchors are skipped, but one has to be left.
read_trust_anchor(read) ==
  LET roots == ToSet(certs(read).value) \cap Anchor
  IN IF certs(read).ok /\ roots # {} THEN Ok(roots) ELSE Err("CertParseError")

\* Faulty form: the key is not tried.
server_config_untried(mode, roots, chain, key, ocsp) ==
  Ok([client_auth |-> mode, roots |-> roots, chain |-> chain, key |-> key, ocsp |-> ocsp])

\* ServerConfig::new and set_single_cert_with_ocsp_and_sct.
server_config(mode, roots, chain, key, ocsp) ==
  IF key \in Signing
    THEN Ok([client_auth |-> mode, roots |-> roots, chain |-> chain, key |-> key, ocsp |-> ocsp])
    ELSE Err("InvalidKey")

\* The whole of build, given what it reads: the first error, or the configuration.
build(mode, reads, ocsp) ==
  LET roots == IF mode = "Off" THEN Ok({}) ELSE read_trust_anchor(reads.anchor)
      results == <<certs(reads.cert), private_key(reads.key), roots>>
      failed == {i \in 1..3 : ~results[i].ok}
  IN IF failed = {}
       THEN server_config(mode, roots.value, results[1].value, results[2].value, ocsp)
       ELSE results[CHOOSE i \in failed : \A j \in failed : i <= j]
=============================================================================
