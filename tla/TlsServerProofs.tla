--------------------------- MODULE TlsServerProofs ---------------------------
(***************************************************************************)
(* Proofs about TlsServer, for any files, any contents of them, and any    *)
(* sources that the setters are given.                                     *)
(***************************************************************************)
EXTENDS TlsServer, SequenceFacts

(***************************************************************************)
(* What the parsers of TlsConfig return.                                   *)
(***************************************************************************)

\* An Option is None or Some of its values.
LEMMA OptionCases ==
  ASSUME NEW S, NEW s \in Option(S)
  PROVE  s = None \/ (s[1] \in S /\ s = Some(s[1]))
<1>1. s \in Seq(S) /\ Len(s) \in Nat /\ Len(s) <= 1
  BY LenProperties DEF Option
<1>2. CASE Len(s) = 0
  BY <1>1, <1>2, EmptySeq DEF None
<1>3. CASE Len(s) = 1
  BY <1>1, <1>3, ElementOfSeq DEF Some
<1> QED BY <1>1, <1>2, <1>3

\* None and Some are Options, and differ.
LEMMA OptionIntro ==
  ASSUME NEW S
  PROVE  /\ None \in Option(S)
         /\ \A x \in S : Some(x) \in Option(S)
         /\ \A x : Some(x) # None /\ Some(x)[1] = x
<1>1. <<>> \in Seq(S) /\ Len(<<>>) = 0
  OBVIOUS
<1>2. \A x \in S : <<x>> \in Seq(S) /\ Len(<<x>>) = 1
  OBVIOUS
<1> QED BY <1>1, <1>2 DEF Option, None, Some

Labels == {"CERTIFICATE", "PRIVATE KEY", "RSA PRIVATE KEY"}
Held(bytes, label) == {d \in Der : [label |-> label, der |-> d] \in ToSet(bytes)}

\* What pemfile finds under a label was in a section with that label.
LEMMA DersAreHeld ==
  ASSUME NEW bytes \in Bytes, NEW label \in Labels, ~ Broken(bytes, label)
  PROVE  Ders(bytes, label) \in Seq(Held(bytes, label))
<1> DEFINE q == [i \in 1..Len(bytes) |->
                  IF bytes[i].label = label THEN <<bytes[i].der>> ELSE <<>>]
<1>1. Len(bytes) \in Nat /\ DOMAIN bytes = 1..Len(bytes) /\ \A i \in 1..Len(bytes) : bytes[i] \in Section
  BY LenProperties, ElementOfSeq DEF Bytes
<1>2. ASSUME NEW i \in 1..Len(bytes), bytes[i].label = label
      PROVE  bytes[i].der \in Held(bytes, label)
  <2>1. bytes[i] = [label |-> label, der |-> bytes[i].der] /\ bytes[i].der \in Der \cup {Damaged}
    BY <1>1, <1>2 DEF Section
  <2>2. bytes[i] \in ToSet(bytes)
    BY <1>1 DEF ToSet
  <2>3. bytes[i].der # Damaged
    BY <2>1, <2>2 DEF Broken
  <2> QED BY <2>1, <2>2, <2>3 DEF Held
<1>3. \A i \in 1..Len(bytes) : q[i] \in Seq(Held(bytes, label))
  <2> TAKE i \in 1..Len(bytes)
  <2>1. CASE bytes[i].label = label
    BY <1>2, <2>1
  <2>2. CASE bytes[i].label # label
    BY <2>2
  <2> QED BY <2>1, <2>2
<1>4. q \in Seq(Seq(Held(bytes, label)))
  <2>1. q \in [1..Len(bytes) -> Seq(Held(bytes, label))]
    <3>1. q = [i \in 1..Len(bytes) |-> q[i]]
      OBVIOUS
    <3> HIDE DEF q
    <3> QED BY <1>3, <3>1
  <2> HIDE DEF q
  <2> QED BY <1>1, <2>1, SeqDef
<1> HIDE DEF q
<1>5. FlattenSeq(q) \in Seq(Held(bytes, label))
  BY <1>4, FlattenSeqType
<1> QED BY <1>5 DEF Ders, q

\* certs returns certificates that were read, or its one error.
LEMMA CertsResult ==
  ASSUME NEW read \in Option(Bytes)
  PROVE  \/ /\ read # None
            /\ certs(read).value \in Seq(Held(read[1], "CERTIFICATE"))
            /\ certs(read) = Ok(certs(read).value)
         \/ certs(read) = Err("CertParseError")
<1>1. CASE read = None \/ Broken(read[1], "CERTIFICATE")
  BY <1>1 DEF certs
<1>2. CASE ~ (read = None \/ Broken(read[1], "CERTIFICATE"))
  <2>1. read[1] \in Bytes
    BY <1>2, OptionCases
  <2>2. Ders(read[1], "CERTIFICATE") \in Seq(Held(read[1], "CERTIFICATE"))
    BY <1>2, <2>1, DersAreHeld DEF Labels
  <2>3. certs(read) = Ok(Ders(read[1], "CERTIFICATE"))
    BY <1>2 DEF certs
  <2> QED BY <1>2, <2>2, <2>3 DEF Ok
<1> QED BY <1>1, <1>2

\* private_key returns a key that was read, or one of its four errors.
LEMMA KeyResult ==
  ASSUME NEW read \in Option(Bytes)
  PROVE  \/ /\ private_key(read).value \in Der
            /\ private_key(read) = Ok(private_key(read).value)
         \/ \E e \in Error : private_key(read) = Err(e)
<1> DEFINE pkcs8 == Ders(read[1], "PRIVATE KEY")
           rsa == Ders(read[1], "RSA PRIVATE KEY")
<1>1. ASSUME NEW label \in Labels, read # None, ~ Broken(read[1], label),
             Ders(read[1], label) # <<>>
      PROVE  Ders(read[1], label)[1] \in Der
  <2>1. read[1] \in Bytes
    BY <1>1, OptionCases
  <2>2. Ders(read[1], label) \in Seq(Held(read[1], label))
    BY <1>1, <2>1, DersAreHeld
  <2>3. Ders(read[1], label)[1] \in Held(read[1], label)
    BY <1>1, <2>2, EmptySeq, LenProperties, ElementOfSeq
  <2> QED BY <2>3 DEF Held
<1>2. pkcs8 # <<>> /\ read # None /\ ~ Broken(read[1], "PRIVATE KEY") => pkcs8[1] \in Der
  BY <1>1 DEF Labels
<1>3. rsa # <<>> /\ read # None /\ ~ Broken(read[1], "RSA PRIVATE KEY") => rsa[1] \in Der
  BY <1>1 DEF Labels
<1>4. private_key(read) =
        IF read = None THEN Err("Io")
        ELSE IF Broken(read[1], "PRIVATE KEY") THEN Err("Pkcs8ParseError")
        ELSE IF pkcs8 # <<>> THEN Ok(pkcs8[1])
        ELSE IF Broken(read[1], "RSA PRIVATE KEY") THEN Err("RsaParseError")
        ELSE IF rsa # <<>> THEN Ok(rsa[1])
        ELSE Err("EmptyKey")
  BY DEF private_key
<1> HIDE DEF pkcs8, rsa
<1>5. \/ \E k \in Der : private_key(read) = Ok(k)
      \/ \E e \in Error : private_key(read) = Err(e)
  <2>1. {"Io", "Pkcs8ParseError", "RsaParseError", "EmptyKey"} \subseteq Error
    BY DEF Error
  <2> QED BY <1>2, <1>3, <1>4, <2>1
<1>6. \A k : Ok(k).value = k
  BY DEF Ok
<1> QED BY <1>5, <1>6

\* read_trust_anchor returns at least one anchor, each of which was read, or its
\* one error.
LEMMA AnchorResult ==
  ASSUME NEW read \in Option(Bytes)
  PROVE  \/ /\ read # None
            /\ read_trust_anchor(read).value \subseteq Anchor \cap Held(read[1], "CERTIFICATE")
            /\ read_trust_anchor(read).value # {}
            /\ read_trust_anchor(read) = Ok(read_trust_anchor(read).value)
         \/ read_trust_anchor(read) = Err("CertParseError")
<1> DEFINE roots == ToSet(certs(read).value) \cap Anchor
<1>1. CASE certs(read).ok /\ roots # {}
  <2>1. read_trust_anchor(read) = Ok(roots)
    BY <1>1 DEF read_trust_anchor
  <2>2. /\ read # None
        /\ certs(read).value \in Seq(Held(read[1], "CERTIFICATE"))
    BY <1>1, CertsResult DEF Err
  <2>3. ToSet(certs(read).value) \subseteq Held(read[1], "CERTIFICATE")
    BY <2>2, LenProperties, ElementOfSeq DEF ToSet
  <2> HIDE DEF roots
  <2>4. read_trust_anchor(read).value = roots
    BY <2>1 DEF Ok
  <2> QED BY <1>1, <2>1, <2>2, <2>3, <2>4 DEF roots
<1>2. CASE ~ (certs(read).ok /\ roots # {})
  BY <1>2 DEF read_trust_anchor
<1> QED BY <1>1, <1>2

(***************************************************************************)
(* What build returns is what its first failing part does.                 *)
(***************************************************************************)

Roots(mode, read) == IF mode = "Off" THEN Ok({}) ELSE read_trust_anchor(read)

\* The error of the first part that fails, in the order of the code.
LEMMA BuildFails ==
  ASSUME NEW mode, NEW reads, NEW ocsp
  PROVE  /\ ~ certs(reads.cert).ok => build(mode, reads, ocsp) = certs(reads.cert)
         /\ certs(reads.cert).ok /\ ~ private_key(reads.key).ok
              => build(mode, reads, ocsp) = private_key(reads.key)
         /\ certs(reads.cert).ok /\ private_key(reads.key).ok /\ ~ Roots(mode, reads.anchor).ok
              => build(mode, reads, ocsp) = Roots(mode, reads.anchor)
<1> DEFINE results == <<certs(reads.cert), private_key(reads.key), Roots(mode, reads.anchor)>>
           failed == {i \in 1..3 : ~ results[i].ok}
           first == CHOOSE i \in failed : \A j \in failed : i <= j
<1>1. build(mode, reads, ocsp) =
        IF failed = {}
          THEN server_config(mode, Roots(mode, reads.anchor).value, results[1].value,
                             results[2].value, ocsp)
          ELSE results[first]
  BY DEF build, Roots
<1>2. /\ results[1] = certs(reads.cert)
      /\ results[2] = private_key(reads.key)
      /\ results[3] = Roots(mode, reads.anchor)
  OBVIOUS
<1> HIDE DEF results
<1>3. ASSUME NEW k \in 1..3, k \in failed, \A j \in 1..3 : j < k => j \notin failed
      PROVE  build(mode, reads, ocsp) = results[k]
  <2>1. \A j \in failed : k <= j
    BY <1>3
  <2>2. failed \subseteq 1..3
    OBVIOUS
  <2> HIDE DEF failed
  <2>3. first \in failed /\ \A j \in failed : first <= j
    BY <1>3, <2>1
  <2>4. first = k
    <3> HIDE DEF first
    <3> QED BY <1>3, <2>1, <2>2, <2>3
  <2> HIDE DEF first
  <2> QED BY <1>1, <1>3, <2>4
<1>4. \A k \in 1..3 : k \in failed <=> ~ results[k].ok
  OBVIOUS
<1> HIDE DEF failed
<1>5. 1 \in 1..3 /\ 2 \in 1..3 /\ 3 \in 1..3
  OBVIOUS
<1>6. /\ \A j \in 1..3 : ~ (j < 1)
      /\ \A j \in 1..3 : j < 2 => j = 1
      /\ \A j \in 1..3 : j < 3 => j = 1 \/ j = 2
  OBVIOUS
<1>7. ~ certs(reads.cert).ok => build(mode, reads, ocsp) = certs(reads.cert)
  BY <1>2, <1>3, <1>4, <1>5, <1>6
<1>8. certs(reads.cert).ok /\ ~ private_key(reads.key).ok
        => build(mode, reads, ocsp) = private_key(reads.key)
  BY <1>2, <1>3, <1>4, <1>5, <1>6
<1>9. certs(reads.cert).ok /\ private_key(reads.key).ok /\ ~ Roots(mode, reads.anchor).ok
        => build(mode, reads, ocsp) = Roots(mode, reads.anchor)
  BY <1>2, <1>3, <1>4, <1>5, <1>6
<1> QED BY <1>7, <1>8, <1>9

\* Without a failing part, what rustls says of them together.
LEMMA BuildSucceeds ==
  ASSUME NEW mode, NEW reads, NEW ocsp,
         certs(reads.cert).ok, private_key(reads.key).ok, Roots(mode, reads.anchor).ok
  PROVE  build(mode, reads, ocsp) =
           server_config(mode, Roots(mode, reads.anchor).value, certs(reads.cert).value,
                         private_key(reads.key).value, ocsp)
<1> DEFINE results == <<certs(reads.cert), private_key(reads.key), Roots(mode, reads.anchor)>>
<1>1. \A i \in 1..3 : results[i].ok
  OBVIOUS
<1>2. /\ results[1] = certs(reads.cert)
      /\ results[2] = private_key(reads.key)
      /\ results[3] = Roots(mode, reads.anchor)
  OBVIOUS
<1>3. build(mode, reads, ocsp) =
        IF {i \in 1..3 : ~ results[i].ok} = {}
          THEN server_config(mode, Roots(mode, reads.anchor).value, results[1].value,
                             results[2].value, ocsp)
          ELSE results[CHOOSE i \in {k \in 1..3 : ~ results[k].ok} :
                         \A j \in {k \in 1..3 : ~ results[k].ok} : i <= j]
  BY DEF build, Roots
<1> HIDE DEF results
<1>4. {i \in 1..3 : ~ results[i].ok} = {}
  BY <1>1
<1> QED BY <1>2, <1>3, <1>4

(***************************************************************************)
(* The invariant                                                           *)
(***************************************************************************)

AfterAnchor == {"config", "bind", "listening", "no port"}
AfterKey == AfterAnchor \cup {"anchor"}
AfterCert == AfterKey \cup {"key"}
BeforeEnd == Part \cup {"builder", "config"}

\* An open file is read on from where it was left.
ReadSoFar ==
  /\ reader # None => pc \in Part /\ opened[pc] = Some(buffer \o reader[1])
  /\ reader = None => buffer = <<>>

\* A part is opened after the parts before it have been parsed.
OpenedInOrder ==
  /\ pc \in {"builder", "cert", "key"} => opened.anchor = None
  /\ pc \in {"builder", "cert"} => opened.key = None
  /\ pc = "builder" => opened.cert = None
  /\ pc \in Part /\ reader = None => opened[pc] = None

\* What has been parsed is what its part held when it was opened.
ParsedIsOfOpened ==
  /\ pc \in AfterCert => certs(opened.cert) = Ok(parsed.cert)
  /\ pc \in AfterKey => parsed.key # None /\ private_key(opened.key) = Ok(parsed.key[1])
  /\ pc \in AfterAnchor => Roots(builder.client_auth, opened.anchor) = Ok(parsed.anchor)
  /\ pc = "anchor" => builder.client_auth # "Off"
  /\ pc \in Part \cup {"builder"} => parsed.anchor = {}

\* There is a result when build has come to its end, and a configuration if it
\* is to be served.
ResultAtTheEnd ==
  /\ result = None <=> pc \in BeforeEnd
  /\ pc \in AfterAnchor \ {"config"} =>
       result[1] = server_config(builder.client_auth, parsed.anchor, parsed.cert,
                                 parsed.key[1], builder.ocsp)
  /\ pc \in AfterAnchor \ {"config"} => parsed.key[1] \in Signing

IInv ==
  /\ TypeOK
  /\ ReadSoFar
  /\ OpenedInOrder
  /\ ParsedIsOfOpened
  /\ ResultAtTheEnd
  /\ BuildIsOfWhatWasOpened

\* A file holds bytes, or does not exist.
LEMMA MayHoldOption == \A p \in Path : MayHold(p) \subseteq Option(Bytes)
<1> TAKE p \in Path
<1>1. \A b \in Version[p] : b \in Bytes
  BY VersionAssumption
<1> QED BY <1>1, OptionIntro DEF MayHold

\* Before run_tls nothing has been opened.
LEMMA InitIInv == Init => IInv
<1> SUFFICES ASSUME Init PROVE IInv
  OBVIOUS
<1> USE DEF Init
<1>1. TypeOK
  <2>1. disk \in [Path -> Option(Bytes)]
    BY MayHoldOption
  <2>2. Cursor(<<>>) \in Source
    BY LiteralAssumption DEF Source
  <2>3. builder \in [cert : Source, key : Source, client_auth : Mode, anchor : Source,
                     ocsp : Ocsp \cup {<<>>}]
    <3>1. "Off" \in Mode /\ <<>> \in Ocsp \cup {<<>>}
      BY DEF Mode
    <3>2. builder = [cert |-> Cursor(<<>>), key |-> Cursor(<<>>), client_auth |-> "Off",
                     anchor |-> Cursor(<<>>), ocsp |-> <<>>]
      OBVIOUS
    <3> HIDE DEF Init
    <3> QED BY <2>2, <3>1, <3>2, Zenon
  <2>4. reader \in Option(Bytes) /\ None \in Option(Der) /\ opened \in [Part -> Option(Bytes)]
    BY OptionIntro
  <2>5. buffer \in Bytes /\ <<>> \in Seq(Der)
    BY DEF Bytes
  <2>6. parsed \in [cert : Seq(Der), key : Option(Der), anchor : SUBSET Anchor]
    BY <2>4, <2>5
  <2> QED BY <2>1, <2>3, <2>4, <2>5, <2>6 DEF TypeOK
<1>2. ReadSoFar /\ OpenedInOrder
  BY DEF ReadSoFar, OpenedInOrder, Part
<1>3. ParsedIsOfOpened /\ ResultAtTheEnd
  BY DEF ParsedIsOfOpened, ResultAtTheEnd, AfterCert, AfterKey, AfterAnchor, BeforeEnd
<1>4. BuildIsOfWhatWasOpened
  BY DEF BuildIsOfWhatWasOpened
<1> QED BY <1>1, <1>2, <1>3, <1>4 DEF IInv

\* Another program's step is no step of build.
LEMMA ReplaceIInv == ASSUME IInv, NEW p \in Path, Replace(p) PROVE IInv'
<1> USE DEF IInv, Replace, build_vars
<1>1. TypeOK'
  <2>0. disk \in [Path -> Option(Bytes)]
    BY Zenon DEF TypeOK
  <2>1. disk' \in [Path -> Option(Bytes)]
    BY <2>0, MayHoldOption
  <2> QED BY <2>1, Zenon DEF TypeOK
<1>2. (ReadSoFar /\ OpenedInOrder)'
  BY DEF ReadSoFar, OpenedInOrder
<1>3. (ParsedIsOfOpened /\ ResultAtTheEnd)'
  BY DEF ParsedIsOfOpened, ResultAtTheEnd, Roots
<1>4. BuildIsOfWhatWasOpened'
  BY DEF BuildIsOfWhatWasOpened
<1> QED BY <1>1, <1>2, <1>3, <1>4

\* A setter comes before run_tls, when nothing is known of any part.
LEMMA SetIInv ==
  ASSUME IInv, NEW b, Set(b),
         b \in [cert : Source, key : Source, client_auth : Mode, anchor : Source,
                ocsp : Ocsp \cup {<<>>}]
  PROVE  IInv'
<1> USE DEF IInv, Set, build_vars
<1>1. TypeOK'
  BY Zenon DEF TypeOK
<1>2. (ReadSoFar /\ OpenedInOrder)'
  BY DEF ReadSoFar, OpenedInOrder
<1>3. (ParsedIsOfOpened /\ ResultAtTheEnd)'
  BY DEF ParsedIsOfOpened, ResultAtTheEnd, AfterCert, AfterKey, AfterAnchor, BeforeEnd
<1>4. BuildIsOfWhatWasOpened'
  BY DEF BuildIsOfWhatWasOpened, ResultAtTheEnd, BeforeEnd
<1> QED BY <1>1, <1>2, <1>3, <1>4

\* run_tls starts with the certificates.
LEMMA RunTlsIInv == ASSUME IInv, RunTls PROVE IInv'
<1> USE DEF IInv, RunTls
<1>1. TypeOK'
  BY Zenon DEF TypeOK, Part
<1>2. (ReadSoFar /\ OpenedInOrder)'
  BY DEF ReadSoFar, OpenedInOrder, Part
<1>3. (ParsedIsOfOpened /\ ResultAtTheEnd)'
  BY DEF ParsedIsOfOpened, ResultAtTheEnd, AfterCert, AfterKey, AfterAnchor, BeforeEnd, Part
<1>4. BuildIsOfWhatWasOpened'
  BY DEF BuildIsOfWhatWasOpened
<1> QED BY <1>1, <1>2, <1>3, <1>4

\* What a failed result is.
LEMMA ErrType == \A e \in Error : Err(e) \in [ok : {FALSE}, error : Error] /\ ~ Err(e).ok
BY DEF Err

\* Opening a part, or reading on from where it was left.
LEMMA ReadIInv ==
  ASSUME IInv, pc \in Part,
         UNCHANGED <<disk, builder, pc, parsed, result>>,
         NEW b \in Bytes, NEW rest \in Bytes, reader' = Some(rest), buffer' = b,
         opened' = [opened EXCEPT ![pc] = Some(b \o rest)]
  PROVE  IInv'
<1> USE DEF IInv
<1>0. opened \in [Part -> Option(Bytes)]
  BY DEF TypeOK
<1>1. b \o rest \in Bytes
  BY ConcatProperties DEF Bytes
<1>2. TypeOK'
  <2>1. reader' \in Option(Bytes) /\ opened' \in [Part -> Option(Bytes)]
    BY <1>0, <1>1, OptionIntro
  <2> QED BY <2>1, Zenon DEF TypeOK
<1>3. (ReadSoFar /\ OpenedInOrder)'
  <2>1. reader' # None /\ reader'[1] = rest
    BY OptionIntro
  <2>2. \A part \in Part : opened'[part] = IF part = pc THEN Some(b \o rest) ELSE opened[part]
    BY <1>0
  <2> QED BY <2>1, <2>2 DEF ReadSoFar, OpenedInOrder, Part
<1>4. \A part \in Part : part # pc => opened'[part] = opened[part]
  BY <1>0
<1>5. (ParsedIsOfOpened /\ ResultAtTheEnd)'
  BY <1>4 DEF ParsedIsOfOpened, ResultAtTheEnd, AfterCert, AfterKey, AfterAnchor, BeforeEnd, Part
<1>6. BuildIsOfWhatWasOpened'
  BY DEF BuildIsOfWhatWasOpened, ResultAtTheEnd, BeforeEnd
<1> QED BY <1>2, <1>3, <1>5, <1>6

\* The parser of a part.
Parser(part, read) ==
  CASE part = "cert"   -> certs(read)
    [] part = "key"    -> private_key(read)
    [] part = "anchor" -> read_trust_anchor(read)

\* The parsers return a value of the part or one of the errors.
LEMMA ParserResult ==
  ASSUME NEW part \in Part, NEW read \in Option(Bytes)
  PROVE  LET r == Parser(part, read)
         IN  \/ /\ r = Ok(r.value)
                /\ part = "cert" => r.value \in Seq(Der)
                /\ part = "key" => r.value \in Der
                /\ part = "anchor" => r.value \in SUBSET Anchor
             \/ r = Err(r.error) /\ r.error \in Error
<1>1. \A e : Err(e).error = e
  BY DEF Err
<1>2. \A label : Held(read[1], label) \subseteq Der
  BY DEF Held
<1>3. CASE part = "cert"
  <2>1. Parser(part, read) = certs(read)
    BY <1>3 DEF Parser
  <2>2. "CertParseError" \in Error
    BY DEF Error
  <2>3. \A s \in Seq(Held(read[1], "CERTIFICATE")) : s \in Seq(Der)
    <3> TAKE s \in Seq(Held(read[1], "CERTIFICATE"))
    <3>1. Len(s) \in Nat /\ \A i \in 1..Len(s) : s[i] \in Der
      BY <1>2, LenProperties, ElementOfSeq
    <3>2. s = [i \in 1..Len(s) |-> s[i]]
      BY LenProperties
    <3>3. s \in [1..Len(s) -> Der]
      BY <3>1, <3>2
    <3> QED BY <3>1, <3>3, SeqDef
  <2> QED BY <1>1, <1>3, <2>1, <2>2, <2>3, CertsResult
<1>4. CASE part = "key"
  <2>1. Parser(part, read) = private_key(read)
    BY <1>4 DEF Parser
  <2> QED BY <1>1, <1>4, <2>1, KeyResult
<1>5. CASE part = "anchor"
  <2>1. Parser(part, read) = read_trust_anchor(read)
    BY <1>5 DEF Parser
  <2>2. "CertParseError" \in Error
    BY DEF Error
  <2> QED BY <1>1, <1>5, <2>1, <2>2, AnchorResult
<1> QED BY <1>3, <1>4, <1>5 DEF Part

\* A part that has been read, or could not be, and is now parsed.
LEMMA ParseIInv ==
  ASSUME IInv, pc \in Part, NEW read \in Option(Bytes), Parse(read),
         opened' = [opened EXCEPT ![pc] = read]
  PROVE  IInv'
<1> DEFINE r == Parser(pc, read)
<1> USE DEF IInv
<1>0. /\ opened \in [Part -> Option(Bytes)]
      /\ opened'[pc] = read
      /\ \A part \in Part : part # pc => opened'[part] = opened[part]
  <2>1. opened \in [Part -> Option(Bytes)]
    BY Zenon DEF TypeOK
  <2> QED BY <2>1
<1>1. /\ UNCHANGED <<disk, builder>> /\ reader' = None /\ buffer' = <<>>
      /\ \/ ~ r.ok /\ Fail(r.error)
         \/ /\ r.ok
            /\ parsed' = [parsed EXCEPT ![pc] = IF pc = "key" THEN Some(r.value) ELSE r.value]
            /\ pc' = CASE pc = "cert" -> "key"
                       [] pc = "key" -> IF builder.client_auth = "Off" THEN "config" ELSE "anchor"
                       [] pc = "anchor" -> "config"
            /\ UNCHANGED result
  BY DEF Parse, Parser
<1>2. \/ /\ r = Ok(r.value)
         /\ pc = "cert" => r.value \in Seq(Der)
         /\ pc = "key" => r.value \in Der
         /\ pc = "anchor" => r.value \in SUBSET Anchor
      \/ r = Err(r.error) /\ r.error \in Error
  BY ParserResult
<1>3. /\ pc = "cert" => r = certs(read)
      /\ pc = "key" => r = private_key(read)
      /\ pc = "anchor" => r = Roots(builder.client_auth, read)
  BY DEF Parser, Roots, ParsedIsOfOpened
<1>4. (\A x : Ok(x).ok /\ Ok(x).value = x) /\ (\A e : ~ Err(e).ok)
  BY DEF Ok, Err
<1> HIDE DEF r
<1>5. reader' \in Option(Bytes) /\ buffer' \in Bytes /\ opened' \in [Part -> Option(Bytes)]
  BY <1>0, <1>1, OptionIntro DEF Bytes
<1>6. parsed \in [cert : Seq(Der), key : Option(Der), anchor : SUBSET Anchor]
  BY Zenon DEF TypeOK
<1>7. CASE ~ r.ok
  <2>1. /\ pc' = "failed" /\ result' = Some(Err(r.error)) /\ UNCHANGED parsed
        /\ r = Err(r.error) /\ r.error \in Error
    BY <1>1, <1>2, <1>4, <1>7 DEF Fail
  <2>2. result'[1] = r /\ result' # None
    BY <2>1, OptionIntro
  <2>3. TypeOK'
    <3>1. result'[1] \in [ok : {FALSE}, error : Error] /\ ~ result'[1].ok
      BY <2>1, <2>2, ErrType
    <3>2. /\ disk' \in [Path -> Option(Bytes)]
          /\ builder' \in [cert : Source, key : Source, client_auth : Mode, anchor : Source,
                           ocsp : Ocsp \cup {<<>>}]
      BY <1>1, Zenon DEF TypeOK
    <3>3. /\ pc' \in {"failed"}
          /\ parsed' \in [cert : Seq(Der), key : Option(Der), anchor : SUBSET Anchor]
      BY <1>6, <2>1
    <3> QED BY <1>5, <3>1, <3>2, <3>3, Zenon DEF TypeOK
  <2>4. (ReadSoFar /\ OpenedInOrder)'
    BY <1>1, <2>1 DEF ReadSoFar, OpenedInOrder, Part
  <2>5. (ParsedIsOfOpened /\ ResultAtTheEnd)'
    BY <1>1, <2>1, <2>2
       DEF ParsedIsOfOpened, ResultAtTheEnd, AfterCert, AfterKey, AfterAnchor, BeforeEnd, Part
  <2>6. BuildIsOfWhatWasOpened'
    <3>1. r = build(builder.client_auth, opened', builder.ocsp)
      <4>1. CASE pc = "cert"
        <5>1. ~ certs(opened'.cert).ok /\ r = certs(opened'.cert)
          BY <1>0, <1>3, <1>7, <4>1
        <5> QED BY <5>1, BuildFails
      <4>2. CASE pc = "key"
        <5>1. opened'.cert = opened.cert /\ opened'.key = read
          BY <1>0, <4>2 DEF Part
        <5>2. certs(opened'.cert).ok /\ ~ private_key(opened'.key).ok /\ r = private_key(opened'.key)
          BY <1>3, <1>4, <1>7, <4>2, <5>1 DEF ParsedIsOfOpened, AfterCert
        <5> QED BY <5>2, BuildFails
      <4>3. CASE pc = "anchor"
        <5>1. opened'.cert = opened.cert /\ opened'.key = opened.key /\ opened'.anchor = read
          BY <1>0, <4>3 DEF Part
        <5>2. /\ certs(opened'.cert).ok /\ private_key(opened'.key).ok
              /\ ~ Roots(builder.client_auth, opened'.anchor).ok
              /\ r = Roots(builder.client_auth, opened'.anchor)
          BY <1>3, <1>4, <1>7, <4>3, <5>1 DEF ParsedIsOfOpened, AfterCert, AfterKey
        <5> QED BY <5>2, BuildFails
      <4> QED BY <4>1, <4>2, <4>3 DEF Part
    <3> QED BY <1>1, <2>2, <3>1 DEF BuildIsOfWhatWasOpened
  <2> QED BY <2>3, <2>4, <2>5, <2>6
<1>8. CASE r.ok
  <2>1. /\ parsed' = [parsed EXCEPT ![pc] = IF pc = "key" THEN Some(r.value) ELSE r.value]
        /\ UNCHANGED result /\ r = Ok(r.value)
    BY <1>1, <1>2, <1>4, <1>8
  <2>2. pc' = CASE pc = "cert" -> "key"
                [] pc = "key" -> IF builder.client_auth = "Off" THEN "config" ELSE "anchor"
                [] pc = "anchor" -> "config"
    BY <1>1, <1>8
  <2>3. TypeOK'
    <3>1. parsed' \in [cert : Seq(Der), key : Option(Der), anchor : SUBSET Anchor]
      <4>1. CASE pc = "cert"
        <5>1. r.value \in Seq(Der)
          BY <1>2, <1>4, <1>8, <4>1
        <5> QED BY <1>6, <2>1, <4>1, <5>1
      <4>2. CASE pc = "key"
        <5>1. Some(r.value) \in Option(Der)
          BY <1>2, <1>4, <1>8, <4>2, OptionIntro
        <5> QED BY <1>6, <2>1, <4>2, <5>1
      <4>3. CASE pc = "anchor"
        <5>1. r.value \in SUBSET Anchor
          BY <1>2, <1>4, <1>8, <4>3
        <5> QED BY <1>6, <2>1, <4>3, <5>1
      <4> QED BY <4>1, <4>2, <4>3 DEF Part
    <3>2. pc' \in Part \cup {"config"}
      BY <2>2 DEF Part
    <3> QED BY <1>1, <1>5, <2>1, <3>1, <3>2, Zenon DEF TypeOK
  <2>4. (ReadSoFar /\ OpenedInOrder)'
    BY <1>0, <1>1, <2>2 DEF ReadSoFar, OpenedInOrder, Part
  <2>5. ParsedIsOfOpened'
    <3>1. CASE pc = "cert"
      <4>1. pc' = "key" /\ opened'.cert = read /\ parsed'.cert = r.value /\ parsed'.anchor = {}
        BY <1>0, <1>6, <2>1, <2>2, <3>1 DEF ParsedIsOfOpened, Part
      <4> QED BY <1>3, <2>1, <3>1, <4>1 DEF ParsedIsOfOpened, AfterCert, AfterKey, AfterAnchor
    <3>2. CASE pc = "key"
      <4>1. /\ opened'.cert = opened.cert /\ opened'.key = read
            /\ parsed'.cert = parsed.cert /\ parsed'.key = Some(r.value) /\ parsed'.anchor = {}
        BY <1>0, <1>6, <2>1, <3>2 DEF ParsedIsOfOpened, AfterAnchor, Part
      <4>2. /\ certs(opened'.cert) = Ok(parsed'.cert)
            /\ parsed'.key # None /\ private_key(opened'.key) = Ok(parsed'.key[1])
        BY <1>3, <2>1, <3>2, <4>1, OptionIntro DEF ParsedIsOfOpened, AfterCert
      <4>3. \/ builder.client_auth = "Off" /\ pc' = "config"
            \/ builder.client_auth # "Off" /\ pc' = "anchor"
        BY <2>2, <3>2
      <4>4. builder.client_auth = "Off" => Roots(builder.client_auth, opened'.anchor) = Ok(parsed'.anchor)
        BY <4>1 DEF Roots
      <4> QED BY <1>1, <4>1, <4>2, <4>3, <4>4
              DEF ParsedIsOfOpened, AfterCert, AfterKey, AfterAnchor, Part
    <3>3. CASE pc = "anchor"
      <4>1. /\ opened'.cert = opened.cert /\ opened'.key = opened.key /\ opened'.anchor = read
            /\ parsed'.cert = parsed.cert /\ parsed'.key = parsed.key /\ parsed'.anchor = r.value
            /\ pc' = "config"
        BY <1>0, <1>6, <2>1, <2>2, <3>3 DEF Part
      <4> QED BY <1>1, <1>3, <2>1, <3>3, <4>1
              DEF ParsedIsOfOpened, AfterCert, AfterKey, AfterAnchor, Part
    <3> QED BY <3>1, <3>2, <3>3 DEF Part
  <2>6. ResultAtTheEnd' /\ BuildIsOfWhatWasOpened'
    <3>1. result' = None /\ pc' \in BeforeEnd /\ pc' \notin AfterAnchor \ {"config"}
      BY <2>1, <2>2 DEF ResultAtTheEnd, BeforeEnd, AfterAnchor, Part
    <3> QED BY <3>1 DEF ResultAtTheEnd, BuildIsOfWhatWasOpened
  <2> QED BY <2>3, <2>4, <2>5, <2>6
<1> QED BY <1>7, <1>8

\* rustls accepts the key or rejects it.
LEMMA ConfigureIInv == ASSUME IInv, Configure PROVE IInv'
<1> DEFINE r == server_config(builder.client_auth, parsed.anchor, parsed.cert,
                              parsed.key[1], builder.ocsp)
<1> USE DEF IInv
<1>1. /\ pc = "config" /\ pc' = (IF r.ok THEN "bind" ELSE "failed") /\ result' = Some(r)
      /\ UNCHANGED <<disk, builder, reader, buffer, parsed, opened>>
  BY DEF Configure
<1>2. /\ parsed \in [cert : Seq(Der), key : Option(Der), anchor : SUBSET Anchor]
      /\ builder \in [cert : Source, key : Source, client_auth : Mode, anchor : Source,
                      ocsp : Ocsp \cup {<<>>}]
  BY Zenon DEF TypeOK
<1>3. /\ certs(opened.cert) = Ok(parsed.cert)
      /\ private_key(opened.key) = Ok(parsed.key[1])
      /\ Roots(builder.client_auth, opened.anchor) = Ok(parsed.anchor)
  BY <1>1 DEF ParsedIsOfOpened, AfterCert, AfterKey, AfterAnchor
<1>4. \A x : Ok(x).ok /\ Ok(x).value = x
  BY DEF Ok
<1>5. build(builder.client_auth, opened, builder.ocsp) = r
  <2>1. certs(opened.cert).ok /\ private_key(opened.key).ok /\ Roots(builder.client_auth, opened.anchor).ok
    BY <1>3, <1>4
  <2>2. build(builder.client_auth, opened, builder.ocsp) =
          server_config(builder.client_auth, Roots(builder.client_auth, opened.anchor).value,
                        certs(opened.cert).value, private_key(opened.key).value, builder.ocsp)
    BY <2>1, BuildSucceeds
  <2>3. /\ Roots(builder.client_auth, opened.anchor).value = parsed.anchor
        /\ certs(opened.cert).value = parsed.cert
        /\ private_key(opened.key).value = parsed.key[1]
    BY <1>3, <1>4
  <2> QED BY <2>2, <2>3
<1>6. IF r.ok THEN r \in [ok : {TRUE}, value : Config] /\ parsed.key[1] \in Signing
      ELSE r \in [ok : {FALSE}, error : Error]
  <2>1. CASE parsed.key[1] \in Signing
    <3>1. /\ builder.client_auth \in Mode /\ builder.ocsp \in Ocsp \cup {<<>>}
          /\ parsed.anchor \in SUBSET Anchor /\ parsed.cert \in Seq(Der)
      BY <1>2
    <3> DEFINE c == [client_auth |-> builder.client_auth, roots |-> parsed.anchor,
                     chain |-> parsed.cert, key |-> parsed.key[1], ocsp |-> builder.ocsp]
    <3>2. c \in Config
      BY <2>1, <3>1, Zenon DEF Config
    <3>3. r = Ok(c)
      BY <2>1 DEF server_config, Ok
    <3> HIDE DEF c, r
    <3> QED BY <2>1, <3>2, <3>3 DEF Ok
  <2>2. CASE parsed.key[1] \notin Signing
    <3>1. r = Err("InvalidKey") /\ "InvalidKey" \in Error
      BY <2>2 DEF server_config, Error
    <3> HIDE DEF r
    <3> QED BY <3>1, ErrType
  <2> QED BY <2>1, <2>2
<1>7. r = server_config(builder.client_auth, parsed.anchor, parsed.cert, parsed.key[1], builder.ocsp)
  OBVIOUS
<1> HIDE DEF r
<1>8. result' # None /\ result'[1] = r
  BY <1>1, OptionIntro
<1>9. TypeOK'
  <2>1. /\ disk' \in [Path -> Option(Bytes)] /\ UNCHANGED <<builder, parsed>>
        /\ reader' \in Option(Bytes) /\ buffer' \in Bytes /\ opened' \in [Part -> Option(Bytes)]
    BY <1>1, Zenon DEF TypeOK
  <2>2. pc' \in {"bind", "failed"}
    BY <1>1
  <2>3. IF result'[1].ok THEN result'[1] \in [ok : {TRUE}, value : Config]
        ELSE result'[1] \in [ok : {FALSE}, error : Error]
    BY <1>6, <1>8
  <2> QED BY <1>2, <2>1, <2>2, <2>3, Zenon DEF TypeOK
<1>10. (ReadSoFar /\ OpenedInOrder /\ ParsedIsOfOpened)'
  <2>1. pc' \in {"bind", "failed"}
    BY <1>1
  <2>2. (ReadSoFar /\ OpenedInOrder)'
    BY <1>1, <2>1 DEF ReadSoFar, OpenedInOrder, Part
  <2>3. ParsedIsOfOpened'
    <3>1. UNCHANGED <<builder, opened, parsed>> /\ parsed.key # None
      BY <1>1 DEF ParsedIsOfOpened, AfterKey, AfterAnchor
    <3>2. pc' \notin Part \cup {"builder", "anchor"}
      BY <2>1 DEF Part
    <3> HIDE DEF IInv
    <3> QED BY <1>3, <3>1, <3>2 DEF ParsedIsOfOpened
  <2> QED BY <2>2, <2>3
<1>11. ResultAtTheEnd'
  BY <1>1, <1>6, <1>7, <1>8 DEF ResultAtTheEnd, AfterAnchor, BeforeEnd, Part
<1>12. BuildIsOfWhatWasOpened'
  BY <1>1, <1>5, <1>8 DEF BuildIsOfWhatWasOpened
<1> QED BY <1>9, <1>10, <1>11, <1>12

\* Binding the port changes nothing that was built.
LEMMA BindIInv == ASSUME IInv, Bind PROVE IInv'
<1> USE DEF IInv, Bind
<1>1. TypeOK'
  BY Zenon DEF TypeOK
<1>2. (ReadSoFar /\ OpenedInOrder /\ ParsedIsOfOpened)'
  BY DEF ReadSoFar, OpenedInOrder, ParsedIsOfOpened, AfterCert, AfterKey, AfterAnchor, Part
<1>3. (ResultAtTheEnd /\ BuildIsOfWhatWasOpened)'
  BY DEF ResultAtTheEnd, BuildIsOfWhatWasOpened, AfterAnchor, BeforeEnd, Part
<1> QED BY <1>1, <1>2, <1>3

\* A step of build.
LEMMA BuildIInv == ASSUME IInv, Build PROVE IInv'
<1>0. /\ disk \in [Path -> Option(Bytes)]
      /\ builder \in [cert : Source, key : Source, client_auth : Mode, anchor : Source,
                      ocsp : Ocsp \cup {<<>>}]
      /\ reader \in Option(Bytes) /\ buffer \in Bytes /\ opened \in [Part -> Option(Bytes)]
  BY Zenon DEF IInv, TypeOK
<1>1. CASE Open
  <2> DEFINE source == builder[pc]
             found == IF source.kind = "file" THEN disk[source.path] ELSE Some(source.bytes)
  <2>1. pc \in Part /\ reader = None
    BY <1>1 DEF Open
  <2>2. found \in Option(Bytes)
    <3>1. source \in Source
      BY <1>0, <2>1 DEF Part
    <3>2. CASE source \in {File(p) : p \in Path}
      BY <1>0, <3>2 DEF File
    <3>3. CASE source \in {Cursor(b) : b \in Literal}
      BY <3>3, LiteralAssumption, OptionIntro DEF Cursor
    <3> QED BY <3>1, <3>2, <3>3 DEF Source
  <2>3. \/ /\ found # None /\ reader' = found /\ opened' = [opened EXCEPT ![pc] = found]
           /\ UNCHANGED <<disk, builder, pc, buffer, parsed, result>>
        \/ found = None /\ Parse(None) /\ UNCHANGED opened
    BY <1>1 DEF Open
  <2> HIDE DEF found
  <2>4. CASE found # None
    <3>1. found[1] \in Bytes /\ found = Some(found[1])
      BY <2>2, <2>4, OptionCases
    <3>2. buffer = <<>> /\ <<>> \in Bytes /\ <<>> \o found[1] = found[1]
      BY <2>1, <3>1, ConcatEmptySeq DEF IInv, ReadSoFar, Bytes
    <3>3. /\ reader' = Some(found[1]) /\ buffer' = <<>>
          /\ opened' = [opened EXCEPT ![pc] = Some(<<>> \o found[1])]
          /\ UNCHANGED <<disk, builder, pc, parsed, result>>
      BY <2>3, <2>4, <3>1, <3>2
    <3> HIDE DEF source
    <3> QED BY <2>1, <3>1, <3>2, <3>3, ReadIInv
  <2>5. CASE found = None
    <3>1. opened' = [opened EXCEPT ![pc] = None]
      BY <1>0, <2>1, <2>3, <2>5 DEF IInv, OpenedInOrder
    <3> QED BY <2>1, <2>3, <2>5, <3>1, OptionIntro, ParseIInv
  <2> QED BY <2>4, <2>5
<1>2. CASE Read
  <2>1. /\ pc \in Part /\ reader # None /\ reader[1] # <<>>
        /\ buffer' = Append(buffer, Head(reader[1])) /\ reader' = Some(Tail(reader[1]))
        /\ UNCHANGED <<disk, builder, pc, parsed, result, opened>>
    BY <1>2 DEF Read
  <2>2. reader[1] \in Bytes /\ opened[pc] = Some(buffer \o reader[1])
    BY <1>0, <2>1, OptionCases DEF IInv, ReadSoFar
  <2>3. /\ Tail(reader[1]) \in Bytes /\ Append(buffer, Head(reader[1])) \in Bytes
        /\ Append(buffer, Head(reader[1])) \o Tail(reader[1]) = buffer \o reader[1]
    <3>1. \A a, b \in Seq(Section) : b # <<>> =>
            /\ Tail(b) \in Seq(Section) /\ Append(a, Head(b)) \in Seq(Section)
            /\ Append(a, Head(b)) \o Tail(b) = a \o b
      OBVIOUS
    <3> QED BY <1>0, <2>1, <2>2, <3>1 DEF Bytes
  <2>4. opened' = [opened EXCEPT ![pc] = Some(Append(buffer, Head(reader[1])) \o Tail(reader[1]))]
    BY <1>0, <2>1, <2>2, <2>3
  <2> QED BY <2>1, <2>3, <2>4, ReadIInv
<1>3. CASE ReadFails
  BY <1>3, OptionIntro, ParseIInv DEF ReadFails
<1>4. CASE ReadToEnd
  <2>1. pc \in Part /\ reader = Some(<<>>) /\ Parse(Some(buffer)) /\ UNCHANGED opened
    BY <1>4 DEF ReadToEnd
  <2>2. opened[pc] = Some(buffer \o <<>>)
    BY <2>1, OptionIntro DEF IInv, ReadSoFar
  <2>3. buffer \o <<>> = buffer
    BY <1>0, ConcatEmptySeq DEF Bytes
  <2>4. opened' = [opened EXCEPT ![pc] = Some(buffer)]
    BY <1>0, <2>1, <2>2, <2>3
  <2>5. Some(buffer) \in Option(Bytes)
    BY <1>0, OptionIntro
  <2> QED BY <2>1, <2>4, <2>5, ParseIInv
<1>5. CASE Configure
  BY <1>5, ConfigureIInv
<1>6. CASE Bind
  BY <1>6, BindIInv
<1> QED BY <1>1, <1>2, <1>3, <1>4, <1>5, <1>6 DEF Build

\* The invariant is inductive.
LEMMA NextIInv == IInv /\ [Next]_vars => IInv'
<1> SUFFICES ASSUME IInv, [Next]_vars PROVE IInv'
  OBVIOUS
<1>0. builder \in [cert : Source, key : Source, client_auth : Mode, anchor : Source,
                   ocsp : Ocsp \cup {<<>>}]
  BY Zenon DEF IInv, TypeOK
<1>1. ASSUME NEW p \in Path, Replace(p) PROVE IInv'
  BY <1>1, ReplaceIInv
<1>2. ASSUME NEW s \in Source, cert(s) PROVE IInv'
  BY <1>0, <1>2, SetIInv DEF cert
<1>3. ASSUME NEW s \in Source, key(s) PROVE IInv'
  BY <1>0, <1>3, SetIInv DEF key
<1>4. ASSUME NEW s \in Source, NEW mode \in Mode, client_auth(mode, s) PROVE IInv'
  BY <1>0, <1>4, SetIInv DEF client_auth
<1>5. ASSUME NEW o \in Ocsp, ocsp_resp(o) PROVE IInv'
  BY <1>0, <1>5, SetIInv DEF ocsp_resp
<1>6. CASE RunTls
  BY <1>6, RunTlsIInv
<1>7. CASE Build
  BY <1>7, BuildIInv
<1>8. CASE UNCHANGED vars
  <2> USE <1>8 DEF vars, build_vars
  <2>1. TypeOK'
    BY Zenon DEF IInv, TypeOK
  <2>2. (ReadSoFar /\ OpenedInOrder /\ ParsedIsOfOpened)'
    BY DEF IInv, ReadSoFar, OpenedInOrder, ParsedIsOfOpened
  <2>3. (ResultAtTheEnd /\ BuildIsOfWhatWasOpened)'
    BY DEF IInv, ResultAtTheEnd, BuildIsOfWhatWasOpened
  <2> QED BY <2>1, <2>2, <2>3 DEF IInv
<1> QED BY <1>1, <1>2, <1>3, <1>4, <1>5, <1>6, <1>7, <1>8 DEF Next

\* The invariant holds throughout.
LEMMA Invariant == Spec => []IInv
BY InitIInv, NextIInv, PTL DEF Spec

\* Every variable keeps its type, and rustls can sign with every configured key.
THEOREM TypeCorrect == Spec => []TypeOK
<1>1. IInv => TypeOK
  BY DEF IInv
<1> QED BY <1>1, Invariant, PTL

\* build returns what follows from each part as it was when it was opened, with
\* the first error first, whatever other programs do to the files meanwhile.
THEOREM BuildIsConsistent == Spec => []BuildIsOfWhatWasOpened
<1>1. IInv => BuildIsOfWhatWasOpened
  BY DEF IInv
<1> QED BY <1>1, Invariant, PTL

\* A server that authenticates its clients listens only with trust anchors, all
\* of which were read from the last source that client_auth was given.
THEOREM AnchorsAreRead == Spec => []ClientsAreAuthenticated
<1>1. ASSUME IInv, pc = "listening", builder.client_auth # "Off"
      PROVE  LET config == result[1].value
             IN  /\ config.client_auth = builder.client_auth
                 /\ config.roots # {}
                 /\ \A d \in config.roots :
                      [label |-> "CERTIFICATE", der |-> d] \in ToSet(opened.anchor[1])
  <2>1. read_trust_anchor(opened.anchor) = Ok(parsed.anchor)
    BY <1>1 DEF IInv, ParsedIsOfOpened, AfterAnchor, Roots
  <2>2. /\ parsed.anchor # {}
        /\ parsed.anchor \subseteq Held(opened.anchor[1], "CERTIFICATE")
    <3>1. opened.anchor \in Option(Bytes)
      <4>1. opened \in [Part -> Option(Bytes)]
        BY <1>1, Zenon DEF IInv, TypeOK
      <4> QED BY <4>1 DEF Part
    <3> QED BY <2>1, <3>1, AnchorResult DEF Ok, Err
  <2>3. /\ result[1].value.client_auth = builder.client_auth
        /\ result[1].value.roots = parsed.anchor
    BY <1>1 DEF IInv, ResultAtTheEnd, AfterAnchor, server_config, Ok
  <2> QED BY <2>2, <2>3 DEF Held
<1>2. IInv => ClientsAreAuthenticated
  BY <1>1 DEF ClientsAreAuthenticated
<1> QED BY <1>2, Invariant, PTL
=============================================================================
