----------------------------- MODULE TlsServer ------------------------------
(***************************************************************************)
(* A TLS server from TlsConfigBuilder::new() to its listening port: the    *)
(* setters in any order and number, and then run_tls, which builds the     *)
(* configuration and binds the port.  A path is given to a setter and its  *)
(* file is read much later, section by section, while other programs       *)
(* replace or remove the files (by renaming, so that an open file keeps    *)
(* its contents).                                                          *)
(***************************************************************************)
EXTENDS TlsConfig, Naturals

CONSTANTS Path,     \* the files
          Version,  \* Version[p]: what file p may hold
          Literal,  \* what the setters that take bytes are given
          Ocsp      \* what ocsp_resp is given

ASSUME VersionAssumption == Version \in [Path -> SUBSET Bytes]
ASSUME LiteralAssumption == Literal \subseteq Bytes /\ <<>> \in Literal

VARIABLES disk,     \* disk[p]: the contents of p, None while there is no such file
          builder,  \* the fields of TlsConfigBuilder
          pc,       \* "builder", the part that build is reading, or what became of run_tls
          reader,   \* what is left to read of that part, None before the first read
          buffer,   \* what was read of it
          parsed,   \* the chain, the key and the trust anchors so far
          result,   \* the configuration or the error that build returned, None before
          opened    \* history: each part as it was at its first read

build_vars == <<pc, reader, buffer, parsed, result, opened>>
vars == <<disk, builder, build_vars>>

MayHold(p) == {None} \cup {Some(b) : b \in Version[p]}

File(p) == [kind |-> "file", path |-> p]
Cursor(b) == [kind |-> "bytes", bytes |-> b]
Source == {File(p) : p \in Path} \cup {Cursor(b) : b \in Literal}
Mode == {"Off", "Optional", "Required"}
Part == {"cert", "key", "anchor"}

Init ==
  /\ disk \in {d \in [Path -> UNION {MayHold(p) : p \in Path}] : \A p \in Path : d[p] \in MayHold(p)}
  /\ builder = [cert |-> Cursor(<<>>), key |-> Cursor(<<>>),
                client_auth |-> "Off", anchor |-> Cursor(<<>>), ocsp |-> <<>>]
  /\ pc = "builder"
  /\ reader = None
  /\ buffer = <<>>
  /\ parsed = [cert |-> <<>>, key |-> None, anchor |-> {}]
  /\ result = None
  /\ opened = [part \in Part |-> None]

\* Another program writes a file, or removes it.
Replace(p) ==
  /\ disk' \in {[disk EXCEPT ![p] = c] : c \in MayHold(p)}
  /\ UNCHANGED <<builder, build_vars>>

-----------------------------------------------------------------------------
\* The setters: each replaces what was set before it.

Set(b) ==
  /\ pc = "builder"
  /\ builder' = b
  /\ UNCHANGED <<disk, build_vars>>

cert(source) == Set([builder EXCEPT !.cert = source])
key(source) == Set([builder EXCEPT !.key = source])
client_auth(mode, source) == Set([builder EXCEPT !.client_auth = mode, !.anchor = source])
ocsp_resp(o) == Set([builder EXCEPT !.ocsp = o])

-----------------------------------------------------------------------------
\* run_tls

\* Its future is polled for the first time.
RunTls ==
  /\ pc = "builder"
  /\ pc' = "cert"
  /\ UNCHANGED <<disk, builder, reader, buffer, parsed, result, opened>>

Fail(error) ==
  /\ pc' = "failed"
  /\ result' = Some(Err(error))
  /\ UNCHANGED parsed

\* The part has been read to its end, or reading it has failed.
Parse(read) ==
  LET r == CASE pc = "cert"   -> certs(read)
             [] pc = "key"    -> private_key(read)
             [] pc = "anchor" -> read_trust_anchor(read)
  IN /\ \/ /\ ~r.ok
           /\ Fail(r.error)
        \/ /\ r.ok
           /\ parsed' = [parsed EXCEPT ![pc] = IF pc = "key" THEN Some(r.value) ELSE r.value]
           /\ pc' = CASE pc = "cert" -> "key"
                      [] pc = "key" -> IF builder.client_auth = "Off" THEN "config" ELSE "anchor"
                      [] pc = "anchor" -> "config"
           /\ UNCHANGED result
     /\ reader' = None /\ buffer' = <<>>
     /\ UNCHANGED <<disk, builder>>

\* Faulty form: a file that cannot be opened is tried again.
OpenRetries ==
  /\ pc \in Part /\ reader = None
  /\ reader' = IF builder[pc].kind = "file" THEN disk[builder[pc].path]
               ELSE Some(builder[pc].bytes)
  /\ opened' = [opened EXCEPT ![pc] = reader']
  /\ UNCHANGED <<disk, builder, pc, buffer, parsed, result>>

\* The first read of a part, which opens a LazyFile.
Open ==
  /\ pc \in Part /\ reader = None
  /\ LET source == builder[pc]
         found == IF source.kind = "file" THEN disk[source.path] ELSE Some(source.bytes)
     IN \/ /\ found # None
           /\ reader' = found
           /\ opened' = [opened EXCEPT ![pc] = found]
           /\ UNCHANGED <<disk, builder, pc, buffer, parsed, result>>
        \/ /\ found = None
           /\ Parse(None)
           /\ UNCHANGED opened

\* Faulty form: the file is opened by every read and read on where it was left.
ReadReopens ==
  /\ pc \in Part /\ reader # None
  /\ LET source == builder[pc]
         now == IF source.kind = "file" THEN disk[source.path] ELSE reader
         rest == IF source.kind = "file" /\ now # None
                   THEN SubSeq(now[1], Len(buffer) + 1, Len(now[1])) ELSE reader[1]
     IN /\ rest # <<>>
        /\ buffer' = Append(buffer, Head(rest))
        /\ reader' = Some(Tail(rest))
  /\ UNCHANGED <<disk, builder, pc, parsed, result, opened>>

Read ==
  /\ pc \in Part /\ reader # None
  /\ reader[1] # <<>>
  /\ buffer' = Append(buffer, Head(reader[1]))
  /\ reader' = Some(Tail(reader[1]))
  /\ UNCHANGED <<disk, builder, pc, parsed, result, opened>>

ReadFails ==
  /\ pc \in Part /\ reader # None
  /\ builder[pc].kind = "file"
  /\ Parse(None)
  /\ opened' = [opened EXCEPT ![pc] = None]

ReadToEnd ==
  /\ pc \in Part /\ reader = Some(<<>>)
  /\ Parse(Some(buffer))
  /\ UNCHANGED opened

\* The rest of build.
Configure ==
  /\ pc = "config"
  /\ LET r == server_config(builder.client_auth, parsed.anchor, parsed.cert,
                            parsed.key[1], builder.ocsp)
     IN /\ pc' = IF r.ok THEN "bind" ELSE "failed"
        /\ result' = Some(r)
  /\ UNCHANGED <<disk, builder, reader, buffer, parsed, opened>>

\* AddrIncoming::bind, which finds the port free or not.
Bind ==
  /\ pc = "bind"
  /\ pc' \in {"listening", "no port"}
  /\ UNCHANGED <<disk, builder, reader, buffer, parsed, result, opened>>

-----------------------------------------------------------------------------

Build == Open \/ Read \/ ReadFails \/ ReadToEnd \/ Configure \/ Bind

Next ==
  \/ \E p \in Path : Replace(p)
  \/ \E s \in Source : cert(s) \/ key(s) \/ \E mode \in Mode \ {"Off"} : client_auth(mode, s)
  \/ \E o \in Ocsp : ocsp_resp(o)
  \/ RunTls
  \/ Build

\* build runs without an await until it is done; nothing is assumed of the
\* other programs, which may replace the files forever.
Fairness == WF_vars(Build)

Spec == Init /\ [][Next]_vars /\ Fairness

-----------------------------------------------------------------------------

Config ==
  [client_auth : Mode, roots : SUBSET Anchor, chain : Seq(Der), key : Signing,
   ocsp : Ocsp \cup {<<>>}]
Error ==
  {"Io", "CertParseError", "Pkcs8ParseError", "RsaParseError", "EmptyKey", "InvalidKey"}

\* Every variable has its type, and rustls can sign with the key of a
\* configuration.
TypeOK ==
  /\ disk \in [Path -> Option(Bytes)]
  /\ builder \in [cert : Source, key : Source, client_auth : Mode, anchor : Source,
                  ocsp : Ocsp \cup {<<>>}]
  /\ pc \in Part \cup {"builder", "config", "bind", "listening", "no port", "failed"}
  /\ reader \in Option(Bytes)
  /\ buffer \in Bytes
  /\ parsed \in [cert : Seq(Der), key : Option(Der), anchor : SUBSET Anchor]
  /\ result # None => IF result[1].ok THEN result[1] \in [ok : {TRUE}, value : Config]
                      ELSE result[1] \in [ok : {FALSE}, error : Error]
  /\ opened \in [Part -> Option(Bytes)]

\* Whatever happens to the files while they are read, build returns what follows
\* from each part as it was when it was first read, and no mixture of two
\* versions: the configuration of those contents or, when several things are
\* wrong with them, the error that the order of the code says.
BuildIsOfWhatWasOpened ==
  result # None => result[1] = build(builder.client_auth, opened, builder.ocsp)

\* A server that was told to authenticate its clients never listens without
\* trust anchors, whichever file was missing, empty or damaged, and all of them
\* come from the last source that was set.
ClientsAreAuthenticated ==
  pc = "listening" /\ builder.client_auth # "Off" =>
    LET config == result[1].value
    IN /\ config.client_auth = builder.client_auth
       /\ config.roots # {}
       /\ \A d \in config.roots :
            [label |-> "CERTIFICATE", der |-> d] \in ToSet(opened.anchor[1])

\* run_tls comes to an end of its own, a listening server or an error, even if
\* the files are replaced all the time.
RunTlsSettles == pc = "cert" ~> pc \in {"listening", "no port", "failed"}

\* "sets the Tls key via File Path, returns `TlsConfigError::IoError` if the
\* file cannot be open".
KeyPathReportsIoError ==
  [][\A p \in Path : builder'.key = File(p) /\ builder' # builder /\ disk[p] = None
       => result' = Some(Err("Io"))]_vars
=============================================================================
