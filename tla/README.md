# A verification project for routetype-rs

routetype-rs routes HTTP requests through a type: a value of a `Route` type is
parsed from the path and query of a request, and rendered back to them when the
application writes a link. Around that trait stand a normalization of URLs, a
derive macro, and servers for hyper and warp. This directory holds TLA+ models
of these parts, TLC configurations that check them on small instances, and
theorems about them that TLAPS proves for all instances.

Paths such as `routetype/src/raw.rs` are relative to `src/`.

## 1. Inventory

| Component | Source | State it keeps | Operations | Makes it correct | Module |
|---|---|---|---|---|---|
| raw URL text | `routetype/src/raw.rs`, `either.rs` | none | `parse_path_and_query`, `parse_path`, `parse_query`, `render_path_and_query` | what is written is what is read, for every character | `RouteText`, `Strings` |
| normalization | `routetype/src/normalize.rs` | none | `normalize_parse`, `normalize_render_path` | one address per route, at most one redirect | `Normalize`, `Navigation` |
| `Route`, `PlainRoute` | `routetype/src/lib.rs` | none | `parse_str`, `parse_strs`, `render` | render then parse is the identity | `Navigation`, `NavigationText` |
| `RoutePiece`, `QueryMap` | `routetype/src/lib.rs` | the map of one query | `parse_route_piece`, `render_route_piece`, `get_single`, `contains` | a page only at its own address | `DerivedRoute` |
| derive macro | `routetype-derive/src/` | none | `#[derive(Route)]` | the three generated functions agree with each other | `DeriveMacro`, `DerivedRoute`, `DerivedServer` |
| hyper dispatch server | `routetype-hyper/src/lib.rs` | connections, the futures of their requests, the log | `run`, `helper` | each request settled once; failures stay apart; error codes find their error | `HyperServer`, `RouteService` |
| responses | `routetype-hyper/src/respond.rs` | none | `html`, `css`, `askama`, `redirect::temporary` | a redirect names an absolute path; a template that fails becomes an error page | in `HyperServer`, `NavigationText`, `ExampleServers` |
| gRPC multiplexing | `routetype-hyper/src/grpc.rs` | the bodies being sent | `helper` by content type, `EitherBody`'s polls | a gRPC call is never answered with a page; a body that fails costs its own answer | `HyperServer` |
| TLS acceptor | `routetype-hyper/src/tls.rs` | the listener | `poll_accept`, `run_tls` | accepting never waits for a handshake | `HyperServer` |
| TLS stream | `routetype-hyper/src/tls.rs` | `Handshaking` / `Streaming` | `poll_read`, `poll_write`, `poll_flush`, `poll_shutdown` | the bytes of either direction arrive, in order | `TlsStream`, `ByteStream` |
| TLS configuration | `routetype-hyper/src/tls.rs` | the builder, the open file, what was parsed | the setters, `build`, `LazyFile`, `run_tls` | no mixture of two versions of a file; the first error there is, is the one reported; clients are authenticated against something | `TlsConfig`, `TlsServer` |
| warp filters | `routetype-warp/src/lib.rs` | none | `route_filter_result`, `dispatch_filter` | it reads what hyper's server reads | `NavigationText` |
| example servers | `routetype-example/src/hyper.rs` | a visit counter, two listeners, the tasks of the visits | `main`, `get_home`, `askama` | no visit is counted twice or lost; both listeners run or none | `ExampleServers` |
| warp example | `routetype-example/src/warp.rs` | none | `main` | | not modelled |
| tests, CI, assets | `routetype/tests/`, `.github/` | none | none | none | read for what they state |

### How the parts interact

A browser sends a request target. hyper accepts the connection (over TLS,
`TlsAcceptor` hands it out before its handshake), gives it a service and calls
that service for each request. With gRPC the content type decides first whether
the request goes to the gRPC service. The rest is `helper`
(`routetype-hyper/src/lib.rs:155`): it parses the target with
`Route::parse_str`, which splits and decodes the text (`raw.rs`) and passes the
decoded path and query to `Route::parse`. Both implementations, `PlainRoute`'s
and the one the macro generates, call `normalize_parse` first, and then match.
The three results are a route (the application's `dispatch` is awaited),
`NoMatch` (`not_found` is awaited) and `NormalizationFailed` with the rendered
destination of a redirect, which makes the browser send another request. An
error of the application is logged under a new UUID, and the page shows it.
The page holds links that `Route::render` wrote, with `normalize_render_path`
and `render_path_and_query`; following one starts over.

### Which behaviours are hard

- The rule for dashes and empty segments is applied to decoded text on both
  sides of an escape and a separator layer, and a redirect is a second request:
  whether the whole settles is a property of several steps (`normalize.rs:40`,
  `:87`, `raw.rs:18`, `:181`).
- The generated `parse` tries variants in order, and the macro matches fields
  with interpolations by counting (`route_parse.rs:193`, `:559`).
- Requests of several connections run at the same time, and each may fail,
  panic, or be dropped at an await when its connection ends
  (`routetype-hyper/src/lib.rs:155-200`, `grpc.rs:119`).
- A TLS client may stall its handshake (`tls.rs:365`); the handshake is driven
  by whichever of read and write comes first (`tls.rs:292`, `:311`); and the
  connection may be reset anywhere in it.
- A body is sent after the head of its answer, and may fail when no error page
  can follow any more (`grpc.rs:152`).
- The files of a TLS server are opened when its configuration is built, long
  after their paths were given, and read while others write them
  (`tls.rs:179`, `:248`).
- Two listeners run under one `try_join!`, and their connections share a counter
  on several threads (`routetype-example/src/hyper.rs:45`, `:115`).

`PROJECT.json` lists each such place under `hazards`, with the properties that
speak of it.

## 2. The modules

### Decoded addresses: `Normalize`, `Navigation`

A path is a sequence of segments and a segment a sequence of characters. Only
the dash is told apart from other characters. `Normalize` has `normalize_parse`
and `normalize_render_path` under their own names, and `Wire`, what is left of
an address once `raw.rs` has written and read it: `/` reads as no segment, so a
path of one empty segment becomes the empty path, and `?` reads as a query of
no pairs. `NavigationText` checks that `Wire` is right.

`Navigation` is one browser and a server. `Type` is a user opening any address,
`Follow(r)` a link that a page shows to `r` (`Route::render`), `Dispatch` and
`Redirect` the two outcomes of `helper`, `Close` ends the visit. `hops` counts
redirects, up to `HopLimit`.

### Text: `Strings`, `RouteText`, `NavigationText`

`RouteText` is `raw.rs` with `parse_str`, `parse_strs` and `render` of
`PlainRoute`. Text is a sequence of characters; the two digits of an escape are
kept together as one character, which text may also hold without a percent sign
before it. One character stands for each class that is escaped alike. The
backslash is a class of its own: no encode set has it, so it is written as it
is, and it is no plain character all the same, because browsers read it as a
slash. Bytes that are not UTF-8 decode to the replacement character. `NavigationText` is the
system of `Navigation` again, over the text in the address line, the `href` and
the `Location` header. `Stack` chooses between hyper's helper (`parse_str`) and
warp's filter (`parse_strs` when there is a query). With hyper it implements
`Navigation`, through `reads`, a history variable with the decoded form of the
address on the wire.

### Derived routes: `DerivedRoute`, `DeriveMacro`, `DerivedServer`

`DerivedRoute` describes the generated `parse`, `path` and `query` for a table
of variants, with `QueryMap` and the three `RoutePiece` types. `i32` has its
bounds as a constant. `DeriveMacro` derives such a table from declarations, the
text of `#[route("...")]` and the fields of each variant, and states which
declarations the macro refuses, and which ones the compiler does after it. The
segments of the path and then the pairs of the query are the places of a
declaration (`raw_values`). The macro takes one field for each place that
interpolates (`fields_used`), and a field of a tuple variant is known by its
position among these places.
`DerivedServer` composes both: `Derive` compiles an enum or rejects it, `Edit`
is the developer's next attempt, and then a browser types addresses and follows
links as before.

### The server: `RouteService`, `HyperServer`

`HyperServer` has two accept loops, each with the queue of its port, a phase per
connection, and for each request the await where its future is suspended.

| Action | Code |
|---|---|
| `Connect`, `Disconnect` | clients and hyper |
| `PollAccept` | `TlsAcceptor::poll_accept`, `AddrIncoming`: the first connection in the queue gets a task at once |
| `PollAcceptEnds` | the other two arms of `poll_accept` (`tls.rs:372`, `:373`): the accept loop is over |
| `Handshake` | the poll of `TlsStream` in which the handshake future yields |
| `Call` | `Service::call`; on HTTP/1 one request at a time, on HTTP/2 any number |
| `CallGrpc`, `CallDispatch`, `CallNotFound`, `RedirectTemporary`, `RedirectErr`, `ExpectPanics` | the helpers, up to their first await or to their end |
| `DispatchOk`, `DispatchErr`, `DispatchPanics`, `GrpcOk`, `GrpcErr` | what the awaited future returned, or its panic, and everything after it |
| `ErrorPage` | `lib.rs:179`, for an error of the application or of the redirect's header |
| `PollDataNone`, `PollTrailers`, `BodyErr` | `EitherBody` for the body of an answer whose head has been sent |
| `End`, `Break` | futures and bodies are dropped with their connection; a panic or service error ends a connection (HTTP/1) or a stream (HTTP/2) |

`ErrorPage` draws a code, logs it and puts it on the page in one step because the
code has no await in between. Whether the page then arrives is not said: its
connection may end before. Nothing catches a panic: that of the application's
future reaches hyper as the helper's own does. `PollAcceptEnds` allows more than
hyper's `AddrIncoming` does, which waits and tries again when the kernel reports
an error. What is queued is refused
then, and what was accepted goes on. A body is `"data"` until `poll_data` returns `None`,
and then, on HTTP/2, `"trailers"`; the data themselves change nothing. The body
of a redirect is empty and an error page is a string, so these two never fail;
the streams of the gRPC service or the application may, and then the answer is
cut off. One approximation: on HTTP/2 a stream's task may learn
of its connection's end slightly later; a future that completes in between is
the same as one that completes before.

`RouteService` is what a request may rely on, without connections: it is asked
once, and then answered by something its kind calls for, or dropped.

### The TLS stream: `ByteStream`, `TlsStream`

`TlsStream` is one connection below HTTP: the two states of `tls.rs:267`, the
handshake future in the first of them, and `PollRead`, `PollWrite`, `PollFlush`,
`PollShutdown` as the code has them. Four parties stand around it, modelled as
far as `tls.rs` relies on them: the task (`Wanted`, `Runs`, `Wake`), which makes
the polls it wants in any order and is woken when the socket changes and a poll
left its waker (`Pends`, `Event`), and which may go on reading and writing when
it has been told that the handshake failed, although hyper does not: the future
is still in place then, and panics when it is polled again (`AcceptPanics`); the
session of rustls (`Pull`, `Drive`),
which answers `hello` and `finished`; the socket, with room for a number of
records in each direction; and the client, which may stop or close anywhere.
`Reset` is the end of the connection without notice: what was sent and not
received is lost, records that have arrived may survive to be read or not, and
the task is woken. The socket takes nothing more, and a poll that needs it gets
an error (`AcceptFails` in the handshake, `StreamFails` after it).
hyper happens to read before it writes, so the handshake is completed by a read
there; the model lets either poll do it, which is what the code provides for.
The data among the records of one wire are picked out with `Among` of
`Filters`, the filter of an iterator. It is written with `FlattenSeq`, whose
equation can be proved; the definition of the standard `SelectSeq` is one that
the prover cannot expand.
`ByteStream` says what each direction promises and is instantiated twice: what
is received is a prefix of what was sent, and all of it arrives at last unless
the connection is cut (`Cut`). The alert that ends a TLS stream is left out.

### TLS configuration: `TlsConfig`, `TlsServer`

`TlsConfig` is `TlsConfigBuilder::build` as a function of the bytes it reads,
given as PEM sections: `certs`, `private_key`, `read_trust_anchor`,
`server_config` and their errors, in the order of the code. What the sections
hold is told apart only by what rustls accepts it for: a key it can sign with
(`Signing`), a certificate that can be a trust anchor (`Anchor`). `pemfile` and
`rustls` themselves are external.

`TlsServer` takes the same steps in time. The setters (`cert`, `key`,
`client_auth`, `ocsp_resp`, each for the variants with a path and with bytes)
only replace fields. `RunTls` starts `build`, which opens the file of a part at
its first read (`Open`, the `LazyFile`), reads it (`Read`, `ReadFails`,
`ReadToEnd`), parses the part and goes on to the next one: certificates, key,
trust anchors. `Configure` is the end of `build` and `Bind` that of `run_tls`.
`Replace` is any other program that renames a new file over an old one or
removes it, between any two of these steps. `opened` remembers each part as it
was at its first read. A file that is written in place, so that a reader sees
the two versions mixed, is outside the model, and the code cannot tell.

### The example: `ExampleServers`

The task of `main` loads the embedded files (`Assets`), polls the plain server
(`PollPlain`: `Server::bind` panics when the port is taken) and the TLS server
(`PollTls`, with `TlsConfig`'s `build`, whose failure is returned), and then
waits in `try_join!` until a listener fails (`AcceptErr`). Leaving `main` drops
both futures (`DropFutures`) and then the runtime with all tasks
(`ShutdownRuntime`). A visit is accepted by either listener, takes a number
(`FetchAdd`), and renders its page (`Render`, `RenderErr`). `fetch_add` is
modulo the size of a `usize`, `UsizeSize`.

## 3. The runs

| Run | Shows | Instance |
|---|---|---|
| `navigation` | one address per route: `AtMostOneRedirect`, `LinkReachesItsRoute`, `RedirectKeepsMeaning`, `NavigationEnds` | a dash and one other character, segments of up to 2, typed paths of up to 3 segments, links of up to 2 |
| `navigation_text` | `ImplementsNavigation`, `WrittenUrlsAreAbsolutePaths` | every text of up to 4 characters of a slash, a backslash and `% 2F 5C -` as a path, of up to 3 of `? & = % 26 FF` as a query, and links with each special character |
| `parse_strs` | a violation, see section 5 | the same, with warp's filter |
| `derived_server` | `LinkIsServed`, `LinkReachesItsRoute`, `PageIsAtItsAddress` | every enum of one or two of 17 declarations, five of which are refused; `i32` is -13..12 |
| `shadowing` | a violation, see section 5 | the enum of `routetype/tests/deriving.rs` |
| `hyper_server` | `ErrorCodeFindsItsError`, `FailuresStayApart` | a plain and a TLS connection, three requests of every kind, three codes |
| `hyper_server_live` | `EveryConnectionAccepted`, `ImplementsService` | two TLS connections, one of them stalled, and two requests |
| `tls_stream` | `FlushedIsSent`, `UpIsByteStream`, `DownIsByteStream`, `ConnectionEnds` | two pieces up and three down over a socket of two records, reset anywhere or not |
| `tls_server` | `BuildIsOfWhatWasOpened`, `ClientsAreAuthenticated`, `RunTlsSettles` | two files with three and two versions, or missing, and three literals |
| `key_path` | a violation, see section 5 | the same |
| `example_servers` | `EachVisitCountsOnce`, `BothPortsOrNone`, `FailureEndsTheProgram` | four visits, a counter of three values, every state of the embedded files |
| `connect_request` | a violation, see section 5 | as `hyper_server`, requests of the kind `authority` |

Each run also has the type invariant of its module, and each property has a
faulty form of the code (`mutants` in `PROJECT.json`, the definitions commented
`Faulty form`) that breaks it on the same instance.

**Bounds.** Normalization looks at one segment at a time, so paths of three
segments show an empty segment at either end, in the middle, and next to
another one; segments of two dashes show that one dash is added and one is
taken away. On the text, four characters make a complete escape between two
slashes, and an escape that is cut off at the end. Two variants are enough for
one to shadow the other. The numbers -13 and 12 are one written form away from
-14 and 13, which do not parse; the digits mean what they mean for the real
bounds. Three requests on two connections put two failing requests on one
HTTP/2 connection and a third on another one. For `EveryConnectionAccepted` a
connection has to come after a stalled one to the same port, which takes two; the
plain port, with an accept loop of its own, is in `hyper_server`. A socket of two records lets
the end of a handshake arrive together with data, and fills up with three
pieces of an answer. The versions of a file hold between them each kind of
section that `build` treats differently, with a damaged one and none. A counter
of three values wraps around within four visits. `HopLimit` is 3 and the count
stops there, so it bounds no behaviour.

**Deadlock** is checked except in the runs of four modules. In `HyperServer`
and `TlsStream` every client may be gone and every request used up, or the one
connection closed, which ends a finite instance and no real server. `TlsServer`
is about the start of a server and `ExampleServers` about a process that may
exit.

**Fairness.** `Navigation` assumes that the server handles a request that is
there and that the browser follows a redirect: `WF(Dispatch)`, `WF(Redirect)`.
`HyperServer` assumes `WF` of `PollAccept(p)`, `Helper(q)` and `Finish(q)`:
tokio polls every task that has been woken, the accept loop of each port being
one of them, which takes one connection after the other, and a future of the application or
of the gRPC service completes at last. Nothing is assumed of clients: they need
not connect, finish a handshake, send a request or stay. Nor is anything assumed
of bodies, which may stay open forever. `TlsServer` assumes `WF(Build)`, since
`build` runs to its end without an await; the files may be replaced forever.
`ExampleServers` assumes `WF(Main)` and `WF(Task(v))`, the polls of woken tasks;
nobody has to visit. `TlsStream` assumes that the task goes on polling until everything is pending
and runs when it was woken, and that the client receives what was sent to it
(`WF(ClientReceive)`): a client that never does may block the answer, and the
code has no timeout against it. `DerivedServer` has no
fairness because only safety is asked of it.

## 4. What is proved

The proofs are in `NavigationProofs`, `NavigationTextProofs`, `HyperServerProofs`,
`TlsStreamProofs`, `TlsServerProofs`, `ExampleServersProofs` and
`DerivedServerProofs`, with lemmas on sequences in `SequenceFacts`. They hold for
every value of the constants that satisfies the assumptions named in the modules:

- `Navigation`: `DashAssumption`, `AddressAssumption` (typed addresses are fixed
  points of `Wire`, what `NavigationText` confirms), `RouteAssumption`,
  `HopLimitAssumption`.
- `NavigationText`: `CharAssumption` and `DashIsPlain` of `RouteText` (the
  characters are those of their classes, and the dash is not escaped),
  `UrlAssumption`, `RouteAssumption`, `HopLimitAssumption`, `StackAssumption`.
- `HyperServer`: `TlsAssumption`, `KindsAssumption`, `NoneAssumption`.
- `TlsStream`: `RoomAssumption` (the socket takes something),
  `AnswerAssumption`, `PiecesAssumption` and `QuestionAssumption` (handshake
  records are not data).
- `TlsServer`: `DerAssumption`, `VersionAssumption`, `LiteralAssumption`, about
  what files and literals consist of.
- `ExampleServers`: `VisitAssumption` (finitely many), `AssetAssumption`,
  `UsizeAssumption`.
- `DerivedServer`: `DashAssumption`, `PieceAssumption` (what numbers and words
  are written with is text), `I32MaxAssumption`, `EnumsAssumption` (an enum is a
  sequence of declarations, accepted or not), `TextsAssumption`,
  `AddressAssumption` (as in `Navigation`).

**Navigation.** `TypeCorrect`, `OneRedirect`, `LinkIsItsRoute` and
`RedirectMeaning`, for paths of any length over any alphabet. The properties
are not inductive: that there is no second redirect needs to be known from the
address after the first one (`AfterRedirect`: it has no empty segment), that a
link reaches its route needs the address to be what rendering wrote until the
page appears (`BehindLink`), and that a redirect keeps the query needs it to
have been through `Wire` before (`AsWritten`). `IInv` conjoins these with the
type invariant and with what `link`, `hops` and `page` are when nothing is going
on (`Quiet`, `Exclusive`). The steps rest on lemmas about the operators:
`RenderThenParse` (adding and taking away a dash cancel out),
`DropEmptyOfNormalized`, `WirePathOfNormalized`. `FlattenSeq` is defined with a
recursive function in the community modules, and `SequenceFacts` derives its
equation and from it what it does to a sequence of empty and singleton
sequences, by a least counterexample since induction theorems cannot be
instantiated.

**Text.** `RoundTrip`: what `render_path_and_query` writes, `parse_path_and_query`
reads back, for every path and query of any text, up to the two empty forms that
`Wire` of `Normalize` names. `CodeFacts` has what an escape
is, `EncodeIsSafe` that encoded text holds no separator, `DecodeEncode` that
decoding undoes encoding; so a path and a query are split exactly where they
were joined. `UrlAddressIsAddress` discharges, for the text, the assumption that
`Navigation` makes of typed addresses. `IInv` of the system is its type invariant
with `Read` (`reads` is what the text on the wire decodes to), `Quiet` (nothing
is read between two visits) and `WrittenUrlsAreAbsolutePaths`; its theorems are
`TypeCorrect` and `WrittenAbsolute`, for both values of `Stack`. `OneSlash` is why
there is no second slash: rendering a path without empty segments puts the first
character of a segment, or a percent sign, after the first slash (`EncodeFirst`).
A backslash is there only when that segment begins with one. `RefinesNavigation`
proves `ImplementsNavigation` for hyper's helper: each action maps to the action
of the same name (`StepRefines`), because parsing the text is `normalize_parse`
of what it reads as (`NavNormalize`). With warp's filter it does not hold, see
section 5.

**Server.** `TypeCorrect`, `CodeFindsError`,
`FailureIsItsOwn` and `RefinesService`, for any numbers of connections, requests
and codes. `IInv` says that the log is exactly the set of the codes on error
pages, each with its request, and no code twice (`LogMatchesPages`), that a
suspended future, and a body that is being sent, belongs to an open connection
(`SuspendedOnOpen`), that it waits for what its kind calls for
(`WaitsForItsKind`), and that what is queued at a port is there once and belongs
to it (`QueuedOnce`). The second is what makes
a panic harmless to other connections, and the third what makes every answer
one that `RouteService` allows.

**TLS stream.** `TypeCorrect`. `FlushSends`:
when a flush has succeeded, nothing that was written is still in the session;
`UnsentIsKnown` says what the session may hold unsent: parts of the answer only
if something was written since the last flush, and otherwise no more than parts
of the handshake.

`UpInOrder` and `DownInOrder` are the safety part of `UpIsByteStream` and
`DownIsByteStream`: what is received is a prefix of what was sent, it only ever
grows, and no connection is cut twice. That it is a prefix is not inductive, since
it says nothing of the records that are under way. `StreamInv` says where they
are. `InOrder`, of what the client sends: what the session has decrypted goes on
where the reader has got, and what waits in the socket where the session has
got. `Delivers`, of the answer: what the client has got, what the socket has and
what the session has are together what was written. A reset is why each has two
cases: it may leave a gap in the one direction, after which nothing arrives any
more, and it takes the end of the other away. `ScriptData` says which data the
client's records hold, `PullShape` and `PushShape` what a call of the session
moves, and the lemmas on `Among` in `SequenceFacts` that filtering distributes
over concatenation.

**TLS configuration.** `TypeCorrect`, `BuildIsConsistent` and `AnchorsAreRead`.
`IInv` relates what has been read to what was opened: buffer and rest make up
the opened file (`ReadSoFar`), later parts are not opened yet (`OpenedInOrder`),
each parsed part is what the opened bytes parse to (`ParsedIsOfOpened`), and
there is a result exactly at the end (`ResultAtTheEnd`). Then the configuration
is the function `build` of the opened files, whatever happens on the disk, and
its trust anchors are among them. `DersAreHeld`, `CertsResult`, `KeyResult` and
`AnchorResult` say what the parsers return, `BuildFails` and `BuildSucceeds`
what follows for `build`.

**The example.** `TypeCorrect`, `NoVisitIsLost` and `BothOrNone`. The counter is
the number of visits that were counted, modulo the size of the type, and until
it wraps around each number below it is on one page. `NumberIsTakenOnce` and
`EachVisitCountsOnce` carry it, `CountOn` and `FetchAddCounts` are the
arithmetic. `PlainIsFirst` says where the listeners are before both listen.

**Derived routes.** `TypeCorrect`, `LinksAreServed`, `LinksReachTheirRoutes` and
`PagesAreAtTheirAddresses`, for every enum, all values of its fields and every
address. They rest on three results about the pure parts. `PieceRoundTrip`: what
`render_route_piece` writes, `parse_route_piece` reads, for numbers of any width
down to the least one; `Number` and `Decimal` are recursive functions whose
equations are derived by a least counterexample (`NumberAppend`,
`NumberOfDecimal`). `SpelledAlike` is the other direction: a piece that was read
and is written again differs at most in the spelling of a number.
`VariantWellFormed`: a declaration that is accepted has exactly one place for each
field, whether the field is found by its name or by counting (`OnePlaceEach`).
`LinkAddress`: what is written of a route survives rendering, the wire and
`normalize_parse`. From these, `OwnPathFits` and `OwnQueryFits` say that a variant
takes what it has written, `OwnFields` that the fields come back, `ApartMisses`
that a variant which is `Apart` does not take it, and `PathShown` and `PairShown`
that what matched is what would be written. `IInv` says that the table is well
formed, that a page is what parsing made of the address in the browser, and that
a link's address stays there until its page appears, because it has no empty
segment and so is never redirected.

**Only model-checked.** Liveness (`NavigationEnds`, `EveryConnectionAccepted`,
`ConnectionEnds`, `RunTlsSettles`, `FailureEndsTheProgram`, the fairness of
`ImplementsService` and of the byte streams), since the prover has no rules for
fairness. Every invariant and every action property of the runs is proved.

## 5. Where the code and its documentation disagree

- `parse_strs` (run `parse_strs`): the doc comment says it is like `parse_str`.
  The branches of `if query.is_empty()` (`routetype/src/lib.rs:68`) are
  exchanged, so a query is dropped when there is one. The warp filter takes
  every address with a question mark there.
- Shadowed variants (run `shadowing`): in the test's enum, `Readiness` and
  `Poll` render to addresses that parse to `Home`, which is declared first and
  does not look at the query. `LinkReachesItsRoute` states when a variant is
  safe: `Apart` from each one before it.
- CONNECT (run `connect_request`): "path_and_query cannot be None"
  (`routetype-hyper/src/lib.rs:164`) does not hold for the target of a CONNECT
  request.
- Missing key files (run `key_path`): the setter's doc comment says it "returns
  `TlsConfigError::IoError` if the file cannot be open"
  (`routetype-hyper/src/tls.rs:90`). The setter returns the builder, and the file is
  opened in `build`; a missing file is an error of `run_tls` then, if the builder
  still has that path and the certificates before it are right.

Seen while modelling, without a statement they would contradict: hyper's
`default_not_found` answers with status 200 where the one of warp sets 404;
`run` panics when its port is taken, where `run_tls` returns an error; a
certificate file that is missing is reported as one that does not parse; and
certificate and key are read at two moments, so that a renewal in between gives
a pair that does not match, which `build` itself does not notice.

The encode sets of `raw.rs` have no backslash, so a segment that holds one is
written with it, in a link and in a redirect. RFC 3986 does not allow the
character in a path and this server reads it as part of the segment, but browsers
follow the URL standard, which takes it for a slash. `WrittenUrlsAreAbsolutePaths`
therefore promises an absolute path in the reading of RFC 3986 and says when the
two readings of its beginning may differ; that every address written is a path of
this server for a browser as well is not claimed, and would not hold. The model's
browser splits paths at slashes only, and leaves dot segments as they are.

Two smaller exceptions are part of the properties, where the code defines them:
a query of one pair without key and value reads as an empty query
(`LinkReachesItsRoute` in `Navigation`), and a variant that gives one key two
values can be rendered but not parsed (`KeysAreSingle` in `DerivedServer`).

## 6. What is not modelled, and the plan

Not modelled:

- The contents and headers of responses, and the templates. What matters of them
  is which response is given to which request; no property is about their text.
- The tokens the macro generates. `DeriveMacro` and `DerivedRoute` model which
  declarations it takes and what the generated functions do.
- The contents of certificates, and whether a key belongs to one, which this
  code does not look at.
- Graceful shutdown, which the crates never ask for, and the alert that closes a
  TLS stream.
- The warp example, whose filter is the one of `routetype-warp` with a redirect of
  its own, and the tests, CI
  and assets.

`NavigationText` with `Stack = "warp"` over addresses without a question mark is
by definition the same as hyper's, so there is no run for it.

No safety property of the runs is left to be proved. What could be added are
finer models of what is taken as a unit here: the data of a body, which only
pass through, and generic enums.
