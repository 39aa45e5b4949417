# Traffic Deck: verification project

TLA+ models of Traffic Deck's gateway and of the clients that depend on its
protocols, model-checked with TLC on small instances, with theorems checked by
TLAPS. Paths below are relative to `src/`; `PROJECT.json` maps every definition
to the lines it models.

## 1. The system

Capture sources (Python) record traffic and send it to the **gateway** (Go),
which decodes it while the capture runs, stores it in one SQLite bundle per
session, and serves it to viewers (a TUI and an MCP server).

```
 capture source --OpenSession / UploadCapture / CloseSession--> IngestService
 mitmproxy      --PushFlows-----------------------------------> IngestService
                                                                    |
      pipe -> live decoder -> live hub (memory) --flusher--> session bundle (SQLite)
                                  |                               |
 TUI, MCP  <--StreamFlows / StreamMessages--  ViewerService  --QueryFlows, GetFlow ...
 gateway  --StartCapture / StopCapture--> source manager --> capture source
```

### Components, their state and operations

| Component | State | Operations | Interacts with |
|---|---|---|---|
| live hub (`server/live.go`) | per live session: retained flows and bodies, unflushed frames, dirty / pending / stored sets, subscribers, closed flag | start, startPassive, write, stop, onFlow, publish, publishMessage, subscribe, reads | decoder goroutines call it; the flusher drains it; viewers read it |
| flusher (`server/flush.go`) | the batch in flight, flushErr, the loop's goroutine | tick, flush (take, write, commit), failFlush, stopFlusher | store, hub, onFlushError |
| ingest (`server/ingest.go`) | finalizing set, open uploads, framers and claimed flows of the pushed path | OpenSession, UploadCapture, PushFlows, CloseSession, ForceCloseSession, finalizeSession, onFlushError | hub, store, importer, source manager, custom decoders |
| store (`store/`) | catalog (status, counts), pool of open bundles, bundles (flows, messages, blobs, annotations) | InsertFlowWrites, InsertMessages, ReplaceFlows, FinishSession, DeleteSession, QueryFlows, reads, annotations | everyone |
| object store and bundle files (`objstore/`, `bundle/`) | blobs by hash, archives | Put, Export, Import | store |
| viewer service (`server/server.go`, `query.go`, `msgquery.go`) | per stream: shown set, missed flag, sent ids | QueryFlows, StreamFlows, StreamMessages, GetFlow, GetBody, ListMessages, ... | store first, hub second |
| importer (`importer/`) | none | Import, Finalize, RedecodeCustom | tshark, store |
| live decode of TCP (`decode/livetcp.go`, `livesocks.go`, `tlsdecrypt/`) | per connection: sniffer, tunnel, TLS decryptor, parser; report of what was not decoded | a packet, a key-log line, end of the capture | feeds the parsers |
| live HTTP (`decode/livehttp.go`, `livehttp2.go`, `livews.go`, `contentencoding.go`) | per connection: byte streams, the exchange or the HTTP/2 streams, frame numbers | a goroutine per connection or direction | reports flows and frames to the hub |
| QUIC and HTTP/3 (`quicdecrypt/`, `qpackdec/`, `decode/livequic.go`) | connections by id, reassembly, packet numbers, buffered datagrams; QPACK table, blocked sections, flows | a datagram, a key-log line, end of the capture | reports flows to the hub |
| batch decode (`decode/decode.go`, `stitch.go`, `streams.go`) | none, one pass | decode a finished pcap | tshark |
| custom decoders (`decoders/`) | per flow and direction: buffered bytes | claim, frame, render | pushed path, batch decode |
| filter language (`filter/`) | none | parse, match, hints | paging, streams, timelines |
| source manager (`sourcemgr/`) | spawned sources by service, captures, auxiliary services | ensure, spawn, StartCapture, StopCapture, Close, services | capture sources, modules |
| capture SDK (`capture/capture_sdk`) | one capture: backend, upload thread, session; serve mode: tracked captures | start, wait, stop, upload, serve, shutdown | gateway |
| sources (`capture/capture_*`) | browsers, devices, tcpdump, mitmproxy's flows | launch, teardown, push | SDK, gateway |
| TUI (`tui/`) | the pane: rows, order, count, cursors, subscription | load page, ingest, drop, follow, reconnect | viewer service |
| MCP server (`mcp/`) | search cursor | tools over the viewer and control services | viewer service |
| gateway process, config, logging, updates | configuration, files | start, stop | |

### What is hard here

- **Two homes for the data.** A flow lives in the hub, in the bundle, or in both,
  and readers look at one after the other while the flusher moves it.
- **Two locks in one callback.** `onFlow` retains a snapshot and publishes it in
  two critical sections; a flush fits in between.
- **Three ways to end a session**, which race each other, a failing flush loop,
  and a source that is told to stop by the gateway it is about to call.
- **Failure half way**: a flush whose second transaction fails, a finalization that
  fails after it took the session out of the hub, an import or a delete with
  rows, files and catalog apart, a gateway that dies.
- **Lossy subscriptions**: bounded channels that drop, a rate-limited resync, lost
  connections, pages that arrive late, sessions that close during a subscribe.
- **Paging a moving list** by keyset cursors, over a bundle and an unflushed tail.
- **Decoding beside the capture**: two directions and a growing key-log in any order,
  records that have to wait for a key, parsers running behind the packet loop,
  datagrams late, twice or missing, header tables that evict what a section
  still refers to.
- **Processes with two owners**: a source spawned by two callers at once, a capture
  that ends by itself while somebody stops it, a shutdown in the middle.
- **Handlers that outlive their clients**: a push abandoned by its timeout goes on.

### What makes each part correct

- flusher: no byte leaves memory before it is stored, no frame is stored twice or
  dropped, every published flow is in the bundle or in the merged tail, a recorded
  session is complete; flows do reach the bundle, and stopping ends.
- lifecycle: one analysis per capture; CLOSED means recorded; nothing is written
  after a terminal status; calls return; a broken upload is reclaimed.
- subscription: the pane converges to what a query would answer; no silent drop;
  the end of a session is told.
- reads: what was published can be read, at any moment of a flush; a timeline is
  complete, in order and without duplicates.
- paging: a walk visits every row once, cursors exist exactly when there is more,
  rows are inside the window, the count is right or says that it is not.
- store and bundles: a row's bytes exist; an archive stands alone; catalog, pool and
  disk agree about which sessions there are.
- pushed path: what was acknowledged is stored, the frames of a claimed stream are
  those its bytes contain, whoever pushed them; a claim is kept.
- transport decode: a direction's plaintext is a prefix of what was sent, whatever
  the order of packets and keys; what could be decrypted was; what could not is
  reported, and only that.
- application decode: a flow is one exchange, a body called final is whole and does
  not change again, every header section means what its encoder said.
- sources: no process without an owner, a stop reaches the process that runs the
  capture, closing ends.
- filter: order of evaluation and laziness do not change the meaning, and a flow is
  shown or counted as hidden.

## 2. The modules

Each module keeps one action per critical section, transaction or message, and
abstracts data to what the properties distinguish.

| Module | Models | State and actions |
|---|---|---|
| `LiveFlush` | `server/flush.go`, the writing half of `server/live.go`, `InsertFlowWrites` / `InsertMessages` | `dec` is the decoder's own Flow, `dflows` the retained snapshot, `flows` the published one; `dirty`, `pending`, `stored`, `quoted` are the hub's books, `fpc`, `writes`, `nmsgs` a flush in flight, `row` and `saved` the bundle. A body is its length, a frame its number; `promised` is a history of what was reported of a body until it was called done. `OnFlow` and `Publish` are the two sections of onFlow; `FlushBegin`, `InsertFlowWrites`, `InsertMessages`, `FlushCommit` the phases of a flush |
| `SessionRecord` | what `flush.go:1-10` and ADR-0011 promise of a live session | the abstract specification `LiveFlush` implements: reports and frames arrive, readers can have them, a bundle fills up, the session settles or fails; what came late, after a body was called done, may go again. No hub, books or batches |
| `SessionLifecycle` | `server/ingest.go`, `hub.stop`, `KeylogCapture.stop` of the SDK, `importer.Finalize` | `pc` says where each of the three calls is in finalizeSession; the flush loop, the decode goroutine, the upload and the source are one variable each. What LiveFlush does in detail is here `tail`, `liveRows`, `batches` |
| `FlowFollow` | `StreamFlows`, the hub's subscriber channel, the TUI pane in follow mode | versions of flows and whether they match; the channel `ch`, the `missed` flag, the `shown` set, the `wire`, the pane's `rows`, `order`, `matched`, and the page in flight |
| `LiveReads` (extends `LiveFlush`) | `GetFlow`, `GetBody`, `GetMessage`, `QueryFlows`, `ListMessages`, `StreamMessages` of an open session | a call in two steps, bundle and hub, between any two steps of LiveFlush; `owed` is a history of what was readable when it arrived |
| `FlowPaging` | `store.QueryFlows`, `mergeUnflushed`, a reader stepping by cursors | `bundle` and `tail`, a `page` with cursors and count, and the walk so far |
| `CaptureSources` | `sourcemgr/`, the calls of `server/control.go`, the serve harness of `capture_sdk/source.py` | `proc` is what is at the other end of each connection; `call` where each gRPC call is, with the values it read under the lock; `conns`, `session`, `services` the manager's tables; each capture's life at its source (running, asked to stop, ending by itself, closed, failed in its teardown), what the harness tracks, and the list of a source in shutdown |
| `SessionBundle` | `store/store.go` (pool, blobs, delete), `store/bundle.go`, `store/annotations.go`, `bundle/`, `objstore/` | a database is a numbered object with rows, references, tags and spilled blobs; the catalog, the pool of handles and the directory name objects independently. A call (write, tag, delete, export, import) is cut at every point between transactions and file operations, and a step of it may fail |
| `PushIngest` | `PushFlows`, `startPassive`, claims and framers, `CloseSession` of a pushed session, the hooks of mitmproxy's addon | the script of each flow, its push in flight, handlers that go on alone, bundle rows and published events, bytes buffered by a framer |
| `MaxFrames` | `decoders/max/max.go` | the LZ4 block expansion and the MessagePack walk, one token or value per step, over every small input |
| `LiveTransport` | `decode/livetcp.go`, `livesocks.go`, `pcapguard.go`, `undecoded.go`, `tlsdecrypt/` | a wire is the units (records, handshake messages, cleartext) both sides sent; packets of one or more units of either side, key-log lines and record errors come in any order; sniffer, tunnels, TLS states of both directions, the report |
| `LiveApplication` | `livehttp.go`, `livehttp2.go`, `livews.go`, `contentencoding.go` | byte streams the packet loop fills, one program counter per parser goroutine, the exchange in hand, HTTP/2 streams and frames |
| `QuicConn` | `quicdecrypt/`, `handleUDP`, `quicSession.close` | datagrams with displacement, duplicate and loss; connection ids, CRYPTO and STREAM reassembly, key wait, capped buffers and their replay, packet numbers by window |
| `LiveHttp3` | `decode/livequic.go`, `qpackdec/` | streams in pieces of any size; the QPACK table with eviction, absolute and relative indices, blocked sections and their retry, flows and their end |
| `FilterLanguage` | `filter/`, the lazy loaders of `store/query.go`, the views of `server/` | tokens to terms to a sorted predicate, evaluated term by term on a flow in the bundle, in the tail, in an event, or on a frame |
| `MC*` | TLC instances of the above; `MCTcp` and `MCQuic` put the two layers of a connection together, `MCPushIngest` the pushes and the codec | |
| `LiveProofs`, `SessionLifecycleProofs`, `CaptureSourcesProofs`, `SessionBundleProofs`, `FlowPagingProofs`, `PushIngestProofs`, `FilterLanguageProofs` | the theorems; `LiveProofs` has those of `LiveFlush` and `LiveReads` | |
| `FoldFacts` | what a left fold over a sequence computes | the fold's step and an invariant of it are parameters of the module, to be given by an INSTANCE |

**How they compose.** `LiveReads` runs the readers against the flusher.
`LiveFlush` instantiates `SessionRecord` with a refinement mapping (`Record`): a
body is readable as long as the retained snapshot or the row's blob has it (`Reach`),
and the outcome is "recorded" when the final flush committed with no error
(`Outcome`). `SessionLifecycle`, `FlowFollow` and `FlowPaging` use the flusher and
the query as one step; `LiveFlush` and `LiveReads` take those apart. `decode.go:75-79`
has decoders promise that a body reported done does not change again. They do not
keep it (section 5), so `LiveFlush` lets bodies grow after that report and promises of
them what was reported up to it (`promised`); that a TCP flow only grows then is
`DoneOnlyGrows` of `LiveApplication`. A connection's two decode layers meet in an interface, the bytes of a
direction in order and once: `PlaintextInOrder` and `StreamsAreWhole` are what the
lower layer guarantees and what the upper layer starts from, so `MCTcp` and `MCQuic`
let a behaviour follow one layer with the other at rest rather than their product.

## 3. The runs

A passing run shows its properties on every reachable state of the instance. The
violating run states a sentence of the repository and shows a behaviour of the code
that contradicts it.

| Run | Configuration | Bounds | What it shows |
|---|---|---|---|
| `flush_safety` | `LiveFlush_safety.cfg` | 1 flow, 3 reports, body 0..2, 2 frames, write failures | `NoBodyLost`, `FramesExactlyOnce`, `MergeShowsEveryFlow`; the refinement `ImplementsRecord`; `FlusherKeepsUp`: flows and settled bodies reach the bundle, stopping ends |
| `lifecycle_endings` | `SessionLifecycle_endings.cfg` | worlds with no, one or all of the failures, 1 crash, 1 force-close | one analysis whatever races (`DecodedOnce`), `ClosedIsRecorded`, nothing written after a terminal status (`TerminalIsQuiet`), every call and a failed loop end (`NobodyHangs`), `BrokenUploadReclaimed` |
| `follow_viewer` | `FlowFollow_viewer.cfg` | 2 flows, 2 versions, channel 1, wire 1, 1 lost connection | the pane converges to the gateway's answer, drops are made up for, the end is told |
| `follow_retract` (violation) | `FlowFollow_retract.cfg` | 1 flow | a row that came from a query is never retracted |
| `reads_consistent` | `LiveReads_consistent.cfg` | 1 flow, 3 frames, channel 1, write failures | a published flow can always be fetched; a followed timeline is ordered, without duplicates, and complete but for the frames a full channel dropped |
| `paging_exact` | `FlowPaging_exact.cfg` | 4 flows, pages of 1 and 2, every filter; open and closed session, the closed one with every window | forward walks are exact while the session grows; back walks, cursors and window of a closed session are exact |
| `sources` | `CaptureSources_shutdown.cfg` | 2 calls, 2 connections, 1 session, 1 service; a shared built-in source and a module | `NoStray`, `CapturesAreStopped`, `TablesFollow`, `ShutdownEnds` |
| `tcp_decode` | `Tcp_decode.cfg` | TLS 1.2 and 1.3, plain, HTTP and SOCKS tunnels, packets of up to 2 units, 1 record error; then HTTP/1, HTTP/2 and WebSocket exchanges, among them an interim response, an answer the client cancels and an upload that outlasts its answer | `PlaintextInOrder`, `DecryptedWhenKeyed`, `UndecodedHonest`, `ExchangesWhole`; a done flow only grows and every parser returns (`ParsersReturn`, with `DoneOnlyGrows`) |
| `quic_decode` | `Quic_decode.cfg` | 7 connections, datagrams up to 2 places late, 1 duplicate, 1 loss, a buffer of 3; 4 HTTP/3 connections with a table of 2 entries | `StreamsAreWhole`, `NothingIsMissed`, `KeylessIsAccounted`, `SectionsCount`, `BodiesAreWhole` |
| `bundle` | `SessionBundle_consistent.cfg` | 2 concurrent calls of 3, 2 sessions, 2 flows, 1 body, 1 failing step | `BlobPresent`, `BundleStandsAlone`, `OneStory` |
| `push` | `PushIngest_all.cfg` | a claimed stream and a WebSocket, 1 trouble (failed write, timeout, lost push, restart); codec inputs of 5 bytes | `PushesAreStored`, `FramesWhole`, `FramesAreJudged`, `StepsKeep` |
| `filter` | `FilterLanguage_meaning.cfg` | every expression of up to 3 tokens and some longer ones | `ExpressionIsMeant`, `FoundOrCounted` |

**Why the bounds suffice.** The flusher's actions touch one flow each; one flow with
three reports covers written / stored / changed again. Three versions and two
lengths tell "grown", "same length" and "first" apart. Two frames let one be
appended behind the batch that trims the other. What a batch of several flows adds,
one transaction for all of them, is covered by the theorems of section 4, which hold
for any set of flows. The lifecycle has one session and three calls, which is all
there are; a force-close and a crash give each call a predecessor and a
successor. A channel of one makes every second event a drop, and three frames let
one be sent after a dropped one. In paging, four flows and pages of up to two give
exact, short and overfull pages in both directions, next to a filter that hides any
subset. Two connections let a call hold one that another call replaced in the
table. Of bundle calls three suffice for a handle taken before a delete and used
after an import re-created the id. A QPACK table of two entries wraps and evicts with three
inserts; a displacement of two puts any datagram of a flight before any other of
it. A codec input of five bytes holds a token, a length and a match that overlaps
its own output. What the bounds leave out: in `sources` one service process, so that
a restart under the same name is not in the run (two exceed its time; `NoStrayService`
in section 5 is what two show); in `push` a stream whose host name is known from its
first push, the other scripts being covered by `ClaimsKept`.

**Worlds and switches.** Constants like `Worlds`, `MayCrash`,
`MaxFaults` or `MaxTrouble` name adversities. `Worlds` is a set from which a
behaviour picks one, so that one run checks several; properties that a fault really
breaks are stated for the worlds without it (`Steady` in `SessionLifecycle`,
`contended` in `SessionBundle`), and section 5 says what happens with it.

**Fairness.** Weak fairness of goroutines and threads that can run: the flusher's
ticker and phases, the decode goroutine's drain, a call inside the gateway, the
stream handler, the pane's event loop, a source that began to stop, the packet loop
and the parsers. The Go and Python schedulers guarantee it. In `CaptureSources` it
is less: the grace period of a source ends, shutdown steps follow one another, and
a reaper runs; `ShutdownEnds` holds although calls, sources and services may do
nothing for ever. Assumed for nobody: that traffic arrives, that a capture is
stopped, that a connection breaks, a key is logged or a user force-closes. In
`SessionLifecycle` a source that is gone closes its channel, which ends its upload.

**Deadlock** is checked where states of rest are explicit actions (`Terminated`,
`Quiescent`, `Idle`, `Finished`, `Rest`) with the guards that make them rest. The
decode, bundle, push and filter runs end when their capture, script or budget of
calls is used up, and say so with `CHECK_DEADLOCK FALSE`; that no parser is left
waiting is `ParsersReturn` there, a liveness property.

## 4. What is proved

TLAPS proves these for every value of the constants that satisfies the modules'
assumptions (`BoundsAssumption`, `SwitchAssumption`, `LifecycleAssumption`: naturals,
booleans, and worlds that are combinations of the switches; `ReadAssumption`: read calls
are some of the six kinds, a channel has a natural capacity; `SourcesAssumption`: there
is a built-in source, none is also a module, and who serves a source serves itself;
`StoreAssumption`: markers like `None` are no data, and at any time finitely many calls
and sessions exist, so that a new database always finds a number that is not in use;
`PushAssumption`: finitely many flows, whose pushes are flows and frames, a flow before
its frames, as the addon's hooks run; `StreamAssumption`: what the two peers of a claimed
flow send each other is frame after frame, cut into chunks anywhere, and a source does
not forget a name it has; `PagingAssumption`: the bounds are positive, a session is open
or closed; `FilterAssumption`: flow filters are asked of pages and streams, message
filters of timelines, tokens are words with or without a `!`, no word is empty, an operator is no term, and what a query or a
record says yes or no to is a Boolean).

- `LiveProofs!TypeCorrect`: `Spec => []TypeOK`. Lemmas give the type of each
  write, of a row's reference and of the trimmed frames.
- `LiveProofs!MergeComplete`: `Spec => []MergeShowsEveryFlow`, any flows, bounds
  and failures. The property is about the books (`pending`, `stored`) and the bundle;
  that a flow gets into the books only after its row was written depends on the batch
  in flight. The inductive invariant `TailInv` adds: a flow the flusher may meet has
  a snapshot, what phase 1 took phase 2 writes, what phase 2 wrote has a row.
- `LiveProofs!BodiesKept`: `Spec => []NoBodyLost`, also when bodies grow after the
  report that called them done.
  `BodyInv` has an unconditional part (`OrderInv`: a snapshot is the decoder's Flow
  with or without its bytes, hub.stop's order, owed and stored flows are apart, a
  final write landed), a part that ties `promised` to the decoder's Flow
  (`PromiseInv`) and a part about bytes that holds until a panicked decode reports to
  a closed session (`Kept`): a flow whose bytes are gone is stored with a row that
  holds what was promised (`GoneIsStored`), a final write has it too, and a re-write
  quotes the reference. Of what is reported after done no such thing is true:
  `NothingLateIsLost` in section 5.
- `LiveProofs!FramesOnce`: `Spec => []FramesExactlyOnce`, for any flows and any
  number of frames, with frames arriving while a batch is written and any write
  refused. `FramesInv` says where a frame is: what is in memory or saved was
  accepted, what was accepted is in one of the two, memory holds none twice, and the
  frames both in memory and saved are exactly the batch about to be trimmed.
- `LiveProofs!Implements`: `Spec => ImplementsRecord`, the refinement of
  `SessionRecord` by `LiveFlush`. `Simulation` maps each step: `OnFlow` is `Hear`,
  `Publish` is `Show`, phases of a flush are `KeepFlows`, `KeepFrames` or stutters; a
  commit is a `LoseLate`, which leaves readers all that was promised
  (`CommitLosesLate`) and is a stutter unless something came late, or `Settle`
  (`CommitSettles`). Its invariant `RefInv` joins the three invariants above with `RecordInv`: nothing in
  hub or bundle is ahead of the decoder, rows only advance, the disposition of
  a write agrees with the books, a final flush takes all; a told flow is in
  the bundle or on its way (`Tracked`), its bodies are stored or owed (`BodiesOwed`).
  One lemma per part shows that every step keeps it.
- `LiveProofs!RecordIsComplete`: from the same invariant, `Spec =>
  []RecordedComplete`: a recorded session has every published flow at the version
  viewers were told, its bodies as they were when called done (unless a parser outlived
  the decoder) and every frame. It is stated of the detailed state and not through the mapping.
- `LiveProofs!FlowIsFound`: `ReadSpec => []FlowFound`. GetFlow asks the bundle and
  then the hub. What makes that right is that the hub asks for any published flow,
  written or not, and that no flush takes a published flow's proto away (`FlowOwed`);
  the property speaks of sessions that are still live when the answer is there.
- `LiveProofs!TimelineFaithful`: `ReadSpec => []TimelineIsFaithful`, for any flows,
  frames and channel. `FlushOrder` says of the hub that frames of a flow lie in order,
  that the bundle has each flow's frames from the first on, and that the final flush takes
  all. `ReadInv` says where a frame is that the reader has not sent: gathered, in the
  bundle, in its channel, or dropped from it; that the channel is in order and ahead of
  what was sent; and that only a closed channel ends the stream. That sorting what the
  two places gave yields an order without gaps is proved by counting (`Cardinality`).
- `FlowPagingProofs!WalksExact` and `FlowPagingProofs!PagesHonest`: `Sharp` implies
  `Spec => []WalksAreExact` and `Spec => []PagesAreHonest`, for any number of flows, page
  size and filter, and any window on a closed session. `Sharp` names what has to be so, and
  section 5 what happens where it is not: keys identify flows, no query meets the scan
  cap, and only a session without a tail is asked with a time window. The proof goes in
  three layers. A finite set has one list for each of its orders (`InOrder`, by induction
  on the size: `LastOf` takes off the last element); so the scan, the reversed scan and
  the stable sort are lists of known content, order and length. A page is the start, or
  the end, of what there is (`IsStart`, `IsEnd`: as many rows as fit, none left out
  between them), and it remains so when the tail is merged into a bundle's page that was
  already cut (`MergeStart`, `MergeEnd`); the cursor says whether that is all
  (`QueryForward`, `QueryBack`). Then `WalkInv`: the rows so far are in order and hold
  all of the start up to the row where the cursor stands, which still matches; what
  matches only grows, although flows move between hub and bundle.
- `SessionLifecycleProofs!LifecycleTypes`: `Spec => []TypeOK`, any number of crashes
  and force-closes.
- `SessionLifecycleProofs!ClosedMeansRecorded`: if no call finalizes a session before
  its upload begins (`~w.late` for the worlds considered), `Spec =>
  []ClosedIsRecorded`, with any failures and crashes. `RecordInv`: one call at a time
  is past the door; the source closes once and the upload breaks once; a decode
  outside the hub is being waited for; who is past hub.stop sees no hub session; what
  is persisted leaves no tail.
- `SessionLifecycleProofs!OneAnalysis`: under the same assumption
  `Spec => []DecodedOnce` for any number of force-closes and with failing flushes.
  `DecodedOnce` itself speaks of worlds without store and catalog failures and
  crashes. `OnceInv` adds that a session that is not in the hub any more is
  terminal or attended by the call that took it, that a failed flush is marked before
  anybody gets past stopFlusher, and that a call without a live session finds no
  capture. Each exclusion is needed (`Once` in section 5).

- `SessionLifecycleProofs!TerminalStaysQuiet`: under the same assumption `Spec =>
  TerminalIsQuiet`, an action property, for any number of force-closes and with failing
  flushes. It needs `OnceInv` and `QuietInv`: a finalized session's flush loop is not
  running, a call that is still on its way to the final flush of such a session finds
  that a flush had failed, and a force-close falls back on the catalog only when the
  session was finalized by another.
- `CaptureSourcesProofs!NothingLeftBehind`: `Spec => []NoStray`, for any number of
  racing calls, sources, modules and connections. `TypeInv` says what a handler has in
  hand at each program counter (`SourcesTyped: Spec => []TypeOK` follows). `HeldInv` adds
  what the second section of ensure relies on: the connection a call carries was made for
  its own key, no two calls carry one, and a source that has not printed its ready
  line is not up, so that a call whose spawn failed lets go of nothing that lives.
- `CaptureSourcesProofs!StopsReachTheSource`: `Spec => []CapturesAreStopped`. The order
  "track, then answer, then note the owner" is in the invariant `StopInv`: a handler that
  has its connection has the cached one; a capture whose start is being answered runs
  there; a capture the gateway knows, or is about to note, and that still runs, is
  tracked while its source runs, is on the list of a source in shutdown, and that source
  has not left. Any call, death or shutdown may come between two of its steps, and a
  stop may raise, give up, or lose its answer. What the theorem promises is that the
  capture was asked to stop; that it was closed is not true (`ClosedAtExit`, section 5).
- `CaptureSourcesProofs!ForgottenOnlyWhenAnswered`: `Spec => ForgottenWhenAnswered`, the
  half of `TablesFollow` that is about single steps: if its source lives, a session whose
  capture still runs leaves the manager's table only by a stop call that failed without
  an answer. `ForgetInv` adds what a handler means at each program counter: one whose
  stop was taken or answered was asked to stop that session, and found it at the
  connection the capture was started at, and one that is about to note a session is the
  only one to know it.
- `SessionBundleProofs!ReferencesLead`, `BundlesStandAlone`, `StoryIsOne`: `Spec =>
  []BlobPresent`, `[]BundleStandsAlone` and `[]OneStory`, for any number of concurrent
  calls, sessions, flows, bodies and definitions, with any number of failing steps. The
  three follow from one invariant, `BundleInv`. Its parts: what a call has in hand at
  each step (`TypeInv`); an archive has one writer and is read only when it is finished
  (`OneArchive`); a database belongs to one session, whether it is at its path, in the
  pool or in a caller's hand (`Apart`); of every session that was not raced for by a
  deletion or an import, that a call of those kinds is alone with it (`Solo`), that each call's
  progress agrees with catalog, pool and directory, and what it has written so far is
  there (`Fits`), that the pool serves what lies at the path (`Served`), that references
  and assignments lead somewhere (`Intact`), and that catalog and disk agree but for a
  call that is between the two (`Matches`); and that what an import reads and an export
  has written is whole (`Reading`, `Archived`). The three properties speak of sessions
  that are not `contended`, as the code promises nothing of the others. That
  `NextGen` finds a free number is itself proved, by counting pool and calls
  (`NextGenIsFree`).
- `PushIngestProofs!PushesStored`: `Spec => []PushesAreStored`, for any flows and scripts
  and any number of timeouts, failures, lost pushes and restarts. Two parts of the
  invariant `PushInv` carry it. `Awaits` says what the addon's waiting is good for: of a
  flow no push of which was lost, timed out or failed, every handler but the last one is
  done, so that the insert of a flow cannot be overtaken by an older one of the same flow
  (`Kept`) and no frame is shown before its flow (`LiveCounts`). `OneLive` says that
  before the close no handler holds a live session other than the hub's, and that a fresh
  one is always to be had. `OnTheWay` follows the messages from the insert to the
  fan-out, `Analyses` counts analyses against restarts.
- `PushIngestProofs!FramesAreWhole`: `Spec => []FramesWhole`: the recorded messages of
  a claimed flow with no trouble and no restart are, in each direction, the whole frames
  of the chunks pushed so far, wherever chunks cut them. The framer is a fold over the
  cells of a chunk. `FedOn` says that feeding it chunk by chunk is feeding it the stream,
  `FedIsWhole` that what a stream of frames makes it give are those that have ended.
  `FrameInv` says of each direction that the buffer, together with the messages recorded
  or still in the hand of the one handler at work, is what feeding it all the pushes
  handled so far gives (`InStep`), and that whoever decides about a flow has decided
  before its first push is answered (`Ready`).
- `PushIngestProofs!ClaimsKept`: `Spec => ClaimIsKept`, an action property, with restarts
  and late pushes. `ClaimInv` says that the row a handler is about to store agrees with
  what was decided of the flow (`RowsDecided`), on what grounds it was decided
  (`TcpDecided`, `WsDecided`), and of a stored claim that its decoder is in force or,
  lost in a restart, will be taken again by whichever push comes first, as only pushes
  after one with the name are still to come (`Lasts`, `Again`). This is where
  `StreamAssumption` is needed: a source that forgot a name would give the raw row back.
- `FilterLanguageProofs!ExpressionsAreMeant` and `FilterLanguageProofs!PagesFindOrCount`:
  `Spec => []ExpressionIsMeant` and `Spec => []FoundOrCounted`, for expressions of any
  length, any words, records and patterns, on every view, with the flusher moving the
  flow at any moment. `FilterInv` has five parts. `ParseInv`: what was read so far,
  spelled out, is the tokens before `at` spelled out, and every operator among them that is
  no argument is a bare term, so that the advice is due. `TermsInv`: the terms are the
  parsed ones, first as written, then by cost (`ByCostSorts`: the stable sort loses none,
  adds none and orders them). `ViewInv`: as long as the flusher has not run, a stored
  view is of a flow in the bundle with the reference its row had, and the tail's of one
  whose bytes are still in memory. `MatchInv`: the terms before `at` have passed, and
  whatever was loaded was paid for by all cheaper ones. A flush in between may change what
  a body term says, but no other (`EvalStays`), so cheap terms stay passed. Its heart is `EvalIsTruth`: a term that the
  view is not blind to says on it what it says of the record, although the second
  direction of a body is read only when the first does not match (`ReadBySome`).
  `PageInv`: what a page has counted before the verdict, and that it is `counted` after it.

The proofs are by induction over one step per action; the invariants were checked
with TLC first.

Only model-checked: the properties of every module other than `LiveFlush`, `LiveReads`,
`SessionLifecycle`, `CaptureSources`, `SessionBundle`, `FlowPaging`, `PushIngest` and
`FilterLanguage`, and all liveness: `FlusherKeepsUp`, `HooksReturn`, `NobodyHangs`,
`BrokenUploadReclaimed`, `ShutdownEnds`, `ParsersReturn`, what the pane converges to,
and the half of `TablesFollow` that says that a dead service does get off the list
(`DeadServiceUnlisted`). Liveness under fairness stays with TLC: the prover has no
`ENABLED` and no rules for fairness here.
The prover cannot apply the induction theorems of its library, which take an operator as
their parameter. There is a way round: the subsets of a finite set are well-founded by
inclusion, which is a theorem about a relation (`LeastSubset`), and a module may have
operators as parameters where a theorem may not. `FoldFacts` has the step of a fold and an
invariant of it as such parameters. It proves induction over the naturals (`Induct`),
that what every step keeps holds of the fold (`FoldKeeps`), and what the folds of a
longer and of a joined sequence are; `PushIngestProofs`, `FilterLanguageProofs` (for what
an expression spells and for the sort) and `FlowPagingProofs` (for `Induct`) instantiate
it. What the codec and the reassembly of a world's packets
compute for every input would need as much again for each: `MaxFrames`, `QuicConn`, `LiveHttp3` and the transport are checked over every input up
to a bound instead.

## 5. Where code and text disagree

One disagreement is a violating run, `follow_retract`: rows that came from a query are
never retracted (`StaleRowRetracted`; ADR-0012 says that they are).

The rest are observations met while modelling. Each is a property kept in its module,
outside the runs, with the sentence of the repository it states; checking it in the
named configuration (or, where none is named, in the run's own configuration with the
constants given) makes TLC report a behaviour that violates it.

| Property | Where | What happens |
|---|---|---|
| `NothingLateIsLost` | `LiveFlush_race.cfg` | what a body gains after BodyDone, reported between the two locks of onFlow while its batch is written, is released unstored |
| `StoredIsReleased` | `flush_safety` | a re-report brings released bytes back into memory until the session closes (`flush.go:213`) |
| `AnyLoopEnds` | `SessionLifecycle_deadlock.cfg` | with a catalog that refuses the ERROR mark, flush loop, source and CloseSession wait for each other |
| `AnyUploadReclaimed` | `lifecycle_endings`, `Worlds <- FlushFailure` | a session marked ERROR is refused before hub.stop and its broken upload stays in the hub |
| `BrokenUploadReclaimed` | same, `Worlds <- LateUpload` | a session finalized before its upload began is never taken out of the hub |
| `ForceCloseDefers` | same, `Worlds <- StoreFailure` | a force-close whose own finalization failed marks the session under another call, on the state it read at its start (`ingest.go:592`) |
| `CountDescribesBundle` | same, `Worlds <- NoFailure` | a refused force-close writes the flow count it read at its start |
| `Once` | same, `Worlds <- Crashing` or `StoreFailure` | after a restart or a failed finalization the pcap is batch-decoded on top of the live rows |
| `AnyConverges` | `follow_viewer`, `Worlds <- Closing` or `Delayed` | a close before the resubscription, or a late page, leaves an old view (ADR-0012 calls this part a narrowing) |
| `AnyDropMadeUpFor` | same, `Worlds <- Limited`, `MaxVer = 5` | a drop soon after a resync, before silence, is not reported |
| `Converges` | same, `Window = 1`, `Worlds <- Calm` | a flow off the window is counted twice |
| `EndsWithReason` | same, `Worlds <- Closing` | a close between waitForLive and subscribe ends in a panic |
| `BytesFound` | `LiveReads_bytes.cfg` | between the bundle read and the hub read the flusher moves the bytes past the reader |
| `PageComplete` | same, `ReadCalls = {"QueryFlows"}` | the same for a flow on a page |
| `ListComplete` | same, `ReadCalls = {"ListMessages"}`, `MaxFrames = 2` | stored frames hide unflushed ones |
| `FollowerEnds` | same, `ReadFairSpec`, `ReadCalls = {"StreamMessages"}` | a nil channel is followed for ever |
| `BackWalkIsExact` | `FlowPaging_back.cfg` | the row at the cursor is served twice from the tail |
| `ForwardWalkIsExact` | same, `ScanCap = 2`, `MaxLimit = 1`; or `DistinctKeys = FALSE` | a short page at the scan cap (`query.go:131`) strands the rest; live flows that share a microsecond share a key, and one is skipped |
| `CountIsHonest` | `paging_exact`, `Sessions = {"closed"}` | a filtered count shrinks from page to page |
| `RowsInWindow` | `paging_exact`, `Windowed = {"open"}` | the tail ignores the time window |
| `NothingOutlives` | `CaptureSources_late.cfg` | a spawn that is in flight when the manager closes leaves a source behind the gateway |
| `NoDeadConn` | `sources`, `MayCrash = {"spawned"}` | a source that died stays cached and is not started again |
| `NoGhostCapture` | `sources` | a capture that ended before it was tracked stays tracked (`source.py:204`) |
| `ForgottenWhenOver` | `sources` | a StopCapture that fails forgets the session all the same (`manager.go:405-409`): the capture may go on, and no later stop can name it |
| `ClosedAtExit` | `sources` | a source leaves in good order with a capture half closed: `_shutdown` goes on when `stop_capture` raises (`source.py:133-137`), and does not wait for a capture that is ending by itself |
| `NoStrayService` | `sources`, `MaxServices = 2` | two starts of one auxiliary service leave one without an entry |
| `AlwaysWhole` | `SessionBundle_torn.cfg` | writing the same large body again truncates the file an earlier flow refers to (`store.go:479`) |
| `ArchiveWhole`, `DeletedStaysGone`, `ImportedIsClosed` | `SessionBundle_torn.cfg` | so an export can copy half a body; a late call makes the directory of a deleted session again (`store.go:93`); an imported session keeps the OPEN status of its manifest (`bundle.go:188`) |
| `ListedHasBundle` | same, one session, one flow, `MaxCalls = 4` | of two imports of one id the one that loses removes the winner's files (`bundle.go:189`) |
| `AnyFramesWhole` | `push` | the addon abandons a push and sends the next one while the first handler still waits, so two handlers feed one framer in either order |
| `ClosedCountTrue`, `ClosedNotLive` | `push` | a push that passed its check before CloseSession writes rows after the count, or starts the session in the hub again |
| `OneAnalysisEver`, `RowIsLatest` | `push` | a restarted gateway does not know of the first analysis and creates another; an older push is written over a newer row |
| `UndecodedOrFlow`, `FlowsNotReported` | `tcp_decode` | a connection that carried data is neither a flow nor reported; one with a gap is both |
| `NextConnectParsed` | same, `Wires <- MCBody` | a proxy's 407 with a body hides the answer to the CONNECT that follows |
| `DoneIsFinal` | `tcp_decode`, as `Parsers!` | a body changes after BodyDone, against `decode.go:75-79`: an upload outlasts its answer (`livehttp2.go:373`), or the client's reset closes the request's side first (`livehttp2.go:225`, `380`) |
| `AllHeldIsSaid` | same | what is read after the last report stays with the parser |
| `AlwaysPaired` | same | an interim response takes the request, and the final one is paired with the next (`livehttp.go:191-241`) |
| `CancelExplained` | same | an answer the client cancelled half way reads as a whole one, when the server's goroutine ends the stream before the RST is read (`livehttp2.go:205-245`; `livebodydone_test.go:239-240` admits the race) |
| `EveryHelloKept` | `quic_decode` | after a HelloRetryRequest the second ClientHello is dropped (`quicdecrypt/conn.go:370`) |
| `NothingContiguousWaits` | `quic_decode` | a chunk that overlaps what was delivered stays buffered until more arrives |
| `BodyDoneIsFinal` | `quic_decode`, as `Http3!BodyDoneIsFinal` | request DATA after the response's end changes a flow that was reported done (`livequic.go:184`) |
| `BlockedNeverFlows` | `quic_decode`, as `Http3!` | a flow appears although its header section is still blocked |
| `SectionsInOrder`, `BrokenTableFails` | same, `Scenes!InterimOnly`, `Scenes!MalformedOnly` as worlds | a blocked interim response is applied after the final one; after a malformed instruction sections that refer to dynamic entries are still decoded |
| `EveryViewAgrees` | `FilterLanguage_search.cfg` | the tail and events give the filter a flow without headers, so a header term never matches there and its negation always does |
| `SearchSeesEveryState` | `FilterLanguage_search.cfg` | a body written and released between the scan of its row and its load is found in neither place |
| `HiddenCountedOnce` | `FilterLanguage_search.cfg` | a flow that moves from the tail to the bundle during a query is counted as hidden twice |

`PushIngest_hooks.cfg` checks `HooksReturn` and holds: every hook of the addon
returns, because each push has a timeout (one flow, weak fairness of hooks, handlers
and the close).

Seen in the code and not stated as properties: `Import` returns an error after
registering the session when the merge of definitions fails, though a comment calls it
non-fatal; `recordWSMeta` excludes only flows marked "TCP"; a QUIC Retry keeps
the original connection id; the 0-RTT buffer has no cap; a trailing lone `!` of a
filter is dropped, and a sole `!` compiles to a predicate with no terms.

## 6. Not modelled, and why

- **Batch decode and stitching** (`decode/decode.go`, `stitch.go`, `streams.go`,
  `prunepid.go`): one sequential pass over tshark's output for a finished file, whose
  pairing is tshark's own numbering. `SessionLifecycle` has it as one step that
  succeeds or fails. HAR parsing is the same kind of code.
- **Browser and device sources**: launching browsers, adb, Frida, tcpdump.
- **Generated protocol code, the Android test app, logging, configuration.**
- SQL, schema migration, hydration, protobuf and formatting: data, not control.
- Cryptography, Huffman codes and fingerprint hashing: pure computation out of TLC's
  reach; a record decrypts when it is opened with the key and the number it was
  sealed with.
- The SQL, stream, schema and statistics endpoints of ViewerService: single reads.
- The other screens of the TUI and tools of the MCP server: views without protocol
  state. The update checker: a version comparison and a download.
- Equal-length changes of a body (the code compares lengths; here a length is the
  body), the sharing of protobuf messages between publisher and subscribers, and
  orphaned content-addressed blobs after a rollback.
- A slow StreamMessages subscriber loses frames without notice. The drop is modelled
  (`lost`), but the code promises nothing about it, so no property does.
- A gateway that is killed while it writes a bundle: SQLite's log recovers the
  transaction, and `SessionLifecycle` has the crash between transactions.

## 7. What is left

The parts named "partly" in `PROJECT.json` lack operations without protocol state. What
would add most from here: the product of flusher and lifecycle in place of `tail` and
`liveRows`; the two layers of a connection run against each other, to
confirm that the cut between them loses no behaviour; and the pairing of `stitch.go` as
an operator against a reference definition over small inputs.
