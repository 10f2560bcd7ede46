# A TLA+ model of the platform gateway

The gateway accepts TLS connections, reads the server name and the ALPN offer
from the ClientHello, and either splices the connection to an enclave or
terminates TLS and proxies HTTP and sealed WebSockets to it. The routes come
from a management service that is polled. This directory holds TLA+ modules of
its parts, TLC configurations that check them on small instances, and TLAPS
proofs of their safety for every instance.

Paths below are relative to `src/`. `PROJECT.json` maps each definition to the
lines it models.

## Inventory

| Part | State | Operations | What makes it hard |
|---|---|---|---|
| route table (`internal/routetable`) | map of routes, version | `Update` with its two hooks, `Lookup` | readers run during the swap and between the swap and the hooks |
| route sync (`internal/sync`) | last sync, last error | `fetchOnce` on a ticker | failures, 304, a feed that changes under the request |
| quarantine tracker (`internal/quarantine`) | entries per host | `Track`, release, `CutHost` | handlers register while a cut takes the entries |
| front door (`internal/proxy`, `internal/sni`) | bytes read, chosen transport | hello loop, `send404`, replay | segmentation, buffer limit |
| splice (`internal/proxy`) | two copy loops | read, write, half-close, cut | deadlines per direction, blocked writes |
| terminated connections (`internal/terminate`) | request loop | `Handle`, `serveHTTP` | the route copied at accept time grows old |
| caches (`internal/terminate`) | proxies and mux pools by app and policy | `proxyFor`, `muxPoolFor`, `get`, `dial`, `Forget` | three locks, stale routes, a dial under a lock |
| sealed WebSocket mux (`internal/terminate/wsmux.go`) | streams of a connection, done flags | open, pumps, `readLoop`, `kill`, cut | five goroutines act on one stream |
| egress tunnels (`internal/tunnel`) | sessions per enclave | `Register`, remove, `Open` | reconnects, dials that time out |
| response writer (`internal/terminate/io.go`) | head written, buffer, deadline | `WriteHeader`, `Write`, `Flush`, `Hijack`, `flushClose` | one connection carries many responses, refusals and tunnels; any write can fail |
| process (`cmd/gateway`) | listener, closed flag, wait group, syncer | signal, `Run`, `Drain` | two goroutines close one listener; the sync stops before the drain |
| certificates, configuration, metrics | | | not modelled, see the end |

How they interact: the sync goroutine calls `Update`, whose hooks call `CutHost`
and `Forget` on the same goroutine. Handlers, one goroutine per connection, look
routes up, register with the tracker, and use the caches. The mux adds a pump, a
`readLoop` and a keepalive goroutine. `CutHost` starts a goroutine per entry.

What the parts should guarantee: traffic to a host is cut once it is quarantined
and no tracker entry outlives its traffic; no stream is relayed by nobody and
none stays open in the enclave without a relay; a cached connection is used only
for the route it was verified for, and is dropped with it; the table follows the
feed; dials take the newest session and leak no stream; no byte of a connection
is lost, repeated or reordered; a client is told where each response ends, and
never that a broken one is whole; shutdown waits for connections, and ends.

## Modules

| Module | Models | Source |
|---|---|---|
| `QuarantineCut` | table, tracker, spliced and terminated handlers | `routetable/table.go`, `quarantine/tracker.go`, `proxy/proxy.go`, `terminate/terminate.go` |
| `MuxStream` | sealed WebSocket streams on one mux connection | `terminate/wsmux.go` |
| `UpstreamCache` | proxies, mux pools, `Forget` | `terminate/terminate.go`, `terminate/wsmux.go` |
| `RouteSync` | polling and `Update` in detail | `sync/sync.go`, `routetable/table.go` |
| `TunnelRegistry` | tunnel sessions and dials | `tunnel/tunnel.go`, `tunnel/accept.go` |
| `Shutdown` | start and stop of the process | `cmd/gateway/main.go`, `proxy/proxy.go` |
| `Splice` | the copy loops | `proxy/proxy.go` |
| `Dispatch` | hello loop, choice of transport, replay | `proxy/proxy.go`, `sni/sni.go` |
| `Responses` | the request loop, the response writer and the client's parser | `terminate/terminate.go`, `terminate/io.go`, `quarantine/quarantine.go` |

Each of these has its theorems in a module named with the suffix `Proofs`; those of
`Dispatch` and `Splice`, the two halves of `handleConn`, are in `ConnectionProofs`,
for which the specification of `Splice` is called `SpliceSpec`. Every `MC*` module extends one of these and holds the values for TLC that a
configuration cannot express.

In all of them a goroutine has a program counter and an action is the code
between two points where another goroutine can act: a lock, an atomic load or
store, a channel operation, network I/O. Deferred calls are part of the action
that returns, in one step where nothing can come in between that a property
could see.

**QuarantineCut.** `table` maps hosts to a route state or absence; `hosts` and
`next` are the tracker's map and counter. `Update` swaps the table and leaves in
`toCut` the hosts whose hook is still to be called; `CutHost` takes a host's ids
into `closing`, one goroutine each, and `CloseEntry` moves an id to `cut`. Each
handler has its `pc`, its `host`, the `route` it copied and the `entry` it holds.
`announced` is a history variable: the quarantined hosts that were active before.
A splice goes accept, dial, track, check again, preface, copy; a terminated
connection goes handshake, then request after request: read, check, track, check
again, forward. A host appears under one spelling: both sides lower-case it.

**MuxStream.** Handler, pump, `readLoop`, `kill` and the cut as separate
processes over the shared map of streams, the done flag of each stream and the
two FIFO directions of the connection. `finish` closes done first and then runs
the close handshake, during which its caller waits. The enclave is external: it
opens a stream on OPEN, drops it on CLOSE and ignores frames of unknown streams.
A stream's outbound channel is known by its frames (`outbound`) and bytes
(`held`); `queued` is the atomic counter beside it, which `readLoop` raises after
it has sent a frame and the pump lowers after it has taken one (`hand`), so it
can be below zero. Which frame the pump takes is left open, as long as the bytes
add up: the bounds do not depend on it.

**UpstreamCache.** Keys are upstream, name and policy, as in the code; aliases
never reach the terminator, so the name is the host. A handler holds the
copy of the route it looked up. Pools and connections are numbered objects, so
that a handler can hold one that the maps have dropped. `get` keeps the pool's
lock while it dials. `Forget` keeps `muxMu` while it waits for pool locks.

**RouteSync.** A feed is a sequence of routes, so that two entries of one host
can disagree and the last one wins. `versioned`, chosen once, says whether the
service sends a version; if it does not, the version is `ComputeVersion`'s, made
of the fields the code hashes. `ComputeVersion` sorts by host with `sort.Slice`,
which keeps the order of equal keys only in short slices, where it sorts by
insertion: `RowsAssumption` limits the model to feeds of at most twelve routes or
without two routes of one host.

**TunnelRegistry.** Accepting, registering and removing sessions; `Open` with
the goroutine that calls `OpenStream` and the one that closes a late stream.
Time stamps are a clock that may stand still, since `time.Now` is taken before
the lock and two registrations may see the same instant.

**Shutdown.** The signal goroutine, the watcher and the accept loop. `Drain`
reads `listener` with no synchronisation with `Run`, so it may see nil even
after it was set: that read is a nondeterministic choice. The syncer runs beside
them, with one quarantine that the service may publish at any time: the signal
cancels the context of the sync, too. `Holding` are the connections that nothing
has to end, `Routed` those that a cut of the quarantined host ends.

**Splice.** Bytes are counted in units; send buffers are finite, writes have no
deadline. `tunnelled`, chosen once, says whether the backend is a tunnel stream,
whose `Close` is only a half-close: after a cut the enclave can still be read.

**Dispatch.** A hello is a number of units that arrive in any segmentation,
perhaps with bytes behind it. The parser's verdict on a prefix is truncated, a
server name and ALPN offer, or another error.

**Responses.** One keep-alive connection: the loop reads a request, answers it
itself (preflight, refusal) or hands it to the reverse proxy or to
`websocket.Accept` with a new writer, and finalises what they wrote. A response
is a sequence of tokens, a head that says how the body is framed and the pieces
of the body; `buf` is the writer's buffer, which may go out by itself at any
time, and `wire` what the client has yet to parse. Writes fail once the deadline
has passed or the connection is gone, and may get some of the tokens out.
External are the client, which follows the rules of HTTP/1.1, and
`httputil.ReverseProxy` as the writer sees it: interim responses, a head, pieces,
a copy that breaks off silently, an upgrade that hijacks. It removes hop-by-hop
headers from a reply, so `closeRequested` is never set. The CORS headers of a
head are the origins, the credentials flag and the Vary tokens; those of a 101
are not tracked, as no browser reads them.

## Composition and refinement

`RouteSync` instantiates `QuarantineCut` with no connections and is shown to
implement its specification (`ImplementsCore`): the detailed `Update`, with
versions, duplicates and hooks called one at a time, is the `Update` that the
quarantine argument relies on. `QuarantineCut` composes the table, the tracker
and both kinds of handler; `MuxStream` has the same table and tracker steps for
the third kind.

## Runs

Each run is named after its `.cfg`. Where a module has a fairness condition, one
run checks its safety and its liveness together.

| Run | Checks | States |
|---|---|---|
| `QuarantineCut` | what can reach a quarantined enclave is about to be cut; the tracker holds open traffic only; a lasting quarantine drains its host | 358 k |
| `MuxOne` | one stream under quarantine, failures and loss of the connection: it is cut, it ends, and the enclave holds no stream without a relay, but for the two gaps below | 243 k |
| `MuxShared` | two streams that ask for one key, with `kill`: a live relay is registered or about to end; queues stay bounded in bytes and frames; a stream is closed for overflow only when its browser is behind | 1.4 M |
| `Cache` | one entry per app; a socket rides a connection verified for its own upstream, name and policy; no pool is built for a policy that does not parse; apps on one upstream leave each other's pools alone; every lock has a holder that releases it | 1.9 M |
| `RouteSync` | after a sync the table is the feed; readiness does not come early; the table converges; `Update` implements that of `QuarantineCut` | 33 k |
| `TunnelRegistry` | the registry holds serving sessions; no stream without an owner; dials take the newest live session of their enclave; abandoned dials end | 126 k |
| `Shutdown` | a normal exit comes after the drain; a signal ends the process; a quarantine reaches its traffic while the sync runs | 3.5 k |
| `Splice` | nothing is lost before a FIN; a half-close leaves the other half alone; a cut, or silence, ends a splice | 368 k |
| `Dispatch` | the stream arrives intact; the choice rests on the whole hello and respects the route; the loop ends | 198 k |
| `Responses` | the client stays in step over all responses; what it takes for whole is whole; nothing is held back; the write deadline stays with its response; one CORS decision per response; a waiting client is released | 159 k |

Two runs state a sentence of the repository (quoted in `PROJECT.json`) that TLC
refutes:

| Run | Shows |
|---|---|
| `MuxDropped` | the CLOSE of a cut may be written before the handler's OPEN; the enclave ignores it and keeps the stream |
| `ShutdownFatal` | `Drain` can close the listener before `closed` is set: `Run` fails and the process exits with connections open |

### Gaps the models show

These are behaviours of the code that the models contain. The properties are
stated beside them, and say so where they make an exception.

- `OnQuarantine` is called for hosts that were active in the previous table. A
  host that is missing from one feed and returns quarantined keeps its open
  traffic (`table.go:188`). `QuarantineCutsOpenTraffic` speaks of `announced`
  hosts for this reason.
- After a failed write to the browser the enclave is sent no CLOSE
  (`wsmux.go:251`). `EnclaveStreamHasRelay` excepts this and the case of
  `MuxDropped`.
- A key that is used again at once can meet the enclave's CLOSE for the stream that
  had it before: `readLoop` ends the new stream before its OPEN is written, and the
  enclave then holds a stream without a relay. This takes two streams with one key,
  so `EnclaveStreamHasRelay` is checked and proved for streams with keys of their
  own (`OwnKeys`).
- A handler with an old copy of its route can re-insert what `Forget` dropped
  (`terminate.go:210`), drop the pool of the policy in force (`wsmux.go:303`), or
  dial into a pool that was dropped after it was looked up (`wsmux.go:140`).
- `ComputeVersion` leaves out mode, canonical name and PROXY flag: without a
  service version a change of these alone is not applied (`table.go:248`).
  `SyncedTableIsFeed` compares the hashed fields in that case.
- The idle deadline is per direction: a direction can time out while the other
  is busy (`proxy.go:426`).
- A frame of the mux may have 16 MiB and a stream's queue holds 8 MiB: a larger
  frame closes the stream of a browser that is not behind (`wsmux.go:535`).
  `OverflowMeansBehind` counts it as not fitting.
- `readLoop` waits in `finish` for one browser's close handshake, where its comment
  says that it never blocks on a slow browser (`wsmux.go:545`).
- A quarantine published after the signal is not seen while connections drain
  (`main.go:153`). `QuarantineReachesTraffic` speaks of the time before.
- An interim 1xx response counts as the head of the response: the final head is
  not written (`io.go:87`). A response to HEAD, a 204 or a 304 without a
  Content-Length is framed as chunked (`io.go:101`), which the client does not
  expect. `unframed` marks both, and `ClientStaysInStep` and `CompleteIsWhole`
  except them.
- A chunked body whose copy broke off is ended like a whole one (`io.go:148`);
  `CompleteIsWhole` excepts it. A body with a length is not affected.
- The write deadline is one of sixty seconds for a whole response (`io.go:109`), so
  it also ends the long streams that the comment above it speaks of.
- A public response open to every origin loses all its Vary tokens
  (`terminate.go:419`), and the error response of a refused sealed upgrade has no
  last chunk: the client learns its end from the close.
- A pending adopter hostname is refused, where the comment at `table.go:46` has it
  terminated.

## Bounds

- `QuarantineCut`: two hosts, two connections, `MaxTracked` = 2 registrations in
  all: two connections registered at once, or one that registers again while the
  close function of its first registration is still to run.
- `MuxStream`: one stream with every event in `MuxOne`; two in `MuxShared`, which
  contention for a key needs. `MaxWire` = 2 frames towards the enclave let a CLOSE
  pass before an OPEN. `MuxShared` has frames of nothing, of the whole byte limit
  and of more (`Sizes`, `MaxBytes` = 1) and a channel of two, so that either limit
  is met first. It uses symmetry and a `View` that leaves out the queue of a stream
  whose handler has returned, which nothing reads again; it checks no liveness.
- `UpstreamCache`: two apps, two handlers and two pools, so that one handler holds a
  pool the map has dropped. One connection value, which dies and is dialed again; a
  handler that finds it loaded tries another dial and falls back to it. A second
  live member of a pool, and so the limit `gwMuxPoolSize`, is not reached. Values
  that nobody holds are used afresh; the `View` identifies states that differ only
  in them, which no action or property reads. Symmetry is sound as no liveness is
  checked.
- `RouteSync`: twelve feeds of up to two routes over two hosts, with duplicates in
  both orders and each kind of change.
- `TunnelRegistry`: two enclaves, two sessions and two dials: a reconnect overlaps
  the old session, with equal or different time stamps (`MaxClock` = 1).
- `Shutdown`: three connections: one that ends by itself, one that only a cut ends,
  one that nothing ends.
- `Splice`: two units each way through a window of one, so that writes block.
- `Dispatch`: a buffer of three units and hellos of one to four, with up to two
  units behind them.
- `Responses`: two requests, of every kind, and bodies of up to two pieces: one
  response can go wrong and the next one meet what it left behind, and a body can
  break off after its first piece. Every framing is combined with replies without
  CORS headers, every CORS case with one framing; the two do not meet in the code.

Deadlock is checked except where the modelled part really stops: a mux connection
that has died, a splice that has returned, a hello that has been handed over, a
process that has exited, a connection that is closed.

## Fairness

Goroutines that can run do run (weak fairness of their actions), as Go's scheduler
has it. A Go mutex hands itself to a waiter that has starved, so the step that
waits for a contended one, `CutWrite`, is strongly fair.
Network reads and writes are fair only where the code sets a deadline or the
connection is closed: the read deadlines of a splice and of the hello loop, the
ping and the write deadline of a mux connection, the dial timeouts. Peers, clients
and the management service owe nothing, with one exception: `TableConverges` needs
a service that answers again and again (strong fairness of `NotModified` or
`Answer`), and so does `QuarantineReachesTraffic` (`FetchDone`). In `Responses` the
client reads what arrives, as a client that waits for an answer does, the idle
timeout ends a loop that waits for a request, and the proxy gets an answer from the
enclave or an error; `ClientIsReleased` is about what the gateway does then. The
transport sets no timeout for the head of a reply (`terminate.go:494`), so an
enclave that accepts a request and keeps silent is outside that property. In `QuarantineCut` handlers owe nothing at all; only the cut's own
goroutines are fair. `SignalEndsProcess` is stated for connections that end: a
tunnel session has no deadline, and `Holding` names what nothing ends.

## Proofs

Every safety property that a run checks is proved, for all values of the constants:
any number of hosts, streams, requests or feeds, any sizes and bounds. What is assumed of them is
named in the module that declares them and evaluated by TLC in its runs: bounds are
natural numbers, `None` is no other value, connections are finitely many
(`Shutdown`), feeds are sequences that name hosts of `Hosts` and a computed version
is not empty (`RouteSync`), the lengths of hellos are natural numbers (`Dispatch`).
One theorem has a hypothesis of its own: `EnclaveHasRelay` assumes `OwnKeys`, as the
run `MuxOne` has it.

| Module | Theorem | States |
|---|---|---|
| `QuarantineCutProofs` | `CutsOpenTraffic`, `TrackerBalanced` | `[]QuarantineCutsOpenTraffic`, `[]TrackerHoldsOnlyOpenTraffic` |
| `MuxStreamProofs` | `LiveRelayHolds`, `QuarantineCutsStreamsHolds` | `[]LiveRelayIsReachable`, `[]QuarantineCutsStreams` |
| | `QueueBoundedHolds`, `OverflowMeansBehindHolds` | `[]QueueBounded`, `OverflowMeansBehind` |
| | `EnclaveHasRelay` | `[]EnclaveStreamHasRelay` |
| `UpstreamCacheProofs` | `RidesVerified`, `NoLockStranded` | `[]RidesVerifiedConn`, `[]NoLockIsStranded` |
| | `OtherAppsKeep`, `OneEntry`, `PoolsParse` | `OtherAppsKeepTheirPools`, `[]OneEntryPerApp`, `[]PoolPolicyParsed` |
| `RouteSyncProofs` | `ReadyIsRouted`, `TableIsFeed`, `Implements` | `[]ReadyMeansRouted`, `[]SyncedTableIsFeed`, `ImplementsCore` |
| `TunnelRegistryProofs` | `RegistryHolds`, `NoOrphan`, `DialsNewest` | `[]RegistryHoldsServingSessions`, `[]NoOrphanStream`, `DialsNewestSession` |
| `ShutdownProofs` | `CleanExitDrainsHolds` | `[]CleanExitDrains` |
| `ConnectionProofs` | `WholeHello`, `RespectsRoute`, `BytesIntact` | `[]WholeHelloDecides`, `[]RouteRespected`, `[]StreamIntact` |
| | `FinFollows`, `HalfCloseKeeps` | `[]FinFollowsAllData`, `HalfCloseKeepsOther` |
| `ResponsesProofs` | `StaysInStep`, `TakenIsWhole` | `[]ClientStaysInStep`, `[]CompleteIsWhole` |
| | `NothingStays`, `DeadlineStays`, `OneDecision` | `[]NothingHeldBack`, `[]DeadlineStaysWithResponse`, `[]OneCorsDecision` |

`TypeOK` is proved along the way for `QuarantineCut`, `TunnelRegistry`, `Shutdown`
and `Splice`; the invariants of the other modules contain the types they need.

None of the properties is inductive by itself. The strengthenings:

- **QuarantineCut**, `IInv`. The cut property says nothing of handlers that have
  registered and not looked the route up again, nor that an id missing from the
  tracker was taken by a cut. `IdsUnique`: no two handlers hold one id.
  `HeldWhileTracked`: a handler holds an id exactly between `Track` and release.
  `RegisteredIsHeld`: a registered id is held by a handler of that host.
  `HeldIsKnown`: a held id is registered, closing or cut. `RegisteredIsNext`: a
  handler past its second lookup that is still registered, with its host
  quarantined from active, waits for a hook still to be called. There is one lemma
  per action of the table and the tracker; the handler's steps share `StepIInv`,
  `TrackIInv` and `ReleaseIInv`.
- **MuxStream**. Four invariants over `LoopType`, which says where `readLoop` has a
  stream in hand. `Reachable` extends the property from relaying streams to all
  registered ones, since `kill` may take its snapshot while a handler is on its way
  to OPEN. `Cuttable`: a stream between `Track` and return is tracked or has its cut
  running. `Counted`: `queued` plus the frame sent and not yet counted equals the
  bytes in the channel plus the frame in the pump's hand; both bounds follow from it.
  `Held` is about what the enclave will hold once it has read the frames in flight
  (`Unclosed`): the property speaks of what it holds now, and an OPEN still in the
  queue would break it later. That stream has its relay, is about to be sent a
  CLOSE, or ended silently. The argument needs that a key is opened once (`Once`)
  and that neither direction nor `readLoop` knows of a stream before its OPEN.
- **UpstreamCache**. `HandlerType`: what a handler holds at each point. `Verified`:
  every pool somebody refers to was built for one key, its members were dialed
  with it, and a handler holds pools and members of its own key. `Locks`: a handler
  is in the locked section exactly when it holds `muxMu`. `Entries`: a handler past
  `proxyFor` has a policy that parses.
- **RouteSync**, `Fetching`: a request carries the version of the table, and a table
  that a sync succeeded with has a version. `Current`: the version in the table is
  that of a feed whose routes are in it, and after `Update` that of the answer. A
  sync says something of the feed it was answered with, which need not be the one
  the table was built from; `SameHashed` says that two feeds with one computed
  version agree in every hashed field of the last row of every host. Every step maps to a step of
  `QuarantineCut` or leaves its variables alone; an `Update` with an equal version is
  a stutter.
- **TunnelRegistry**, `Registered` and `Opening`: a goroutine waits for the result
  of `OpenStream` whenever there will be one. `DialsNewest` rests on a lemma that
  `Pick` finds a best entry in any list with a live one.
- **Shutdown**, `IInv`: `wg` is the number of handlers running, and at most one
  connection is accepted and not yet counted, only while the loop holds it.
- **Splice**, `Counting` (what was copied is written or in hand) and `Ends` (a loop
  that ended with the end of its source holds nothing and has copied everything).
- **Dispatch**, `Reading` and `Given`: the choice is the one for this hello and
  route, and a PROXY header comes first only when the route wants one. `Passed`: how
  much has been passed on at each point of the hand-over, so that the next bytes
  continue where the last ones ended.
- **Responses**. `Writer`: what buffer, deadline and flags are at each point of the
  loop. `Decided`: the CORS headers so far are one decision, before they are written
  too. `InStep` relates the client's parser to what it has yet to read: the tokens on
  the wire, and those on the wire and in the buffer while the connection is up,
  complete the response in hand exactly where the parser stands (`Expected`), and
  before the writer has ended it they are what has been copied so far (`Written`).
  The two sequences differ when a write fails: what got out is then all there will
  be, and the client must be in step with that as well. One lemma per operation of
  the writer says what it appends, one per token what the parser makes of it.

Only model-checked are the properties that something happens in the end, since
fairness is out of the prover's reach: `QuarantineDrains`, `MuxLossEndsStreams`,
`QuarantineEndsStreams`, `TableConverges`, `AbandonedDialsEnd`, `SignalEndsProcess`,
`QuarantineReachesTraffic`, `CutEndsSplice`, `SilentSpliceEnds`, `HelloLoopEnds` and
`ClientIsReleased`. The two refuted sentences are counterexamples of TLC.

## Not modelled

- Certificates (`certmgr`, `certloader`): one atomic pointer, replaced on SIGHUP.
- RA-TLS verification: a comparison of certificate extensions with the policy. That
  a connection is used only for the key it was verified for is modelled.
- The origin allow-list with its wildcards: a function on strings; a request is
  allowed or not.
- The bytes of a mux frame, of the tunnel preamble, of the PROXY header and of a
  TLS alert; the fields of a ClientHello. Frames and hellos are values, so the
  widths of length fields are outside the models.
- Configuration, metrics, log output, the JSON of the health endpoint, the wording
  and content negotiation of refusals.
- `httputil.ReverseProxy`, the WebSocket library and yamux, except for what the code
  sees of them. The tunnel authorizer and the management service appear by their
  answers only.
