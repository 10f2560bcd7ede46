----------------------------- MODULE MuxStream -----------------------------
(***************************************************************************)
(* Sealed WebSockets relayed as streams of one mux connection to the       *)
(* enclave (terminate/wsmux.go).                                           *)
(*                                                                         *)
(* Goroutines: per stream, the handler serveSealedWSMux, the pump toward   *)
(* the browser it starts, and the close function a quarantine cut starts;  *)
(* per mux connection, readLoop, keepalive and whoever calls kill.         *)
(*                                                                         *)
(* A payload is no more than its frame.  The enclave is external: a stream *)
(* is open there from the OPEN it reads until the CLOSE it reads or sends. *)
(* gwStream.finish is two moments, since Close is a handshake with the     *)
(* browser: code[s] records that done is closed, and CloseBrowser(s) that  *)
(* the socket is.  Every caller of finish waits for the second (the Once   *)
(* makes a second caller wait for the first).                              *)
(***************************************************************************)
EXTENDS Integers, Sequences

CONSTANTS Streams,   \* gwStream values, one per serveSealedWSMux call
          Keys,      \* muxKey values (session id, stream id)
          KeyOf,     \* the key each stream asks for
          None,      \* no stream
          Events,    \* what may befall the streams: see EventNames
          Sizes,     \* payload sizes of the enclave's DATA frames
          MaxQueue,  \* gwMuxStreamQueue: capacity of the outbound channel
          MaxBytes,  \* gwMuxStreamQueueBytes: the bound on its bytes
          MaxWire    \* frames in flight in one direction

ASSUME KeyOfAssumption == KeyOf \in [Streams -> Keys]
ASSUME BoundsAssumption == MaxQueue \in Nat /\ MaxBytes \in Nat /\ MaxWire \in Nat
ASSUME SizesAssumption == Sizes \subseteq Nat
ASSUME NoneAssumption == None \notin Streams

\* "quarantine": the route changes state; "break": writes to the enclave
\* start to fail; "kill": the connection is lost or its pool is closed.
EventNames == {"quarantine", "break", "kill"}
ASSUME EventsAssumption == Events \subseteq EventNames

VARIABLES
  pc,        \* the handler of each stream
  code,      \* why the stream is finished, "open" until it is
  sock,      \* the browser socket
  outbound,  \* frames waiting in the stream's channel
  held,      \* their bytes
  queued,    \* gwStream.queued: the counter of those bytes
  hand,      \* bytes of the frame the pump took and has yet to count off
  cutter,    \* the close function of a quarantine cut, per stream
  tracked,   \* streams registered with the tracker
  state,     \* the live state of the route
  hook,      \* Update has swapped the table and not yet called CutHost
  streams,   \* gwMuxConn.streams: the stream registered under each key
  wire,      \* the mux connection: "up", "broken" (writes fail), "dead"
  toEnclave, toGateway,  \* frames in flight
  rl,        \* readLoop: its place and the stream it looked up
  killer,    \* kill: "idle", "marked" (dead is closed), "finishing"
  killing,   \* streams kill has still to finish
  enclave    \* keys the enclave holds a stream for

queueVars == <<outbound, held, queued, hand>>
streamVars == <<pc, code, sock, queueVars>>
trackVars == <<cutter, tracked, state, hook>>
connVars == <<streams, wire, rl, killer, killing>>
wireVars == <<toEnclave, toGateway, enclave>>
vars == <<streamVars, trackVars, connVars, wireVars>>

Codes == {"open", "normal", "tryAgain", "pumpError", "overflow", "enclave", "lost"}
Frames == [type : {"OPEN", "DATA", "CLOSE"}, key : Keys]
HandlerPcs == {"new", "ready", "registered", "tracked", "opening", "relaying",
               "sendClose", "returning", "ended"}
LoopPlaces == {"read", "enqueue", "add", "unregister", "finish", "wait"}
NoFrame == -1

TypeOK ==
  /\ pc \in [Streams -> HandlerPcs]
  /\ code \in [Streams -> Codes]
  /\ sock \in [Streams -> {"open", "closed"}]
  /\ outbound \in [Streams -> 0 .. MaxQueue]
  /\ held \in [Streams -> Nat] /\ queued \in [Streams -> Int]
  /\ hand \in [Streams -> Nat \cup {NoFrame}]
  /\ cutter \in [Streams -> {"none", "write", "finish", "done"}]
  /\ tracked \in SUBSET Streams
  /\ state \in {"active", "quarantined"}
  /\ hook \in BOOLEAN
  /\ streams \in [Keys -> Streams \cup {None}]
  /\ wire \in {"up", "broken", "dead"}
  /\ toEnclave \in Seq(Frames) /\ toGateway \in Seq(Frames)
  /\ rl \in [at : LoopPlaces, st : Streams \cup {None}, why : Codes, n : Nat]
  /\ killer \in {"idle", "marked", "finishing"}
  /\ killing \in SUBSET Streams
  /\ enclave \in SUBSET Keys

Reading == [at |-> "read", st |-> None, why |-> "open", n |-> 0]

Init ==
  /\ pc = [s \in Streams |-> "new"]
  /\ code = [s \in Streams |-> "open"]
  /\ sock = [s \in Streams |-> "open"]
  /\ outbound = [s \in Streams |-> 0] /\ held = [s \in Streams |-> 0]
  /\ queued = [s \in Streams |-> 0] /\ hand = [s \in Streams |-> NoFrame]
  /\ cutter = [s \in Streams |-> "none"]
  /\ tracked = {}
  /\ state = "active"
  /\ hook = FALSE
  /\ streams = [k \in Keys |-> None]
  /\ wire = "up"
  /\ toEnclave = <<>> /\ toGateway = <<>>
  /\ rl = Reading
  /\ killer = "idle"
  /\ killing = {}
  /\ enclave = {}

-----------------------------------------------------------------------------
(* Frames and the end of a stream.                                         *)

Frame(type, k) == [type |-> type, key |-> k]

\* writeFrame succeeds.  The bound on frames in flight is a blocked write.
WriteFrame(type, k) ==
  /\ wire = "up"
  /\ Len(toEnclave) < MaxWire
  /\ toEnclave' = Append(toEnclave, Frame(type, k))
  /\ UNCHANGED <<toGateway, enclave>>

\* A wrong TryFrame: the enclave is not told.
DropFrame(type, k) == UNCHANGED wireVars

\* writeFrame with its error dropped, as every CLOSE is written.
TryFrame(type, k) ==
  \/ WriteFrame(type, k)
  \/ wire # "up" /\ UNCHANGED wireVars

\* A wrong Finish: done is not closed.
FinishNothing(s, why) == UNCHANGED code

\* gwStream.finish: the first caller's reason stays.
Finish(s, why) ==
  code' = [code EXCEPT ![s] = IF @ = "open" THEN why ELSE @]

\* A wrong Unregister: whatever stands under the key goes.
UnregisterByKey(s) == streams' = [streams EXCEPT ![KeyOf[s]] = None]

\* gwMuxConn.unregister: removes the stream, not another under its key.
Unregister(s) ==
  streams' = [streams EXCEPT ![KeyOf[s]] = IF @ = s THEN None ELSE @]

Goto(s, l) == pc' = [pc EXCEPT ![s] = l]

\* The handler returns: release, unregister and finish are deferred.
Return(s, why) ==
  /\ tracked' = tracked \ {s}
  /\ Unregister(s)
  /\ Finish(s, why)
  /\ Goto(s, "returning")
  /\ UNCHANGED <<queueVars, cutter, state, hook, wire, rl, killer, killing>>

\* The browser's close handshake ends, or times out and CloseNow follows.
CloseBrowser(s) ==
  /\ code[s] # "open"
  /\ sock[s] = "open"
  /\ sock' = [sock EXCEPT ![s] = "closed"]
  /\ UNCHANGED <<pc, code, queueVars, trackVars, connVars, wireVars>>

-----------------------------------------------------------------------------
(* serveSealedWSMux.                                                       *)

\* get handed out a live connection, the upgrade was accepted and the first
\* binary message has arrived.  Every failure before that ends the request.
Open(s) ==
  /\ pc[s] = "new"
  /\ wire # "dead"
  /\ Goto(s, "ready")
  /\ UNCHANGED <<code, sock, queueVars, trackVars, connVars, wireVars>>

\* A key in use on this connection is refused.  A dead connection is not.
Register(s) ==
  /\ pc[s] = "ready"
  /\ \/ /\ streams[KeyOf[s]] = None
        /\ streams' = [streams EXCEPT ![KeyOf[s]] = s]
        /\ Goto(s, "registered")
        /\ UNCHANGED code
     \/ /\ streams[KeyOf[s]] # None
        /\ Finish(s, "normal")
        /\ Goto(s, "returning")
        /\ UNCHANGED streams
  /\ UNCHANGED <<sock, queueVars, trackVars, wire, rl, killer, killing, wireVars>>

TrackStream(s) ==
  /\ pc[s] = "registered"
  /\ tracked' = tracked \cup {s}
  /\ Goto(s, "tracked")
  /\ UNCHANGED <<code, sock, queueVars, cutter, state, hook, connVars, wireVars>>

\* A wrong Quarantined: the route as it was when the socket was opened.
QuarantinedAtOpen == FALSE

Quarantined == state = "quarantined"

\* The second look at the route.
Recheck(s) ==
  /\ pc[s] = "tracked"
  /\ \/ Quarantined /\ Return(s, "tryAgain")
     \/ /\ ~Quarantined
        /\ Goto(s, "opening")
        /\ UNCHANGED <<code, queueVars, trackVars, connVars>>
  /\ UNCHANGED <<sock, wireVars>>

WriteOpen(s) ==
  /\ pc[s] = "opening"
  /\ \/ /\ WriteFrame("OPEN", KeyOf[s])
        /\ Goto(s, "relaying")
        /\ UNCHANGED <<code, sock, queueVars, trackVars, connVars>>
     \/ wire # "up" /\ Return(s, "normal") /\ UNCHANGED <<sock, wireVars>>

\* The browser loop: a sealed frame is relayed; if the write fails the
\* handler returns.
BrowserData(s) ==
  /\ pc[s] = "relaying"
  /\ sock[s] = "open"
  /\ \/ /\ WriteFrame("DATA", KeyOf[s])
        /\ UNCHANGED <<streamVars, trackVars, connVars>>
     \/ wire # "up" /\ Return(s, "normal") /\ UNCHANGED <<sock, wireVars>>

\* A message that is not binary: the socket is closed and the enclave told.
BrowserText(s) ==
  /\ pc[s] = "relaying"
  /\ sock[s] = "open"
  /\ TryFrame("CLOSE", KeyOf[s])
  /\ Return(s, "normal")
  /\ sock' = [sock EXCEPT ![s] = "closed"]

\* The read failed: the browser left, or finish closed its socket.  The
\* enclave is told unless done is closed.
BrowserGone(s) ==
  /\ pc[s] = "relaying"
  /\ \/ code[s] # "open" /\ Return(s, "normal") /\ UNCHANGED sock
     \/ /\ code[s] = "open"
        /\ Goto(s, "sendClose")
        /\ UNCHANGED <<code, sock, queueVars, trackVars, connVars>>
  /\ UNCHANGED wireVars

SendClose(s) ==
  /\ pc[s] = "sendClose"
  /\ TryFrame("CLOSE", KeyOf[s])
  /\ Return(s, "normal")
  /\ UNCHANGED sock

EndHandler(s) ==
  /\ pc[s] = "returning"
  /\ sock[s] = "closed"
  /\ Goto(s, "ended")
  /\ UNCHANGED <<code, sock, queueVars, trackVars, connVars, wireVars>>

\* The pump toward the browser, started after OPEN: it takes a frame (of a
\* channel no more is known than its frames and bytes), counts it off, and
\* writes it.  It leaves once done is closed; a failed write finishes the
\* stream.
PumpTake(s) ==
  /\ pc[s] \in {"relaying", "sendClose"}
  /\ code[s] = "open"
  /\ outbound[s] > 0 /\ hand[s] = NoFrame
  /\ \E n \in 0 .. held[s] :
       /\ outbound[s] = 1 => n = held[s]
       /\ held' = [held EXCEPT ![s] = @ - n]
       /\ hand' = [hand EXCEPT ![s] = n]
  /\ outbound' = [outbound EXCEPT ![s] = @ - 1]
  /\ UNCHANGED <<pc, code, sock, queued, trackVars, connVars, wireVars>>

PumpWrite(s) ==
  /\ hand[s] # NoFrame
  /\ queued' = [queued EXCEPT ![s] = @ - hand[s]]
  /\ hand' = [hand EXCEPT ![s] = NoFrame]
  /\ UNCHANGED code \/ Finish(s, "pumpError")
  /\ UNCHANGED <<pc, sock, outbound, held, trackVars, connVars, wireVars>>

-----------------------------------------------------------------------------
(* A quarantine: Update, CutHost and closeQuarantined.                     *)

Update ==
  /\ "quarantine" \in Events
  /\ ~hook
  /\ state' = IF state = "active" THEN "quarantined" ELSE "active"
  /\ hook' = (state = "active")
  /\ UNCHANGED <<streamVars, cutter, tracked, connVars, wireVars>>

CutHost ==
  /\ hook
  /\ hook' = FALSE
  /\ cutter' = [s \in Streams |-> IF s \in tracked THEN "write" ELSE cutter[s]]
  /\ tracked' = {}
  /\ UNCHANGED <<streamVars, state, connVars, wireVars>>

CutWrite(s) ==
  /\ cutter[s] = "write"
  /\ TryFrame("CLOSE", KeyOf[s])
  /\ cutter' = [cutter EXCEPT ![s] = "finish"]
  /\ UNCHANGED <<streamVars, tracked, state, hook, connVars>>

CutFinish(s) ==
  /\ cutter[s] = "finish"
  /\ Finish(s, "tryAgain")
  /\ cutter' = [cutter EXCEPT ![s] = "done"]
  /\ UNCHANGED <<pc, sock, queueVars, tracked, state, hook, connVars, wireVars>>

-----------------------------------------------------------------------------
(* readLoop.                                                               *)

At(place, s, why, n) == [at |-> place, st |-> s, why |-> why, n |-> n]

\* One frame from the enclave.  The stream is looked up under the lock and
\* used after it.
ReadFrame ==
  /\ rl.at = "read"
  /\ wire # "dead"
  /\ toGateway # <<>>
  /\ toGateway' = Tail(toGateway)
  /\ LET f == Head(toGateway)
         st == streams[f.key]
     IN \/ /\ f.type = "DATA" /\ st = None
           /\ IF wire = "up" /\ Len(toEnclave) < MaxWire
              THEN toEnclave' = Append(toEnclave, Frame("CLOSE", f.key))
              ELSE wire # "up" /\ UNCHANGED toEnclave
           /\ UNCHANGED rl
        \/ /\ f.type = "DATA" /\ st # None
           /\ \E n \in Sizes : rl' = At("enqueue", st, "open", n)
           /\ UNCHANGED toEnclave
        \/ /\ f.type = "CLOSE"
           /\ rl' = IF st = None THEN Reading ELSE At("unregister", st, "enclave", 0)
           /\ UNCHANGED toEnclave
  /\ UNCHANGED <<streamVars, trackVars, streams, wire, killer, killing, enclave>>

\* A wrong Fits: the bytes are not looked at.
FitsByCount(s, n) == outbound[s] < MaxQueue

Fits(s, n) == queued[s] + n <= MaxBytes /\ outbound[s] < MaxQueue

\* The channel takes the frame, and is counted after; or the stream is
\* closed for overflow.
Enqueue ==
  /\ rl.at = "enqueue"
  /\ \/ /\ Fits(rl.st, rl.n)
        /\ outbound' = [outbound EXCEPT ![rl.st] = @ + 1]
        /\ held' = [held EXCEPT ![rl.st] = @ + rl.n]
        /\ rl' = [rl EXCEPT !.at = "add"]
        /\ UNCHANGED wireVars
     \/ /\ ~Fits(rl.st, rl.n)
        /\ TryFrame("CLOSE", KeyOf[rl.st])
        /\ rl' = At("unregister", rl.st, "overflow", 0)
        /\ UNCHANGED <<outbound, held>>
  /\ UNCHANGED <<pc, code, sock, queued, hand, trackVars, streams, wire, killer, killing>>

\* A wrong CountFrame: a frame counts as one.
CountOne == queued' = [queued EXCEPT ![rl.st] = @ + 1]

CountFrame == queued' = [queued EXCEPT ![rl.st] = @ + rl.n]

LoopAdd ==
  /\ rl.at = "add"
  /\ CountFrame
  /\ rl' = Reading
  /\ UNCHANGED <<pc, code, sock, outbound, held, hand, trackVars, streams, wire,
                 killer, killing, wireVars>>

LoopUnregister ==
  /\ rl.at = "unregister"
  /\ Unregister(rl.st)
  /\ rl' = [rl EXCEPT !.at = "finish"]
  /\ UNCHANGED <<streamVars, trackVars, wire, killer, killing, wireVars>>

LoopFinish ==
  /\ rl.at = "finish"
  /\ Finish(rl.st, rl.why)
  /\ rl' = [rl EXCEPT !.at = "wait"]
  /\ UNCHANGED <<pc, sock, queueVars, trackVars, streams, wire, killer, killing, wireVars>>

LoopResume ==
  /\ rl.at = "wait"
  /\ sock[rl.st] = "closed"
  /\ rl' = Reading
  /\ UNCHANGED <<streamVars, trackVars, streams, wire, killer, killing, wireVars>>

-----------------------------------------------------------------------------
(* The connection breaks and is torn down.                                 *)

\* A write fails or times out: the buffered writer keeps its error.
BreakWire ==
  /\ "break" \in Events
  /\ wire = "up"
  /\ wire' = "broken"
  /\ UNCHANGED <<streamVars, trackVars, streams, rl, killer, killing, wireVars>>

\* kill begins: dead and the connection are closed.  Called by readLoop when
\* a read fails, by keepalive when a ping does, and by closeAll.  The
\* enclave drops what it held on the connection.
KillMark ==
  /\ "kill" \in Events \/ wire = "broken"
  /\ killer = "idle"
  /\ killer' = "marked"
  /\ wire' = "dead"
  /\ toEnclave' = <<>> /\ toGateway' = <<>>
  /\ enclave' = {}
  /\ UNCHANGED <<streamVars, trackVars, streams, rl, killing>>

\* A wrong Registered: the map is emptied, its streams are not finished.
RegisteredNone == {}

Registered == {streams[k] : k \in Keys} \ {None}

KillSnapshot ==
  /\ killer = "marked"
  /\ killer' = "finishing"
  /\ killing' = Registered
  /\ streams' = [k \in Keys |-> None]
  /\ UNCHANGED <<streamVars, trackVars, wire, rl, wireVars>>

KillFinish(s) ==
  /\ s \in killing
  /\ Finish(s, "lost")
  /\ killing' = killing \ {s}
  /\ UNCHANGED <<pc, sock, queueVars, trackVars, streams, wire, rl, killer, wireVars>>

-----------------------------------------------------------------------------
(* The enclave (external).                                                 *)

EnclaveReceive ==
  /\ toEnclave # <<>>
  /\ toEnclave' = Tail(toEnclave)
  /\ LET f == Head(toEnclave)
     IN enclave' = CASE f.type = "OPEN" -> enclave \cup {f.key}
                     [] f.type = "CLOSE" -> enclave \ {f.key}
                     [] OTHER -> enclave
  /\ UNCHANGED <<streamVars, trackVars, connVars, toGateway>>

EnclaveSend(k) ==
  /\ k \in enclave
  /\ Len(toGateway) < MaxWire
  /\ \/ toGateway' = Append(toGateway, Frame("DATA", k)) /\ UNCHANGED enclave
     \/ toGateway' = Append(toGateway, Frame("CLOSE", k)) /\ enclave' = enclave \ {k}
  /\ UNCHANGED <<streamVars, trackVars, connVars, toEnclave>>

-----------------------------------------------------------------------------
Handler(s) ==
  \/ Open(s) \/ Register(s) \/ TrackStream(s) \/ Recheck(s) \/ WriteOpen(s)
  \/ BrowserData(s) \/ BrowserText(s) \/ BrowserGone(s) \/ SendClose(s)
  \/ EndHandler(s)

ReadLoop == ReadFrame \/ Enqueue \/ LoopAdd \/ LoopUnregister \/ LoopFinish \/ LoopResume

Next ==
  \/ \E s \in Streams : \/ Handler(s) \/ PumpTake(s) \/ PumpWrite(s) \/ CloseBrowser(s)
                        \/ CutWrite(s) \/ CutFinish(s) \/ KillFinish(s)
  \/ Update \/ CutHost
  \/ ReadLoop
  \/ BreakWire \/ KillMark \/ KillSnapshot
  \/ EnclaveReceive \/ \E k \in Keys : EnclaveSend(k)

Spec == Init /\ [][Next]_vars

\* keepalive's ping fails on a broken connection, kill runs to its end, a
\* socket that finish closes is closed within its timeout, a read of a
\* closed socket fails, readLoop and a started close function run on.  A frame written to
\* the enclave is read there: otherwise the write times out and breaks it.
\* CutWrite is strongly fair because the write lock is: a Go mutex hands
\* itself to a waiter that has starved.
Fairness ==
  /\ WF_vars(wire = "broken" /\ KillMark)
  /\ WF_vars(KillSnapshot)
  /\ WF_vars(CutHost)
  /\ WF_vars(EnclaveReceive)
  /\ WF_vars(LoopUnregister) /\ WF_vars(LoopFinish)
  /\ \A s \in Streams :
       /\ WF_vars(KillFinish(s)) /\ WF_vars(CloseBrowser(s))
       /\ SF_vars(CutWrite(s)) /\ WF_vars(CutFinish(s))
       /\ WF_vars(sock[s] = "closed" /\ BrowserGone(s))
       /\ WF_vars(WriteOpen(s)) /\ WF_vars(SendClose(s)) /\ WF_vars(EndHandler(s))

FairSpec == Spec /\ Fairness

-----------------------------------------------------------------------------
(* Properties.                                                             *)

\* A stream that relays and is not finished can be found: by the frames of
\* the enclave, through the map, or by the one that is about to finish it.
\* So a lost connection never leaves a browser on a stream nobody serves,
\* whatever registers, unregisters or reuses its key around kill.
LiveRelayIsReachable ==
  \A s \in Streams :
    pc[s] = "relaying" /\ code[s] = "open" =>
      \/ streams[KeyOf[s]] = s
      \/ s \in killing
      \/ rl.at = "finish" /\ rl.st = s

\* The tracker protocol holds for sealed streams too: once Update's hook has
\* run, a stream relayed while its route is quarantined is being closed.
QuarantineCutsStreams ==
  \A s \in Streams :
    pc[s] \in {"opening", "relaying"} /\ code[s] = "open" /\ state = "quarantined"
      => (hook /\ s \in tracked) \/ cutter[s] \in {"write", "finish"}

\* What a slow browser costs is bounded in bytes as it is in frames, although
\* the channel and the counter are updated one after the other by two
\* goroutines.
QueueBounded ==
  \A s \in Streams : held[s] <= MaxBytes /\ outbound[s] <= MaxQueue

\* A stream is closed for overflow only when its browser is behind: the frame
\* does not fit beside the bytes in the channel and the one the pump holds,
\* or the channel is full.  A frame larger than the bound never fits.
OverflowMeansBehind ==
  [][rl.at = "enqueue" /\ rl'.at = "unregister" =>
       \/ held[rl.st] + (IF hand[rl.st] = NoFrame THEN 0 ELSE hand[rl.st]) + rl.n > MaxBytes
       \/ outbound[rl.st] = MaxQueue]_vars

\* A CLOSE for the key is in flight, or about to be written.
CloseOnItsWay(k) ==
  \/ \E i \in 1 .. Len(toEnclave) : toEnclave[i] = Frame("CLOSE", k)
  \/ \E s \in Streams : KeyOf[s] = k /\ (pc[s] = "sendClose" \/ cutter[s] = "write")

\* With a key per stream, every stream the enclave holds has its relay, or a
\* CLOSE on its way, or was finished by a quarantine cut or a failed write to
\* the browser: the two ends of a stream about which the handler is silent.
EnclaveStreamHasRelay ==
  wire = "up" => \A k \in enclave :
    \/ CloseOnItsWay(k)
    \/ \E s \in Streams : /\ KeyOf[s] = k
                          /\ \/ pc[s] = "relaying" /\ code[s] = "open"
                             \/ code[s] \in {"tryAgain", "pumpError"}

\* README: on a quarantine "sealed WebSocket streams on the enclave mux are
\* closed with status 1013 (try again later) after the enclave is told to
\* drop them": the enclave does not keep a stream closed with 1013.
QuarantinedStreamIsDropped ==
  \A s \in Streams :
    wire = "up" /\ code[s] = "tryAgain" /\ KeyOf[s] \in enclave
      => CloseOnItsWay(KeyOf[s])

\* Once a connection can no longer be written, every browser it carries is
\* let go: the ping fails, kill finishes each stream and its handler ends.
MuxLossEndsStreams ==
  \A s \in Streams :
    wire # "up" /\ pc[s] \in {"opening", "relaying", "sendClose"} ~> pc[s] = "ended"

\* A route that stays quarantined ends up relaying no sealed stream.
QuarantineEndsStreams ==
  \A s \in Streams :
    <>[](state = "quarantined") => <>[](pc[s] \notin {"opening", "relaying"})

=============================================================================
