--------------------------- MODULE QuarantineCut ---------------------------
(***************************************************************************)
(* The quarantine protocol of the gateway: the route table and the hook it *)
(* calls (routetable/table.go), the tracker of open traffic                *)
(* (quarantine/tracker.go), and the two kinds of handler that register     *)
(* with it: the L4 splice (proxy.handleConn) and the request loop of a     *)
(* terminated connection (terminate.serveHTTP).                            *)
(*                                                                         *)
(* Three sorts of goroutine interleave here: the single goroutine that     *)
(* updates the table and then runs the hook host by host, one handler per  *)
(* connection, and the goroutines CutHost starts, one per entry it takes.  *)
(*                                                                         *)
(* A route is reduced to its state: upstream, policy and mode are the      *)
(* business of the modules RouteSync and UpstreamCache.  A sealed          *)
(* WebSocket leaves this model when its request is read: module MuxStream  *)
(* follows it.  Forget, the retirement hook, touches nothing named here.   *)
(***************************************************************************)
EXTENDS Naturals

CONSTANTS Hosts,       \* hostnames, in the canonical lower case
          Conns,       \* slots for client connections, reused when free
          MaxTracked   \* bound on the tracker's id counter

ASSUME MaxTrackedAssumption == MaxTracked \in Nat

VARIABLES
  table,      \* Table.routes: the state of each host's route
  toCut,      \* hosts whose onQuarantine call Update still has to make
  announced,  \* history: quarantined hosts that were active just before
  hosts,      \* Tracker.hosts: the ids registered for each host
  next,       \* Tracker.next: the last id given out
  closing,    \* ids whose close function runs on its own goroutine
  cut,        \* ids whose close function has run
  pc,         \* where each handler is
  host,       \* the SNI of each connection
  route,      \* the route each handler copied at its first lookup
  entry       \* the tracker id a handler holds, 0 for none

vars == <<table, toCut, announced, hosts, next, closing, cut, pc, host, route, entry>>
tableVars == <<table, toCut, announced>>
trackerVars == <<hosts, next, closing, cut>>
handlerVars == <<pc, host, route, entry>>

RouteStates == {"absent", "active", "quarantined"}
Ids == 1 .. MaxTracked

\* "free" is a slot no connection uses.  The splice handler goes through
\* dial, dialed, tracked, preface and splicing; the terminated connection
\* through handshake, await, checked, reqTracked and proxying.
SplicePcs == {"dial", "dialed", "tracked", "preface", "splicing"}
RequestPcs == {"handshake", "await", "checked", "reqTracked", "proxying"}
Pcs == {"free"} \cup SplicePcs \cup RequestPcs

\* The handler is between Track and its release.
TrackedPcs == {"tracked", "preface", "splicing", "reqTracked", "proxying"}

\* The handler passed its second lookup and may write to the enclave.
ForwardingPcs == {"preface", "splicing", "proxying"}

TypeOK ==
  /\ table \in [Hosts -> RouteStates]
  /\ toCut \in SUBSET Hosts
  /\ announced \in SUBSET Hosts
  /\ hosts \in [Hosts -> SUBSET Ids]
  /\ next \in 0 .. MaxTracked
  /\ closing \in SUBSET Ids
  /\ cut \in SUBSET Ids
  /\ pc \in [Conns -> Pcs]
  /\ host \in [Conns -> Hosts]
  /\ route \in [Conns -> RouteStates]
  /\ entry \in [Conns -> 0 .. MaxTracked]

Init ==
  /\ table = [h \in Hosts |-> "absent"]
  /\ toCut = {}
  /\ announced = {}
  /\ hosts = [h \in Hosts |-> {}]
  /\ next = 0
  /\ closing = {}
  /\ cut = {}
  /\ pc = [c \in Conns |-> "free"]
  /\ host \in [Conns -> Hosts]
  /\ route = [c \in Conns |-> "absent"]
  /\ entry = [c \in Conns |-> 0]

-----------------------------------------------------------------------------
(* The route table and the tracker's cut.                                  *)

\* The hosts Update calls the hook for: quarantined now, in the previous
\* table and active there.
NewlyQuarantined(prev, new) ==
  {h \in Hosts : new[h] = "quarantined" /\ prev[h] = "active"}

\* Update past its version check: the swap, then the hooks.  One goroutine
\* updates, so the next Update starts when the hooks of this one are done.
Update(new) ==
  /\ toCut = {}
  /\ table' = new
  /\ toCut' = NewlyQuarantined(table, new)
  /\ announced' = {h \in Hosts : /\ new[h] = "quarantined"
                                 /\ \/ table[h] = "active"
                                    \/ table[h] = "quarantined" /\ h \in announced}
  /\ UNCHANGED <<trackerVars, handlerVars>>

\* A wrong StartCloses: the entries are dropped, nothing closes them.
StartNothing(h) == UNCHANGED closing

StartCloses(h) == closing' = closing \cup hosts[h]

\* CutHost, called by the hook: takes the host's map under the lock and
\* starts one goroutine per entry.  Map order is random, so any host of
\* toCut may be next.
CutHost(h) ==
  /\ h \in toCut
  /\ toCut' = toCut \ {h}
  /\ hosts' = [hosts EXCEPT ![h] = {}]
  /\ StartCloses(h)
  /\ UNCHANGED <<table, announced, next, cut, handlerVars>>

\* One of those goroutines: closes both sockets of a splice, or cancels the
\* request and closes its client socket.
CloseEntry(id) ==
  /\ id \in closing
  /\ closing' = closing \ {id}
  /\ cut' = cut \cup {id}
  /\ UNCHANGED <<tableVars, hosts, next, handlerVars>>

-----------------------------------------------------------------------------
(* Track and release, as the handlers call them.                           *)

Track(c) ==
  /\ next < MaxTracked
  /\ next' = next + 1
  /\ hosts' = [hosts EXCEPT ![host[c]] = @ \cup {next'}]
  /\ entry' = [entry EXCEPT ![c] = next']
  /\ UNCHANGED <<closing, cut>>

\* A wrong Release: the entry stays in the map.
ReleaseNothing(c) ==
  /\ entry' = [entry EXCEPT ![c] = 0]
  /\ UNCHANGED trackerVars

Release(c) ==
  /\ hosts' = [hosts EXCEPT ![host[c]] = @ \ {entry[c]}]
  /\ entry' = [entry EXCEPT ![c] = 0]
  /\ UNCHANGED <<next, closing, cut>>

Goto(c, l) == pc' = [pc EXCEPT ![c] = l]

\* handler c moves on and touches neither tracker nor table
Step(c, from, to) ==
  /\ pc[c] = from
  /\ Goto(c, to)
  /\ UNCHANGED <<tableVars, trackerVars, host, route, entry>>

Quarantined(c) == table[host[c]] = "quarantined"

-----------------------------------------------------------------------------
(* proxy.handleConn.                                                       *)

\* A connection whose hello names h: the first lookup and the choice of
\* transport.  An unknown host, an adopter host not served directly, and a
\* quarantined splice are answered and closed, which leaves the slot free.
Accept(c, h) ==
  /\ pc[c] = "free"
  /\ table[h] # "absent"
  /\ host' = [host EXCEPT ![c] = h]
  /\ route' = [route EXCEPT ![c] = table[h]]
  /\ \/ table[h] = "active" /\ Goto(c, "dial")
     \/ Goto(c, "handshake")
  /\ UNCHANGED <<tableVars, trackerVars, entry>>

DialUpstream(c) ==
  \/ Step(c, "dial", "dialed")
  \/ Step(c, "dial", "free")

TrackSplice(c) ==
  /\ pc[c] = "dialed"
  /\ Track(c)
  /\ Goto(c, "tracked")
  /\ UNCHANGED <<tableVars, host, route>>

\* The handler returns: it releases the entry and closes its sockets, in
\* handleConn through its deferred calls.
Return(c) ==
  /\ Release(c)
  /\ Goto(c, "free")
  /\ UNCHANGED <<tableVars, host, route>>

\* The second lookup: refused with an alert if the live route is
\* quarantined, forwarded otherwise, even if the host has left the table.
RecheckSplice(c) ==
  /\ pc[c] = "tracked"
  /\ \/ Quarantined(c) /\ Return(c)
     \/ ~Quarantined(c) /\ Step(c, "tracked", "preface")

\* The PROXY header and the replayed hello; a failed write returns.
WritePreface(c) ==
  \/ Step(c, "preface", "splicing")
  \/ pc[c] = "preface" /\ Return(c)

\* Both copy loops ended: hang-up, error, idle timeout or closed sockets.
EndSplice(c) ==
  /\ pc[c] = "splicing"
  /\ Return(c)

-----------------------------------------------------------------------------
(* terminate.Handle and its request loop.                                  *)

\* TLS with the client, then the proxy for the route.  A failed handshake,
\* an ACME challenge and a failed setup close the connection.
Handshake(c) ==
  \/ Step(c, "handshake", "await")
  \/ Step(c, "handshake", "free")

\* A wrong RequestRefused: the copy alone.
RefusedByCopy(c) == route[c] = "quarantined"

\* Handler.quarantined: the route as it was copied, or the live one.
RequestRefused(c) == route[c] = "quarantined" \/ Quarantined(c)

\* One request, or the end of the connection (a read error, a refusal, or a
\* sealed WebSocket taking the connection over).  A request buffered before
\* a cut is still read after it.
ReadRequest(c) ==
  \/ Step(c, "await", "free")
  \/ ~RequestRefused(c) /\ Step(c, "await", "checked")

TrackRequest(c) ==
  /\ pc[c] = "checked"
  /\ Track(c)
  /\ Goto(c, "reqTracked")
  /\ UNCHANGED <<tableVars, host, route>>

RecheckRequest(c) ==
  /\ pc[c] = "reqTracked"
  /\ \/ RequestRefused(c) /\ Return(c)
     \/ ~RequestRefused(c) /\ Step(c, "reqTracked", "proxying")

\* rp.ServeHTTP returned: the entry is released, and the loop reads the next
\* request or returns (hijacked, or Connection: close).
EndRequest(c) ==
  /\ pc[c] = "proxying"
  /\ Release(c)
  /\ Goto(c, "await") \/ Goto(c, "free")
  /\ UNCHANGED <<tableVars, host, route>>

-----------------------------------------------------------------------------
Handler(c) ==
  \/ \E h \in Hosts : Accept(c, h)
  \/ DialUpstream(c) \/ TrackSplice(c) \/ RecheckSplice(c)
  \/ WritePreface(c) \/ EndSplice(c)
  \/ Handshake(c) \/ ReadRequest(c) \/ TrackRequest(c)
  \/ RecheckRequest(c) \/ EndRequest(c)

Next ==
  \/ \E new \in [Hosts -> RouteStates] : Update(new)
  \/ \E h \in Hosts : CutHost(h)
  \/ \E id \in Ids : CloseEntry(id)
  \/ \E c \in Conns : Handler(c)

Spec == Init /\ [][Next]_vars

\* The goroutines of a cut are scheduled: Update calls the hook for every
\* host it found, and each close function runs.  Handlers owe nothing.
Fairness ==
  /\ \A h \in Hosts : WF_vars(CutHost(h))
  /\ \A id \in Ids : WF_vars(CloseEntry(id))

FairSpec == Spec /\ Fairness

-----------------------------------------------------------------------------
(* Properties.                                                             *)

\* The connection can carry bytes to the enclave of its host.
Reaching(c) == pc[c] \in ForwardingPcs /\ entry[c] \notin cut

\* The cut of c is on its way: the hook has still to run and will find the
\* entry, or the entry's close function has been started.
CutPending(c) ==
  \/ host[c] \in toCut /\ entry[c] \in hosts[host[c]]
  \/ entry[c] \in closing

\* What tracker.go promises its callers ("a connection registered after the
\* cut sees the quarantined route on that check, and one registered before
\* is cut"), for a quarantine entered from an active route: whatever can
\* still reach the enclave is about to be cut.
QuarantineCutsOpenTraffic ==
  \A c \in Conns :
    Reaching(c) /\ Quarantined(c) /\ host[c] \in announced => CutPending(c)

\* Track and release balance across cuts, refusals and keep-alive: every
\* registered id belongs to exactly one handler, of that host, that is
\* between Track and its release.
TrackerHoldsOnlyOpenTraffic ==
  \A h \in Hosts : \A id \in hosts[h] :
    \E c \in Conns :
      /\ entry[c] = id /\ host[c] = h /\ pc[c] \in TrackedPcs
      /\ \A d \in Conns : entry[d] = id => d = c

\* A host that stays quarantined ends up with no connection that reaches its
\* enclave, and stays so.
QuarantineDrains ==
  \A h \in Hosts, c \in Conns :
    <>[](table[h] = "quarantined" /\ h \in announced)
      => <>[](host[c] = h => ~Reaching(c))

=============================================================================
