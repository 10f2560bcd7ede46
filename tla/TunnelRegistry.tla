--------------------------- MODULE TunnelRegistry ---------------------------
(***************************************************************************)
(* Egress tunnels (tunnel/tunnel.go, tunnel/accept.go): enclaves that dial *)
(* in and hold a yamux session, the registry of those sessions, and the    *)
(* handlers that dial an upstream by opening a stream on one.              *)
(*                                                                         *)
(* Three sorts of goroutine meet: Acceptor.Handle, one per session; the    *)
(* caller of Registry.Open, under a deadline; and the goroutine Open       *)
(* starts to wait in OpenStream, which may answer after the deadline.      *)
(*                                                                         *)
(* yamux and the authorizer are external: a session dies at any time, and  *)
(* OpenStream returns a stream of a live session or an error.              *)
(***************************************************************************)
EXTENDS Naturals, Sequences, Functions

CONSTANTS Enclaves,  \* enclave ids the authorizer may return
          Sessions,  \* slots for tunnel connections, reused when free
          Dials,     \* slots for callers of Open, reused when free
          MaxClock,  \* bound on the clock
          None

ASSUME ClockAssumption == MaxClock \in Nat
ASSUME NoneAssumption == None \notin Enclaves /\ None \notin Sessions

VARIABLES
  clock,     \* time.Now
  hpc,       \* Handle: "free", "auth", "upgraded", "stamped", "serving"
  id,        \* the enclave a session was authorized for
  at,        \* entry.at
  closed,    \* yamux IsClosed / CloseChan
  sessions,  \* Registry.sessions: the list of each enclave
  dpc,       \* Open: "free", "waiting", "preamble", "using"
  target,    \* the enclave being dialed
  sess,      \* the session pick returned
  stream,    \* the stream of this dial: "none", "open", "closed"
  opener,    \* the OpenStream goroutine: "idle", "opening", "sent", "failed"
  reaper     \* the late-result goroutine waits on ch, or has its result

handleVars == <<hpc, id, at, closed>>
dialVars == <<dpc, target, sess, stream, opener, reaper>>
vars == <<clock, handleVars, sessions, dialVars>>

Init ==
  /\ clock = 0
  /\ hpc = [s \in Sessions |-> "free"]
  /\ id = [s \in Sessions |-> None]
  /\ at = [s \in Sessions |-> 0]
  /\ closed = [s \in Sessions |-> FALSE]
  /\ sessions = [e \in Enclaves |-> << >>]
  /\ dpc = [d \in Dials |-> "free"]
  /\ target = [d \in Dials |-> None]
  /\ sess = [d \in Dials |-> None]
  /\ stream = [d \in Dials |-> "none"]
  /\ opener = [d \in Dials |-> "idle"]
  /\ reaper = [d \in Dials |-> FALSE]

Tick ==
  /\ clock < MaxClock
  /\ clock' = clock + 1
  /\ UNCHANGED <<handleVars, sessions, dialVars>>

-----------------------------------------------------------------------------
(* Acceptor.Handle.                                                        *)

\* No dial still refers to the slot, so that its reuse is a new session.
Unreferenced(s) == \A d \in Dials : sess[d] # s

\* Handshake, ALPN, request and body were in order; authorization is asked.
\* Every failure before this point returns and leaves nothing.
ReadRequest(s) ==
  /\ hpc[s] = "free" /\ Unreferenced(s)
  /\ hpc' = [hpc EXCEPT ![s] = "auth"]
  /\ UNCHANGED <<clock, id, at, closed, sessions, dialVars>>

\* The authorizer names the enclave, the 101 is written and yamux starts, or
\* one of the three fails and Handle returns.
Authorize(s) ==
  /\ hpc[s] = "auth"
  /\ \/ \E e \in Enclaves : /\ id' = [id EXCEPT ![s] = e]
                            /\ hpc' = [hpc EXCEPT ![s] = "upgraded"]
     \/ UNCHANGED id /\ hpc' = [hpc EXCEPT ![s] = "free"]
  /\ closed' = [closed EXCEPT ![s] = FALSE]
  /\ UNCHANGED <<clock, at, sessions, dialVars>>

\* Register takes its time stamp before the lock ...
Stamp(s) ==
  /\ hpc[s] = "upgraded"
  /\ hpc' = [hpc EXCEPT ![s] = "stamped"]
  /\ at' = [at EXCEPT ![s] = clock]
  /\ UNCHANGED <<clock, id, closed, sessions, dialVars>>

\* ... and appends under it.
Register(s) ==
  /\ hpc[s] = "stamped"
  /\ hpc' = [hpc EXCEPT ![s] = "serving"]
  /\ sessions' = [sessions EXCEPT ![id[s]] = Append(@, s)]
  /\ UNCHANGED <<clock, id, at, closed, dialVars>>

\* yamux closes: the enclave left, or a keepalive went unanswered.
SessionDies(s) ==
  /\ hpc[s] \in {"upgraded", "stamped", "serving"}
  /\ ~closed[s]
  /\ closed' = [closed EXCEPT ![s] = TRUE]
  /\ stream' = [d \in Dials |-> IF sess[d] = s /\ stream[d] = "open"
                                THEN "closed" ELSE stream[d]]
  /\ UNCHANGED <<clock, hpc, id, at, sessions, dpc, target, sess, opener, reaper>>

\* A wrong Without: the enclave's whole list goes.
WithoutAny(list, s) == << >>

\* The first entry of the session leaves the list.
Without(list, s) ==
  LET first == {i \in DOMAIN list : list[i] = s /\ \A j \in 1 .. i - 1 : list[j] # s}
      i == CHOOSE k \in first : TRUE
  IN IF first = {} THEN list ELSE SubSeq(list, 1, i - 1) \o SubSeq(list, i + 1, Len(list))

\* CloseChan fired: the entry of this session leaves its list.
Unregister(s) ==
  /\ hpc[s] = "serving" /\ closed[s]
  /\ hpc' = [hpc EXCEPT ![s] = "free"]
  /\ sessions' = [sessions EXCEPT ![id[s]] = Without(@, s)]
  /\ id' = [id EXCEPT ![s] = None]
  /\ UNCHANGED <<clock, at, closed, dialVars>>

Handle(s) ==
  ReadRequest(s) \/ Authorize(s) \/ Stamp(s) \/ Register(s) \/ Unregister(s)

-----------------------------------------------------------------------------
(* Registry.Open.                                                          *)

\* The places of the enclave's list that pick does not skip.
Live(e) == {i \in DOMAIN sessions[e] : ~closed[sessions[e][i]]}

\* A wrong Better: the first entry.
First(e, i, j) == i <= j

\* pick prefers entry i to entry j: it is later, or as late and before it.
Better(e, i, j) ==
  LET a == at[sessions[e][i]]
      b == at[sessions[e][j]]
  IN b < a \/ (b = a /\ i <= j)

Pick(e) ==
  IF Live(e) = {} THEN None
  ELSE sessions[e][CHOOSE i \in Live(e) : \A j \in Live(e) : Better(e, i, j)]

\* pick, and the goroutine that opens the stream; ErrNoTunnel returns and
\* leaves the slot free.
Open(d, e) ==
  /\ dpc[d] = "free" /\ opener[d] = "idle" /\ ~reaper[d]
  /\ Pick(e) # None
  /\ dpc' = [dpc EXCEPT ![d] = "waiting"]
  /\ target' = [target EXCEPT ![d] = e]
  /\ sess' = [sess EXCEPT ![d] = Pick(e)]
  /\ stream' = [stream EXCEPT ![d] = "none"]
  /\ opener' = [opener EXCEPT ![d] = "opening"]
  /\ UNCHANGED <<clock, handleVars, sessions, reaper>>

\* OpenStream returns; ch has room for the result.
OpenStream(d) ==
  /\ opener[d] = "opening"
  /\ \/ /\ ~closed[sess[d]]
        /\ stream' = [stream EXCEPT ![d] = "open"]
        /\ opener' = [opener EXCEPT ![d] = "sent"]
     \/ /\ opener' = [opener EXCEPT ![d] = "failed"]
        /\ UNCHANGED stream
  /\ UNCHANGED <<clock, handleVars, sessions, dpc, target, sess, reaper>>

\* Open forgets the session when nothing refers to it any more.
Finished(d) == sess' = [sess EXCEPT ![d] = None] /\ target' = [target EXCEPT ![d] = None]

\* select takes the result ...
TakeResult(d) ==
  /\ dpc[d] = "waiting" /\ opener[d] \in {"sent", "failed"}
  /\ opener' = [opener EXCEPT ![d] = "idle"]
  /\ \/ opener[d] = "sent" /\ dpc' = [dpc EXCEPT ![d] = "preamble"] /\ UNCHANGED <<sess, target>>
     \/ opener[d] = "failed" /\ dpc' = [dpc EXCEPT ![d] = "free"] /\ Finished(d)
  /\ UNCHANGED <<clock, handleVars, sessions, stream, reaper>>

\* A wrong StartReaper: nobody waits for the late result.
StartNobody(d) == UNCHANGED reaper

StartReaper(d) == reaper' = [reaper EXCEPT ![d] = TRUE]

\* ... or the deadline, whether or not the result is there too.
Timeout(d) ==
  /\ dpc[d] = "waiting"
  /\ dpc' = [dpc EXCEPT ![d] = "free"]
  /\ StartReaper(d)
  /\ UNCHANGED <<clock, handleVars, sessions, target, sess, stream, opener>>

\* A wrong CloseLate: the late result is dropped.
DropLate(d) == UNCHANGED stream

CloseLate(d) == stream' = [stream EXCEPT ![d] = IF @ = "open" THEN "closed" ELSE @]

\* The goroutine left behind closes the stream the caller gave up on.
Reap(d) ==
  /\ reaper[d] /\ opener[d] \in {"sent", "failed"}
  /\ reaper' = [reaper EXCEPT ![d] = FALSE]
  /\ opener' = [opener EXCEPT ![d] = "idle"]
  /\ CloseLate(d)
  /\ Finished(d)
  /\ UNCHANGED <<clock, handleVars, sessions, dpc>>

WritePreamble(d) ==
  /\ dpc[d] = "preamble"
  /\ \/ /\ stream[d] = "open"
        /\ dpc' = [dpc EXCEPT ![d] = "using"]
        /\ UNCHANGED <<stream, sess, target>>
     \/ /\ dpc' = [dpc EXCEPT ![d] = "free"]
        /\ stream' = [stream EXCEPT ![d] = "closed"]
        /\ Finished(d)
  /\ UNCHANGED <<clock, handleVars, sessions, opener, reaper>>

\* The caller's deferred Close of what DialUpstream returned.
CallerCloses(d) ==
  /\ dpc[d] = "using"
  /\ dpc' = [dpc EXCEPT ![d] = "free"]
  /\ stream' = [stream EXCEPT ![d] = "closed"]
  /\ Finished(d)
  /\ UNCHANGED <<clock, handleVars, sessions, opener, reaper>>

Dial(d) ==
  \/ \E e \in Enclaves : Open(d, e)
  \/ OpenStream(d) \/ TakeResult(d) \/ Timeout(d) \/ Reap(d)
  \/ WritePreamble(d) \/ CallerCloses(d)

Next ==
  \/ Tick
  \/ \E s \in Sessions : Handle(s) \/ SessionDies(s)
  \/ \E d \in Dials : Dial(d)

Spec == Init /\ [][Next]_vars

\* Goroutines that can run do.  OpenStream is bounded by StreamOpenTimeout
\* and ConnectionWriteTimeout, a caller of Open by its context.  Nothing
\* obliges a session to die, an enclave to dial in or a caller to finish.
Fairness ==
  /\ \A s \in Sessions : WF_vars(Authorize(s) \/ Stamp(s) \/ Register(s) \/ Unregister(s))
  /\ \A d \in Dials : /\ WF_vars(OpenStream(d)) /\ WF_vars(TakeResult(d) \/ Timeout(d))
                      /\ WF_vars(Reap(d)) /\ WF_vars(WritePreamble(d))

FairSpec == Spec /\ Fairness

-----------------------------------------------------------------------------
(* Properties.                                                             *)

TypeOK ==
  /\ clock \in 0 .. MaxClock
  /\ hpc \in [Sessions -> {"free", "auth", "upgraded", "stamped", "serving"}]
  /\ id \in [Sessions -> Enclaves \cup {None}]
  /\ at \in [Sessions -> 0 .. MaxClock]
  /\ closed \in [Sessions -> BOOLEAN]
  /\ sessions \in [Enclaves -> Seq(Sessions)]
  /\ dpc \in [Dials -> {"free", "waiting", "preamble", "using"}]
  /\ target \in [Dials -> Enclaves \cup {None}]
  /\ sess \in [Dials -> Sessions \cup {None}]
  /\ stream \in [Dials -> {"none", "open", "closed"}]
  /\ opener \in [Dials -> {"idle", "opening", "sent", "failed"}]
  /\ reaper \in [Dials -> BOOLEAN]

\* Register and the function it returns balance whatever reconnects race:
\* the list of an enclave holds each of its serving sessions exactly once
\* and nothing else.
RegistryHoldsServingSessions ==
  \A e \in Enclaves :
    /\ IsInjective(sessions[e])
    /\ Range(sessions[e]) = {s \in Sessions : hpc[s] = "serving" /\ id[s] = e}

\* A stream that is open is in someone's hands: the caller has it, or it is
\* in the channel that the caller or the late-result goroutine still reads.
\* A dial that timed out never leaves a stream behind.
NoOrphanStream ==
  \A d \in Dials : stream[d] = "open" =>
    \/ dpc[d] \in {"preamble", "using"}
    \/ opener[d] = "sent" /\ (dpc[d] = "waiting" \/ reaper[d])

\* A new dial rides the newest session that was registered and open when it
\* picked ("the newest is preferred"), never the one a reconnect replaced,
\* and never another enclave's.
DialsNewestSession ==
  [][\A d \in Dials : \A s \in Sessions :
       dpc[d] = "free" /\ dpc'[d] = "waiting" =>
         /\ hpc[sess'[d]] = "serving" /\ id[sess'[d]] = target'[d] /\ ~closed[sess'[d]]
         /\ hpc[s] = "serving" /\ ~closed[s] /\ id[s] = target'[d] => at[s] <= at[sess'[d]]]_vars

\* Whatever a dial gave up on is closed in the end, and its slot is free of
\* goroutines.
AbandonedDialsEnd ==
  \A d \in Dials : reaper[d] ~> (~reaper[d] /\ stream[d] # "open")

=============================================================================
