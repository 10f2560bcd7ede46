------------------------------ MODULE Shutdown ------------------------------
(***************************************************************************)
(* Start and stop of the process: main (cmd/gateway/main.go) with its      *)
(* signal goroutine, Gateway.Run with its accept loop and the goroutine    *)
(* that watches the context, Gateway.Drain, the handlers they wait for     *)
(* (proxy/proxy.go), and the syncer the same context stops (sync/sync.go). *)
(*                                                                         *)
(* Drain reads g.listener while Run may be writing it, with nothing to     *)
(* order the two: it sees the listener or nil.  Of the route table one     *)
(* host is modelled, which the management service quarantines.             *)
(***************************************************************************)
EXTENDS Naturals, FiniteSets

CONSTANTS Conns,    \* slots for connections, reused when free
          Holding,  \* those no timeout ends: a tunnel session lasts as long
                    \* as its enclave, and a splice whose peer stopped
                    \* reading has no write deadline
          Routed    \* those to the host, which a quarantine cuts

ASSUME ConnsAssumption == IsFiniteSet(Conns)
ASSUME HoldingAssumption == Holding \subseteq Conns /\ Routed \subseteq Conns

VARIABLES
  sig,        \* the signal goroutine: "wait", "cancel", "health", "drain", "drainWait", "done"
  cancelled,  \* ctx is done
  syncer,     \* Syncer.Run: "wait", "fetch", "stopped"
  quarantine, \* of the host: "none", "published", "applied" (in the table)
  listener,   \* the socket: "none", "open", "closed"
  closed,     \* g.closed
  watcher,    \* Run's goroutine: "none", "wait", "close", "done"
  run,        \* Run: "listen", "accept", "got", "wait", "exit"
  handler,    \* each connection: "free", "accepted", "running"
  wg,         \* g.wg
  exit        \* how the process ended: "no", "clean", "fatal"

sigVars == <<sig, cancelled>>
syncVars == <<syncer, quarantine>>
runVars == <<watcher, closed, run, exit>>
connVars == <<handler, wg>>
vars == <<sigVars, syncVars, listener, runVars, connVars>>

TypeOK ==
  /\ sig \in {"wait", "cancel", "health", "drain", "drainWait", "done"}
  /\ cancelled \in BOOLEAN /\ closed \in BOOLEAN
  /\ syncer \in {"wait", "fetch", "stopped"}
  /\ quarantine \in {"none", "published", "applied"}
  /\ listener \in {"none", "open", "closed"}
  /\ watcher \in {"none", "wait", "close", "done"}
  /\ run \in {"listen", "accept", "got", "wait", "exit"}
  /\ handler \in [Conns -> {"free", "accepted", "running"}]
  /\ wg \in Nat
  /\ exit \in {"no", "clean", "fatal"}

Init ==
  /\ sig = "wait" /\ cancelled = FALSE
  /\ syncer = "wait" /\ quarantine = "none"
  /\ listener = "none" /\ closed = FALSE
  /\ watcher = "none" /\ run = "listen"
  /\ handler = [c \in Conns |-> "free"] /\ wg = 0
  /\ exit = "no"

Alive == exit = "no"

-----------------------------------------------------------------------------
(* The signal goroutine of main.                                           *)

SigStep(from, to) == Alive /\ sig = from /\ sig' = to

Signal ==
  /\ SigStep("wait", "cancel")
  /\ UNCHANGED <<cancelled, syncVars, listener, runVars, connVars>>

Cancel ==
  /\ SigStep("cancel", "health")
  /\ cancelled' = TRUE
  /\ UNCHANGED <<syncVars, listener, runVars, connVars>>

\* httpSrv.Shutdown returns, within ten seconds.
StopHealth ==
  /\ SigStep("health", "drain")
  /\ UNCHANGED <<cancelled, syncVars, listener, runVars, connVars>>

\* Drain closes the listener, if it sees one.
DrainClose ==
  /\ SigStep("drain", "drainWait")
  /\ \/ listener = "open" /\ listener' = "closed"
     \/ UNCHANGED listener
  /\ UNCHANGED <<cancelled, syncVars, runVars, connVars>>

DrainWait ==
  /\ SigStep("drainWait", "done") /\ wg = 0
  /\ UNCHANGED <<cancelled, syncVars, listener, runVars, connVars>>

-----------------------------------------------------------------------------
(* The syncer and the management service.                                  *)

\* The service publishes the quarantine of the host (external).
Publish ==
  /\ Alive /\ quarantine = "none"
  /\ quarantine' = "published"
  /\ UNCHANGED <<sigVars, syncer, listener, runVars, connVars>>

\* The ticker, or the start.  A tick may win over a context already done.
StartFetch ==
  /\ Alive /\ syncer = "wait"
  /\ syncer' = "fetch"
  /\ UNCHANGED <<sigVars, quarantine, listener, runVars, connVars>>

\* The fetch brings the table in: Update and its hook.
FetchDone ==
  /\ Alive /\ syncer = "fetch"
  /\ syncer' = "wait"
  /\ quarantine' = IF quarantine = "published" THEN "applied" ELSE quarantine
  /\ UNCHANGED <<sigVars, listener, runVars, connVars>>

\* The fetch fails, as it does once the context is done.
FetchFails ==
  /\ Alive /\ syncer = "fetch"
  /\ syncer' = "wait"
  /\ UNCHANGED <<sigVars, quarantine, listener, runVars, connVars>>

\* A wrong MayStop: a syncer that gives up by itself.
StopsEarly == TRUE

MayStop == cancelled

\* Syncer.Run sees ctx.Done.
StopSync ==
  /\ Alive /\ syncer = "wait" /\ MayStop
  /\ syncer' = "stopped"
  /\ UNCHANGED <<sigVars, quarantine, listener, runVars, connVars>>

-----------------------------------------------------------------------------
(* Gateway.Run and the end of main.                                        *)

\* A failed Listen is a failed start: Run returns it.
Listen ==
  /\ Alive /\ run = "listen"
  /\ \/ listener' = "open" /\ watcher' = "wait" /\ run' = "accept" /\ UNCHANGED exit
     \/ exit' = "fatal" /\ run' = "exit" /\ UNCHANGED <<listener, watcher>>
  /\ UNCHANGED <<sigVars, syncVars, closed, connVars>>

WatchContext ==
  /\ Alive /\ watcher = "wait" /\ cancelled
  /\ watcher' = "close"
  /\ closed' = TRUE
  /\ UNCHANGED <<sigVars, syncVars, listener, run, exit, connVars>>

\* A wrong CloseListener: it stays open.
KeepListener == UNCHANGED listener

CloseListener == listener' = "closed"

WatchClose ==
  /\ Alive /\ watcher = "close"
  /\ watcher' = "done"
  /\ CloseListener
  /\ UNCHANGED <<sigVars, syncVars, closed, run, exit, connVars>>

Accept(c) ==
  /\ Alive /\ run = "accept" /\ listener = "open"
  /\ handler[c] = "free"
  /\ handler' = [handler EXCEPT ![c] = "accepted"]
  /\ run' = "got"
  /\ UNCHANGED <<sigVars, syncVars, listener, watcher, closed, exit, wg>>

Serve(c) ==
  /\ Alive /\ run = "got" /\ handler[c] = "accepted"
  /\ handler' = [handler EXCEPT ![c] = "running"]
  /\ wg' = wg + 1
  /\ run' = "accept"
  /\ UNCHANGED <<sigVars, syncVars, listener, watcher, closed, exit>>

\* Accept fails on the closed listener: the loop ends if closed is set, and
\* Run returns the error, which main takes as fatal, if it is not.
AcceptFails ==
  /\ Alive /\ run = "accept" /\ listener = "closed"
  /\ IF closed THEN run' = "wait" /\ UNCHANGED exit
     ELSE run' = "exit" /\ exit' = "fatal"
  /\ UNCHANGED <<sigVars, syncVars, listener, watcher, closed, connVars>>

\* A wrong Drained: Run returns when its loop ends.
DrainedAlways == TRUE

Drained == wg = 0

\* Run's own wait, then main returns.
RunWait ==
  /\ Alive /\ run = "wait" /\ Drained
  /\ run' = "exit"
  /\ exit' = "clean"
  /\ UNCHANGED <<sigVars, syncVars, listener, watcher, closed, connVars>>

\* handleConn returns.
Finish(c) ==
  /\ Alive /\ handler[c] = "running"
  /\ handler' = [handler EXCEPT ![c] = "free"]
  /\ wg' = wg - 1
  /\ UNCHANGED <<sigVars, syncVars, listener, runVars>>

Next ==
  \/ Signal \/ Cancel \/ StopHealth \/ DrainClose \/ DrainWait
  \/ Publish \/ StartFetch \/ FetchDone \/ FetchFails \/ StopSync
  \/ Listen \/ WatchContext \/ WatchClose \/ AcceptFails \/ RunWait
  \/ \E c \in Conns : Accept(c) \/ Serve(c) \/ Finish(c)

Spec == Init /\ [][Next]_vars

\* Nothing has to end a connection that holds, but the cut of its host.
Held(c) == c \in Holding /\ (c \in Routed => quarantine # "applied")

\* Every goroutine that can run does, and not every fetch fails.  A handler
\* that does not hold its connection ends: the idle timeout, a hang-up or a
\* cut ends it.  Nobody has to send a signal.
Fairness ==
  /\ WF_vars(Cancel) /\ WF_vars(StopHealth) /\ WF_vars(DrainClose) /\ WF_vars(DrainWait)
  /\ WF_vars(StartFetch) /\ SF_vars(FetchDone) /\ WF_vars(StopSync)
  /\ WF_vars(Listen) /\ WF_vars(WatchContext) /\ WF_vars(WatchClose)
  /\ WF_vars(AcceptFails) /\ WF_vars(RunWait)
  /\ \A c \in Conns : WF_vars(Serve(c)) /\ WF_vars(~Held(c) /\ Finish(c))

FairSpec == Spec /\ Fairness

-----------------------------------------------------------------------------
(* Properties.                                                             *)

\* main returns normally only when every accepted connection has been
\* served to its end, none of them accepted and not yet counted.
CleanExitDrains ==
  exit = "clean" => \A c \in Conns : handler[c] = "free"

\* "Drain stops accepting new connections but waits for existing ones to
\* finish": a shutdown asked for by a signal never ends the process through
\* log.Fatalf with connections open.
SignalledExitDrains ==
  sig # "wait" /\ exit = "fatal" => \A c \in Conns : handler[c] = "free"

\* After a signal the process ends, unless a connection that nothing ends is
\* still open: neither the accept loop, the two waits on wg nor the watcher
\* can be the one that keeps it, nor a connection to a host whose quarantine
\* reached the table.
SignalEndsProcess ==
  sig = "cancel" ~> (~Alive \/ \E c \in Conns : handler[c] = "running" /\ Held(c))

\* A quarantine the service publishes ends the host's connections, those no
\* timeout ends included, unless a shutdown begins: the context that stops
\* the accept loop also stops the syncer, and a connection that drains then
\* is out of the reach of a later quarantine.
QuarantineReachesTraffic ==
  \A c \in Routed :
    quarantine # "none" /\ handler[c] = "running"
      ~> (handler[c] = "free" \/ cancelled \/ ~Alive)

=============================================================================
