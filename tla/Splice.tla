------------------------------- MODULE Splice -------------------------------
(***************************************************************************)
(* The L4 splice of proxy/proxy.go once the hello has been replayed: two   *)
(* copy loops with a read deadline each, half-close, and the tracker's     *)
(* close function, which closes both sockets at any moment.                *)
(*                                                                         *)
(* A direction is a pair of sockets: "up" reads the client and writes the  *)
(* backend, "down" the reverse.  Bytes are counted in units, which a loop  *)
(* takes in order; a socket's send buffer takes Window units its peer has  *)
(* not consumed yet.  The peers, TCP and yamux are external.  Closing the  *)
(* stream of an egress tunnel is a half-close (tunnel.Stream): what the    *)
(* enclave sends can still be read.                                        *)
(***************************************************************************)
EXTENDS Naturals

CONSTANTS MaxSent,  \* units each peer may send
          Window    \* units a socket buffers towards its peer

ASSUME SpliceAssumption == MaxSent \in Nat /\ Window \in Nat \ {0}

Directions == {"up", "down"}

VARIABLES
  tunnelled, \* the backend connection is a stream of an egress tunnel
  sent,      \* units the source of a direction has sent
  fin,       \* the source has half-closed
  copied,    \* units the loop has read
  held,      \* units read and not written yet
  eof,       \* the read that filled held also reported the end
  written,   \* units written to the destination
  consumed,  \* units the destination has taken from its socket
  finOut,    \* CloseWrite was called on the destination
  loop,      \* copyWithIdleTimeout: "read", "write", "ended", "done"
  why,       \* how the loop ended: "", "eof", "idle", "error"
  quiet,     \* the read deadline of the direction has passed
  cut,       \* the tracker's close function has run
  returned   \* splice and handleConn returned: both sockets are closed

peerVars == <<tunnelled, sent, fin, consumed>>
loopVars == <<copied, held, eof, written, finOut, loop, why>>
spliceVars == <<peerVars, loopVars, quiet, cut, returned>>

SpliceInit ==
  /\ tunnelled \in BOOLEAN
  /\ sent = [d \in Directions |-> 0]
  /\ fin = [d \in Directions |-> FALSE]
  /\ copied = [d \in Directions |-> 0]
  /\ held = [d \in Directions |-> 0]
  /\ eof = [d \in Directions |-> FALSE]
  /\ written = [d \in Directions |-> 0]
  /\ consumed = [d \in Directions |-> 0]
  /\ finOut = [d \in Directions |-> FALSE]
  /\ loop = [d \in Directions |-> "read"]
  /\ why = [d \in Directions |-> ""]
  /\ quiet = [d \in Directions |-> FALSE]
  /\ cut = FALSE
  /\ returned = FALSE

\* A wrong SocketsClosed: the cut closes neither socket.
CutClosesNothing == returned

SocketsClosed == cut \/ returned

\* Reads of the direction's source fail: its connection is fully closed.
SourceClosed(d) == SocketsClosed /\ ~(tunnelled /\ d = "down")

-----------------------------------------------------------------------------
(* The peers, the clock and the tracker.                                   *)

Send(d) ==
  /\ sent[d] < MaxSent /\ ~fin[d]
  /\ sent' = [sent EXCEPT ![d] = @ + 1]
  /\ UNCHANGED <<tunnelled, fin, consumed, loopVars, quiet, cut, returned>>

HalfClose(d) ==
  /\ ~fin[d]
  /\ fin' = [fin EXCEPT ![d] = TRUE]
  /\ UNCHANGED <<tunnelled, sent, consumed, loopVars, quiet, cut, returned>>

Consume(d) ==
  /\ consumed[d] < written[d]
  /\ consumed' = [consumed EXCEPT ![d] = @ + 1]
  /\ UNCHANGED <<tunnelled, sent, fin, loopVars, quiet, cut, returned>>

\* idleTimeout passes with nothing to read in this direction.
IdlePasses(d) ==
  /\ loop[d] = "read" /\ copied[d] = sent[d] /\ ~quiet[d]
  /\ quiet' = [quiet EXCEPT ![d] = TRUE]
  /\ UNCHANGED <<peerVars, loopVars, cut, returned>>

CutSplice ==
  /\ ~SocketsClosed
  /\ cut' = TRUE
  /\ UNCHANGED <<peerVars, loopVars, quiet, returned>>

-----------------------------------------------------------------------------
(* copyWithIdleTimeout and the goroutine around it.                        *)

\* The loop leaves its for.
Break(d, reason) ==
  /\ loop' = [loop EXCEPT ![d] = "ended"]
  /\ why' = [why EXCEPT ![d] = reason]

\* Read returns what has arrived, with or without the end that follows it,
\* and restarts the deadline.
Read(d) ==
  /\ loop[d] = "read" /\ ~SourceClosed(d)
  /\ \E n \in 1 .. sent[d] - copied[d] :
       /\ copied' = [copied EXCEPT ![d] = @ + n]
       /\ held' = [held EXCEPT ![d] = n]
       /\ \/ UNCHANGED eof
          \/ fin[d] /\ copied'[d] = sent[d] /\ eof' = [eof EXCEPT ![d] = TRUE]
  /\ loop' = [loop EXCEPT ![d] = "write"]
  /\ quiet' = [quiet EXCEPT ![d] = FALSE]
  /\ UNCHANGED <<peerVars, written, finOut, why, cut, returned>>

\* A wrong Expired: reads without a deadline.
NeverExpires(d) == FALSE

Expired(d) == quiet[d]

\* Read returns nothing: the end, the deadline, or a failed or closed socket.
ReadEnds(d) ==
  /\ loop[d] = "read"
  /\ \/ copied[d] = sent[d] /\ fin[d] /\ ~SourceClosed(d) /\ Break(d, "eof")
     \/ Expired(d) /\ ~SourceClosed(d) /\ Break(d, "idle")
     \/ Break(d, "error")
  /\ UNCHANGED <<peerVars, copied, held, eof, written, finOut, quiet, cut, returned>>

\* Write has no deadline: it goes on as the window opens.
Write(d) ==
  /\ loop[d] = "write" /\ held[d] > 0 /\ ~SocketsClosed
  /\ written[d] - consumed[d] < Window
  /\ written' = [written EXCEPT ![d] = @ + 1]
  /\ held' = [held EXCEPT ![d] = @ - 1]
  /\ UNCHANGED <<peerVars, copied, eof, finOut, loop, why, quiet, cut, returned>>

\* A wrong Flushed: an end that came with data counts before the data.
FlushedAnyway(d) == held[d] = 0 \/ eof[d]

Flushed(d) == held[d] = 0

WriteEnds(d) ==
  /\ loop[d] = "write"
  /\ \/ /\ Flushed(d) /\ ~eof[d]
        /\ loop' = [loop EXCEPT ![d] = "read"]
        /\ UNCHANGED why
     \/ Flushed(d) /\ eof[d] /\ Break(d, "eof")
     \/ ~Flushed(d) /\ Break(d, "error")
  /\ UNCHANGED <<peerVars, copied, held, eof, written, finOut, quiet, cut, returned>>

\* CloseWrite on the destination, and the signal on done.
CloseWrite(d) ==
  /\ loop[d] = "ended"
  /\ loop' = [loop EXCEPT ![d] = "done"]
  /\ finOut' = [finOut EXCEPT ![d] = ~SocketsClosed]
  /\ UNCHANGED <<peerVars, copied, held, eof, written, why, quiet, cut, returned>>

\* A wrong AllDone: one direction is enough.
OneDone == \E d \in Directions : loop[d] = "done"

AllDone == \A d \in Directions : loop[d] = "done"

\* Both directions are done: handleConn returns and closes what is open.
Return ==
  /\ ~returned /\ AllDone
  /\ returned' = TRUE
  /\ UNCHANGED <<peerVars, loopVars, quiet, cut>>

Copy(d) == Read(d) \/ ReadEnds(d) \/ Write(d) \/ WriteEnds(d) \/ CloseWrite(d)

SpliceNext ==
  \/ \E d \in Directions : Send(d) \/ HalfClose(d) \/ Consume(d) \/ IdlePasses(d) \/ Copy(d)
  \/ CutSplice
  \/ Return

SpliceSpec == SpliceInit /\ [][SpliceNext]_spliceVars

\* Time passes and goroutines run.  A read on a closed socket, past its
\* deadline or at the end returns; a write to a closed socket returns.  The
\* peers owe nothing, and a socket need not fail by itself.
ReadMustEnd(d) ==
  ReadEnds(d) /\ (SourceClosed(d) \/ Expired(d) \/ (fin[d] /\ copied[d] = sent[d]))
WriteMustEnd(d) == WriteEnds(d) /\ (SocketsClosed \/ held[d] = 0)

Fairness ==
  /\ \A d \in Directions :
       /\ WF_spliceVars(IdlePasses(d)) /\ WF_spliceVars(Read(d)) /\ WF_spliceVars(ReadMustEnd(d))
       /\ WF_spliceVars(Write(d)) /\ WF_spliceVars(WriteMustEnd(d)) /\ WF_spliceVars(CloseWrite(d))
  /\ WF_spliceVars(Return)

FairSpliceSpec == SpliceSpec /\ Fairness

-----------------------------------------------------------------------------
(* Properties.                                                             *)

SpliceTypeOK ==
  /\ {sent[d] : d \in Directions} \subseteq 0 .. MaxSent
  /\ \A d \in Directions :
       /\ {copied[d], held[d], written[d], consumed[d]} \subseteq 0 .. MaxSent
       /\ {fin[d], eof[d], finOut[d], quiet[d]} \subseteq BOOLEAN
       /\ loop[d] \in {"read", "write", "ended", "done"}
       /\ why[d] \in {"", "eof", "idle", "error"}
  /\ {tunnelled, cut, returned} \subseteq BOOLEAN

\* The end of a stream is passed on only behind all of it: a destination
\* that sees a FIN for a source that half-closed has been sent every unit.
FinFollowsAllData ==
  \A d \in Directions : finOut[d] /\ why[d] = "eof" => written[d] = sent[d]

\* A half-close in one direction leaves the other alone: unless it is cut,
\* the splice closes its sockets only after both directions have ended.
\* What a loop read is in order and never written twice.
HalfCloseKeepsOther ==
  [][\A d \in Directions :
       /\ written'[d] - written[d] \in {0, 1} /\ written'[d] <= copied[d]
       /\ returned' /\ ~returned /\ ~cut => finOut[d] /\ why[d] # ""]_spliceVars

\* A quarantine's close function ends the handler, even one whose write was
\* blocked by a peer that does not read.  With a tunnel it takes the read
\* deadline, since closing the stream does not end the read from the enclave.
CutEndsSplice == cut ~> returned

\* Without a cut, the deadlines end a splice whose peers fell silent, unless
\* a write is blocked for ever.
Blocked(d) == loop[d] = "write" /\ held[d] > 0
SilentSpliceEnds == <>returned \/ <>[](\E d \in Directions : Blocked(d))

=============================================================================
