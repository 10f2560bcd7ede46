------------------------------ MODULE Dispatch ------------------------------
(***************************************************************************)
(* The front of proxy.handleConn (proxy/proxy.go, sni/sni.go): reading the *)
(* ClientHello from however many segments it comes in, choosing what       *)
(* serves the connection, and handing over the bytes already consumed.     *)
(*                                                                         *)
(* A client's bytes are numbered units: unit 1 is the record header, the   *)
(* hello ends with unit hello.len, and what the client sent behind it      *)
(* follows.  Table changes and the tracker are left to QuarantineCut, the  *)
(* copy loops to Splice: here the route is the one the lookup returned.    *)
(***************************************************************************)
EXTENDS Naturals, Sequences, Functions

CONSTANTS Hellos,      \* what clients send: [len, total, form, alpns]
          Routes,      \* routes a hostname may have
          NoRoute,     \* the lookup found nothing
          BufferSize   \* g.bufferSize, in units

ASSUME BufferAssumption == BufferSize \in Nat \ {0} /\ NoRoute \notin Routes
ASSUME HellosAssumption == \A h \in Hellos : h.len \in Nat /\ h.total \in Nat

VARIABLES
  hello, route, terminator, tunnels,  \* the case at hand
  arrived,  \* units the client has sent
  n,        \* units in buf
  pc,       \* "reading", "chosen", "dialed", "header", "serving", "closed"
  choice,   \* what serves the connection
  pre,      \* units of buf the server behind a prefixConn has still to read
  got       \* what the enclave or the TLS server has been given, in order

case == <<hello, route, terminator, tunnels>>
vars == <<case, arrived, n, pc, choice, pre, got>>

Init ==
  /\ hello \in Hellos
  /\ route \in Routes \cup {NoRoute}
  /\ terminator \in BOOLEAN
  /\ tunnels \in BOOLEAN
  /\ arrived = 0
  /\ n = 0
  /\ pc = "reading"
  /\ choice = "none"
  /\ pre = 0
  /\ got = << >>

-----------------------------------------------------------------------------
(* sni.ParseClientHello on the first k units of the hello.                 *)

\* A wrong Whole: the record length without its header.
WholeRecord(k) == k >= hello.len - 1

Whole(k) == k >= hello.len

ParseClientHello(k) ==
  IF k < 1 THEN "truncated"
  ELSE IF hello.form = "notTLS" THEN "notTLS"
  ELSE IF ~Whole(k) THEN "truncated"
  ELSE hello.form

HasALPN(proto) == proto \in Range(hello.alpns)

\* Only the single protocol acme-tls/1 is a challenge.
IsACMEChallengeOnly == hello.alpns = <<"acme">>

\* routetable.Route
IsDirect == route.mode = "direct" \/ (route.mode = "pending" /\ IsACMEChallengeOnly)

-----------------------------------------------------------------------------
(* What serves the connection, in the order handleConn asks.               *)

\* A wrong IsAlias: adopter hostnames are like others.
NoAlias == FALSE

IsAlias == route.alias

Choice ==
  IF tunnels /\ HasALPN("tunnel") THEN "tunnel"
  ELSE IF route = NoRoute THEN "404"
  ELSE IF ~IsDirect /\ IsAlias THEN "404"
  ELSE IF ~IsDirect /\ ~HasALPN("ratls") /\ terminator THEN "terminate"
  ELSE IF route.quarantined THEN "alert" ELSE "splice"

ClientSends ==
  /\ arrived < hello.total
  /\ arrived' = arrived + 1
  /\ UNCHANGED <<case, n, pc, choice, pre, got>>

\* A wrong Room: a full buffer is read into once more.
RoomAtLimit == n <= BufferSize

\* Room for another Read.
Room == n < BufferSize

\* One Read and the parse that follows it.  A hello that is still truncated
\* goes round again while the buffer has room; any other error closes.
ReadHello ==
  /\ pc = "reading"
  /\ \E m \in 0 .. arrived - n :
       /\ m > 0 \/ n = BufferSize
       /\ n + m <= BufferSize
       /\ n' = n + m
  /\ LET err == ParseClientHello(n')
     IN \/ err = "ok" /\ pc' = "chosen" /\ choice' = Choice
        \/ err = "truncated" /\ Room' /\ UNCHANGED <<pc, choice>>
        \/ err # "ok" /\ ~(err = "truncated" /\ Room') /\ pc' = "closed" /\ UNCHANGED choice
  /\ UNCHANGED <<case, arrived, pre, got>>

\* The client hangs up, or the five seconds for the whole hello are over.
ReadFails ==
  /\ pc = "reading" /\ n < BufferSize
  /\ pc' = "closed"
  /\ UNCHANGED <<case, arrived, n, choice, pre, got>>

\* The TLS servers (404, terminate, tunnel) read through a prefixConn that
\* holds what was consumed.
HandOver ==
  /\ pc = "chosen" /\ choice \in {"404", "terminate", "tunnel"}
  /\ pc' = "serving"
  /\ pre' = n
  /\ UNCHANGED <<case, arrived, n, choice, got>>

\* prefixConn.Read: the prefix first, in pieces as large as the reader asks.
PrefixRead ==
  /\ pc = "serving" /\ choice # "splice" /\ pre > 0
  /\ \E k \in 1 .. pre :
       /\ got' = got \o [i \in 1 .. k |-> n - pre + i]
       /\ pre' = pre - k
  /\ UNCHANGED <<case, arrived, n, pc, choice>>

\* The alert goes to the client; nothing is dialed.
Refuse ==
  /\ pc = "chosen" /\ choice = "alert"
  /\ pc' = "closed"
  /\ UNCHANGED <<case, arrived, n, choice, pre, got>>

Dial ==
  /\ pc = "chosen" /\ choice = "splice"
  /\ \/ pc' = "dialed"
     \/ pc' = "closed"
  /\ UNCHANGED <<case, arrived, n, choice, pre, got>>

WantsHeader == IsDirect /\ route.pp /\ ~route.tunnelled

\* The PROXY header, when the route asks for one; a failed write closes.
WriteHeader ==
  /\ pc = "dialed"
  /\ \/ pc' = "header" /\ got' = (IF WantsHeader THEN Append(got, 0) ELSE got)
     \/ WantsHeader /\ pc' = "closed" /\ UNCHANGED got
  /\ UNCHANGED <<case, arrived, n, choice, pre>>

\* A wrong Buffered: the hello without what followed it.
HelloOnly == [i \in 1 .. hello.len |-> i]

Buffered == [i \in 1 .. n |-> i]

Replay ==
  /\ pc = "header"
  /\ \/ pc' = "serving" /\ got' = got \o Buffered
     \/ pc' = "closed" /\ UNCHANGED got
  /\ UNCHANGED <<case, arrived, n, choice, pre>>

\* Reads behind the buffer: the splice, or the TLS server past its prefix.
ReadOn ==
  /\ pc = "serving"
  /\ choice = "splice" \/ pre = 0
  /\ n < arrived
  /\ n' = n + 1
  /\ got' = Append(got, n')
  /\ UNCHANGED <<case, arrived, pc, choice, pre>>

Next ==
  \/ ClientSends \/ ReadHello \/ ReadFails \/ HandOver \/ PrefixRead
  \/ Refuse \/ Dial \/ WriteHeader \/ Replay \/ ReadOn

Spec == Init /\ [][Next]_vars

\* The deadline on the hello passes; a Read that can return does.
FairSpec == Spec /\ WF_vars(ReadFails) /\ WF_vars(ReadHello)

-----------------------------------------------------------------------------
(* Properties.                                                             *)

TypeOK ==
  /\ n \in 0 .. arrived /\ arrived \in 0 .. hello.total
  /\ pc \in {"reading", "chosen", "dialed", "header", "serving", "closed"}
  /\ choice \in {"none", "tunnel", "404", "terminate", "alert", "splice"}
  /\ pre \in 0 .. n

\* A PROXY header stands before the client's bytes.
HeaderLen == IF got # << >> /\ got[1] = 0 THEN 1 ELSE 0

\* Segments, bytes sent behind the hello and the size of the buffer do not
\* show: whatever is given the connection sees the client's bytes from the
\* first on, each once and in order, a splice behind at most one PROXY header.
StreamIntact ==
  /\ \A i \in DOMAIN got : i > HeaderLen => got[i] = i - HeaderLen
  /\ HeaderLen = 1 => choice = "splice"

\* No part of a hello decides: a connection is routed only by a hello that
\* was read whole, and one the buffer cannot hold is never routed.
WholeHelloDecides ==
  choice # "none" => n >= hello.len /\ hello.len <= BufferSize /\ hello.form = "ok"

\* An adopter hostname is never terminated, the enclave behind a quarantined
\* route never sees a byte of a splice, and an enclave reached by a tunnel
\* is never sent a PROXY header, whatever the client offers in its ALPN.
RouteRespected ==
  /\ choice \in {"terminate", "alert", "splice"} => route # NoRoute
  /\ choice = "terminate" => ~route.alias /\ route.mode # "direct"
  /\ choice = "splice" /\ got # << >> =>
       ~route.quarantined /\ (got[1] = 0 => ~route.tunnelled /\ route.pp)

\* Every connection is decided or closed: the loop does not spin on a full
\* buffer and the deadline covers the whole hello.
HelloLoopEnds == <>(pc # "reading")

=============================================================================
