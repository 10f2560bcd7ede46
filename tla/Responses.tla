----------------------------- MODULE Responses -----------------------------
(***************************************************************************)
(* One terminated keep-alive connection: the request loop serveHTTP        *)
(* (terminate/terminate.go), the response writer it hands to the reverse   *)
(* proxy (terminate/io.go), and the client that parses what comes back.    *)
(*                                                                         *)
(* A response on the wire is a sequence of tokens: a head, which tells the *)
(* client how the body is framed, then the pieces of the body.  External:  *)
(* the client (one request at a time, HTTP/1.1 rules), the enclave, and    *)
(* httputil.ReverseProxy, which copies a reply into the writer, gives up   *)
(* without a word when the copy fails, and hijacks on an upgrade.  It      *)
(* strips Connection and Transfer-Encoding from a reply, so the writer's   *)
(* closeRequested is never set and is left out.                            *)
(***************************************************************************)
EXTENDS Naturals, Sequences, FiniteSets

CONSTANTS MaxRequests,  \* requests on the connection
          MaxBody,      \* pieces of a body
          Requests,     \* what the client may ask
          Replies       \* what the enclave may answer

RequestType == [kind : {"get", "head", "options", "upgrade", "sealed"},
                close : BOOLEAN,    \* Connection: close
                allowed : BOOLEAN]  \* its Origin is on the allow-list

\* bodyless: a 204 or a 304.  origin: the reply's own CORS headers, on a
\* response marked public ("public": none, "open": "*") or not.
ReplyType == [bodyless : BOOLEAN, length : BOOLEAN, body : 0 .. MaxBody,
              origin : {"none", "own", "public", "open"}]

ASSUME BoundsAssumption == MaxRequests \in Nat /\ MaxBody \in Nat \ {0}
ASSUME InputsAssumption == Requests \subseteq RequestType /\ Replies \subseteq ReplyType

VARIABLES
  pc,        \* serveHTTP
  sent,      \* requests the client has sent
  req,       \* the request being served
  reply,     \* what the enclave answers to it
  copied,    \* pieces of the body copied so far
  failed,    \* the copy of the body broke off
  w,         \* connResponseWriter: wroteHeader, chunked, hijacked
  buf,       \* tokens in the writer's buffer
  deadline,  \* the write deadline: "none", "armed", "passed"
  conn,      \* the connection: "up", "broken" (writes fail), "closed"
  cors,      \* the CORS headers of the last head written, a tunnel's excepted
  wire,      \* tokens the client has not read
  client,    \* the client's parser and how much body it has taken
  unframed   \* a head was written that does not tell the client the framing

proxyVars == <<reply, copied, failed, cors, unframed>>
writerVars == <<w, buf, deadline>>
vars == <<pc, sent, req, proxyVars, writerVars, conn, wire, client>>

Tok(kind, k) == [kind |-> kind, n |-> k]
Tokens == [kind : {"chunkedHead", "lengthHead", "emptyHead", "interim", "switch",
                   "chunk", "raw", "last", "frame"}, n : 0 .. MaxBody]
Fresh == [wroteHeader |-> FALSE, chunked |-> FALSE, hijacked |-> FALSE]

TypeOK ==
  /\ pc \in {"read", "serve", "proxy", "copy", "hijack", "tunnel", "ended", "closing", "closed"}
  /\ sent \in 0 .. MaxRequests
  /\ req \in RequestType /\ reply \in ReplyType
  /\ copied \in 0 .. MaxBody /\ failed \in BOOLEAN
  /\ w \in [wroteHeader : BOOLEAN, chunked : BOOLEAN, hijacked : BOOLEAN]
  /\ buf \in Seq(Tokens) /\ wire \in Seq(Tokens)
  /\ deadline \in {"none", "armed", "passed"}
  /\ conn \in {"up", "broken", "closed"}
  /\ cors \in [origin : SUBSET {"echo", "own", "*"}, credentials : BOOLEAN,
               vary : SUBSET {"Origin", "other"}]
  /\ client \in [at : {"idle", "head", "chunks", "length", "tunnel", "confused", "eof"},
                 left : 0 .. MaxBody, got : 0 .. MaxBody]
  /\ unframed \in BOOLEAN

-----------------------------------------------------------------------------
(* CORS headers.                                                           *)

NoCORS == [origin |-> {}, credentials |-> FALSE, vary |-> {}]
Echo == [origin |-> {"echo"}, credentials |-> TRUE, vary |-> {"Origin"}]

\* What serveHTTP puts on the writer, except that of a sealed WebSocket, and
\* what a refusal or preflight carries.
Injected == IF req.allowed THEN Echo ELSE NoCORS
OnWriter == IF req.kind = "sealed" THEN NoCORS ELSE Injected

isPublicResponse(r) == r.origin \in {"public", "open"}

\* The reply's headers as the enclave sent them.
UpstreamCORS(r) ==
  CASE r.origin = "own"  -> [origin |-> {"own"}, credentials |-> TRUE,
                             vary |-> {"Origin", "other"}]
    [] r.origin = "open" -> [origin |-> {"*"}, credentials |-> FALSE, vary |-> {"other"}]
    [] OTHER -> [NoCORS EXCEPT !.vary = {"other"}]

\* A wrong ModifyResponse: the reply's own headers are kept.
ModifyNothing(r) == UpstreamCORS(r)

ModifyResponse(r) ==
  IF isPublicResponse(r)
  THEN [UpstreamCORS(r) EXCEPT !.credentials = FALSE]
  ELSE [NoCORS EXCEPT !.vary = UpstreamCORS(r).vary \ {"Origin"}]

\* The proxy adds the reply's headers to those on the writer.
Merged(g, u) == [origin |-> g.origin \cup u.origin,
                 credentials |-> g.credentials \/ u.credentials,
                 vary |-> g.vary \cup u.vary]

reconcilePublicCORS(h, public) ==
  IF ~public THEN h
  ELSE IF "*" \in h.origin
       THEN [origin |-> {"*"}, credentials |-> FALSE, vary |-> {}]
       ELSE [h EXCEPT !.credentials = FALSE]

-----------------------------------------------------------------------------
(* connResponseWriter.                                                     *)

\* The client takes no body after this head, whatever the head says.
NoBody(r) == req.kind = "head" \/ r.bodyless

Chunked(r) == ~r.length

\* A wrong HeadToken: the head of a body does not tell its length.
HeadWithoutLength(r) == Tok(IF Chunked(r) /\ ~NoBody(r) THEN "chunkedHead" ELSE "emptyHead", 0)

HeadToken(r) ==
  IF NoBody(r) THEN Tok("emptyHead", 0)
  ELSE IF Chunked(r) THEN Tok("chunkedHead", 0) ELSE Tok("lengthHead", r.body)

\* WriteHeader with a final status: a no-op once a head has been written, an
\* interim one included.  It arms the deadline; h are the CORS headers on the
\* writer, HeadOut is what it buffers.
HeadOut(r) == IF w.wroteHeader THEN <<>> ELSE <<HeadToken(r)>>
WriteHeader(r, h) ==
  IF w.wroteHeader THEN UNCHANGED <<w, deadline, cors, unframed>>
  ELSE /\ w' = [w EXCEPT !.wroteHeader = TRUE, !.chunked = Chunked(r)]
       /\ deadline' = "armed"
       /\ cors' = reconcilePublicCORS(h, isPublicResponse(r))
       /\ unframed' = (unframed \/ (Chunked(r) /\ NoBody(r)))

\* Flushing what is buffered.  A write after the deadline, or on a dead
\* connection, fails for good; some of the tokens may have gone out.
Flush(out) ==
  IF out = <<>> THEN buf' = <<>> /\ UNCHANGED <<wire, conn>>
  ELSE IF conn = "up" /\ deadline # "passed"
  THEN buf' = <<>> /\ wire' = wire \o out /\ UNCHANGED conn
  ELSE /\ buf' = <<>>
       /\ conn' = IF conn = "up" THEN "broken" ELSE conn
       /\ \E i \in 0 .. (IF conn = "up" THEN Len(out) - 1 ELSE 0) :
            wire' = wire \o SubSeq(out, 1, i)

\* Buffering: the buffer may fill up and go out by itself.
Buffer(out) == Flush(out) \/ (buf' = out /\ UNCHANGED <<wire, conn>>)

-----------------------------------------------------------------------------
Init ==
  /\ pc = "read" /\ sent = 0
  /\ req = [kind |-> "get", close |-> FALSE, allowed |-> FALSE]
  /\ reply = [bodyless |-> FALSE, length |-> TRUE, body |-> 0, origin |-> "none"]
  /\ copied = 0 /\ failed = FALSE
  /\ w = Fresh /\ buf = <<>> /\ deadline = "none"
  /\ conn = "up" /\ cors = NoCORS /\ wire = <<>>
  /\ client = [at |-> "idle", left |-> 0, got |-> 0]
  /\ unframed = FALSE

(* serveHTTP.                                                              *)

\* The client sends its next request and the loop reads it.
ReadRequest ==
  /\ pc = "read" /\ conn = "up" /\ client.at = "idle"
  /\ sent < MaxRequests
  /\ sent' = sent + 1
  /\ req' \in Requests
  /\ pc' = "serve"
  /\ client' = [at |-> "head", left |-> 0, got |-> 0]
  /\ UNCHANGED <<proxyVars, writerVars, conn, wire>>

\* A wrong Ended: a loop waiting for a request waits for ever.
OnlyClosing == pc = "closing"

Ended == pc \in {"read", "closing"}

\* The loop returns, also when the idle timeout passes or the client has
\* gone, and Handle closes the connection.
Return ==
  /\ Ended
  /\ pc' = "closed" /\ conn' = "closed"
  /\ UNCHANGED <<sent, req, proxyVars, writerVars, wire, client>>

\* An answer written past the writer, straight onto the connection.
Direct(out) ==
  /\ wire' = IF conn = "up" THEN wire \o out ELSE wire
  /\ copied' = 0 /\ failed' = FALSE
  /\ UNCHANGED <<sent, req, unframed, writerVars, conn, client>>

isPreflight == req.kind = "options" /\ req.allowed

\* writeCORSPreflight: a 204 with Content-Length: 0, and the loop goes on.
Preflight ==
  /\ pc = "serve" /\ isPreflight
  /\ Direct(<<Tok("emptyHead", 0)>>)
  /\ reply' = [reply EXCEPT !.bodyless = TRUE]
  /\ cors' = Injected
  /\ pc' = "read"

\* quarantine.WriteHTTP: one answer with its length, without its body for a
\* HEAD.
WriteHTTP == IF req.kind = "head" THEN <<Tok("emptyHead", 0)>>
             ELSE <<Tok("lengthHead", 1), Tok("raw", 0)>>

\* refuseQuarantined, or writeStatus on a sealed WebSocket, which is a GET
\* and has the same form without CORS headers; the loop returns.
Refuse ==
  /\ pc = "serve" /\ ~isPreflight
  /\ Direct(WriteHTTP)
  /\ reply' = [bodyless |-> FALSE, length |-> TRUE, body |-> 1, origin |-> "none"]
  /\ \/ cors' = [Injected EXCEPT !.vary = @ \cup {"other"}]
     \/ req.kind = "sealed" /\ cors' = NoCORS
  /\ pc' = "closing"

\* The request goes to the proxy, or a sealed one to websocket.Accept, with
\* a new writer.
Forward ==
  /\ pc = "serve" /\ ~isPreflight
  /\ w' = Fresh /\ buf' = <<>>
  /\ copied' = 0 /\ failed' = FALSE
  /\ pc' = "proxy"
  /\ UNCHANGED <<sent, req, reply, cors, unframed, deadline, conn, wire, client>>

\* The close function of a quarantine cut, while the request is tracked.
Cut ==
  /\ pc \in {"proxy", "copy", "hijack", "tunnel"} /\ req.kind # "sealed"
  /\ conn' = "closed"
  /\ UNCHANGED <<pc, sent, req, proxyVars, writerVars, wire, client>>

\* A wrong ClearDeadline: the deadline stays on the connection.
LeaveDeadline == UNCHANGED deadline
\* A wrong FinalFlush: the end of the response stays in the buffer.
HoldBack(out) == buf' = out /\ UNCHANGED <<wire, conn>>
\* A wrong Finalises: a hijacked connection is finalised like any other.
FinalisesAll == req.kind # "sealed"

\* What flushClose does last, and when serveHTTP calls it.
ClearDeadline == deadline' = "none"
FinalFlush(out) == Flush(out)
Finalises == req.kind # "sealed" /\ ~w.hijacked

\* ServeHTTP has returned.  The response is finalised by flushClose (a 200
\* if nothing was written), unless the connection was hijacked.
EndOfServe ==
  /\ pc = "ended"
  /\ \/ /\ Finalises
        /\ FinalFlush(IF w.wroteHeader
                      THEN buf \o (IF w.chunked THEN <<Tok("last", 0)>> ELSE <<>>)
                      ELSE <<Tok("chunkedHead", 0), Tok("last", 0)>>)
        /\ ClearDeadline
        /\ pc' = IF req.close THEN "closing" ELSE "read"
     \/ ~Finalises /\ pc' = "closing" /\ UNCHANGED <<buf, deadline, conn, wire>>
  /\ UNCHANGED <<sent, req, proxyVars, w, client>>

-----------------------------------------------------------------------------
(* httputil.ReverseProxy and websocket.Accept (external) on the writer.    *)

loopVars == <<sent, req, client>>

\* An interim response is passed on through WriteHeader, which writes it as
\* the one head it will write.
Interim ==
  /\ pc = "proxy" /\ req.kind # "sealed" /\ ~w.wroteHeader
  /\ w' = [w EXCEPT !.wroteHeader = TRUE]
  /\ deadline' = "armed" /\ cors' = Injected /\ unframed' = TRUE
  /\ Buffer(Append(buf, Tok("interim", 0)))
  /\ UNCHANGED <<pc, loopVars, reply, copied, failed>>

\* The reply's head arrives.
Reply ==
  /\ pc = "proxy" /\ req.kind # "sealed"
  /\ reply' \in Replies
  /\ WriteHeader(reply', Merged(OnWriter, ModifyResponse(reply')))
  /\ Buffer(buf \o HeadOut(reply'))
  /\ pc' = "copy"
  /\ UNCHANGED <<loopVars, copied, failed>>

\* ErrorHandler's 502 when the enclave cannot be reached, or http.Error when
\* Accept refuses the upgrade: a head and one piece.
ErrorReply ==
  /\ pc = "proxy"
  /\ reply' = [bodyless |-> FALSE, length |-> FALSE, body |-> 1, origin |-> "none"]
  /\ WriteHeader(reply', OnWriter)
  /\ IF w'.chunked THEN Flush(buf \o HeadOut(reply') \o <<Tok("chunk", 0)>>)
                   ELSE Buffer(Append(buf, Tok("raw", 0)))
  /\ copied' = 1
  /\ pc' = "ended"
  /\ UNCHANGED <<loopVars, failed>>

\* Write: one piece of the body, flushed at once when chunked.
CopyPiece ==
  /\ pc = "copy" /\ conn = "up"
  /\ ~NoBody(reply) /\ copied < reply.body
  /\ IF w.chunked THEN Flush(Append(buf, Tok("chunk", 0)))
                  ELSE Buffer(Append(buf, Tok("raw", 0)))
  /\ copied' = copied + 1
  /\ UNCHANGED <<pc, loopVars, reply, failed, cors, unframed, w, deadline>>

\* The copy ends, or breaks off: the enclave or the connection is lost, or
\* a cut cancels the request.
CopyEnds ==
  /\ pc = "copy"
  /\ failed' = (~NoBody(reply) /\ copied < reply.body)
  /\ pc' = "ended"
  /\ UNCHANGED <<loopVars, reply, copied, cors, unframed, writerVars, conn, wire>>

\* The upgrade is granted.  Accept writes the 101 through the writer before
\* it hijacks; the proxy hijacks and then writes it.
Upgrade ==
  /\ pc = "proxy"
  /\ \/ req.kind = "upgrade" /\ UNCHANGED <<writerVars, cors>>
     \/ /\ req.kind = "sealed"
        /\ w' = [w EXCEPT !.wroteHeader = TRUE]
        /\ deadline' = "armed" /\ cors' = NoCORS
        /\ buf' = <<Tok("switch", 0)>>
  /\ pc' = "hijack"
  /\ UNCHANGED <<loopVars, reply, copied, failed, unframed, conn, wire>>

\* Hijack flushes, clears the deadlines and hands the connection over.
Hijack ==
  /\ pc = "hijack"
  /\ w' = [w EXCEPT !.hijacked = TRUE]
  /\ Flush(IF req.kind = "sealed" THEN buf ELSE Append(buf, Tok("switch", 0)))
  /\ ClearDeadline
  /\ pc' = IF conn' = "up" THEN "tunnel" ELSE "ended"
  /\ UNCHANGED <<loopVars, proxyVars>>

\* The tunnel carries a frame, or ends.
Tunnel ==
  /\ pc = "tunnel"
  /\ \/ conn = "up" /\ wire = <<>> /\ wire' = <<Tok("frame", 0)>> /\ UNCHANGED pc
     \/ pc' = "ended" /\ UNCHANGED wire
  /\ UNCHANGED <<loopVars, proxyVars, writerVars, conn>>

\* Sixty seconds have passed since the head was written.
DeadlinePasses ==
  /\ deadline = "armed"
  /\ deadline' = "passed"
  /\ UNCHANGED <<pc, loopVars, proxyVars, w, buf, conn, wire>>

-----------------------------------------------------------------------------
(* The client (external).                                                  *)

Parsed(c, t) ==
  LET to(place) == [c EXCEPT !.at = place]
      take == [c EXCEPT !.got = @ + 1]
  IN CASE c.at = "head" /\ t.kind = "interim" -> c
       [] c.at = "head" /\ t.kind = "emptyHead" -> to("idle")
       [] c.at = "head" /\ t.kind = "chunkedHead" -> to("chunks")
       [] c.at = "head" /\ t.kind = "lengthHead" ->
            [c EXCEPT !.at = IF t.n = 0 THEN "idle" ELSE "length", !.left = t.n]
       [] c.at = "head" /\ t.kind = "switch" -> to("tunnel")
       [] c.at = "chunks" /\ t.kind = "chunk" -> take
       [] c.at = "chunks" /\ t.kind = "last" -> to("idle")
       [] c.at = "length" /\ t.kind = "raw" ->
            [take EXCEPT !.left = @ - 1, !.at = IF c.left = 1 THEN "idle" ELSE "length"]
       [] c.at = "tunnel" /\ t.kind = "frame" -> c
       [] OTHER -> to("confused")

ClientReads ==
  /\ wire # <<>> /\ client.at \notin {"confused", "eof"}
  /\ client' = Parsed(client, Head(wire))
  /\ wire' = Tail(wire)
  /\ UNCHANGED <<pc, sent, req, proxyVars, writerVars, conn>>

\* The client sees the end of the connection, or leaves.
ClientEnds ==
  /\ client.at # "eof"
  /\ client' = [client EXCEPT !.at = "eof"]
  /\ \/ conn = "closed" /\ wire = <<>> /\ UNCHANGED <<wire, conn>>
     \/ conn # "closed" /\ conn' = "broken" /\ wire' = <<>>
  /\ UNCHANGED <<pc, sent, req, proxyVars, writerVars>>

-----------------------------------------------------------------------------
Loop == Return \/ Preflight \/ Refuse \/ Forward \/ EndOfServe
Proxy == Interim \/ Reply \/ ErrorReply \/ CopyPiece \/ CopyEnds \/ Upgrade \/ Hijack

Next == \/ ReadRequest \/ Loop \/ Cut \/ Proxy \/ Tunnel \/ DeadlinePasses
        \/ ClientReads \/ ClientEnds

Spec == Init /\ [][Next]_vars

\* The loop and the proxy run on: the enclave answers a request or its
\* connection fails.  A loop waiting for a request is ended by the idle
\* timeout.  The client reads what arrives, the end included.
Fairness ==
  /\ WF_vars(Loop) /\ WF_vars(Proxy)
  /\ WF_vars(ClientReads) /\ WF_vars(conn = "closed" /\ ClientEnds)

FairSpec == Spec /\ Fairness

-----------------------------------------------------------------------------
(* Properties.                                                             *)

\* The client stays in step with the loop over all the responses of a
\* connection, refusals, preflights, cut responses and tunnels included: it
\* never meets a token where it expects something else.  Excepted are the
\* heads the writer does not frame for the client: an interim response,
\* after which the final head is dropped, and a chunked answer to a HEAD or
\* with a status that has no body.
ClientStaysInStep == client.at = "confused" => unframed

\* A response the client takes for complete is the enclave's whole response,
\* also when writes time out, the client is slow or a quarantine cuts it.
\* Excepted is a chunked body whose copy broke off: flushClose ends it like
\* a whole one.  A body with a length is never taken for more than it is.
CompleteIsWhole ==
  client.at = "idle" /\ sent > 0 /\ ~NoBody(reply) /\ ~unframed
    => client.got = reply.body \/ (failed /\ w.chunked)

\* Nothing the loop has answered is held back: when it waits for the next
\* request, or for the next piece of a streamed body, the writer's buffer is
\* empty.
NothingHeldBack ==
  pc = "read" \/ (pc = "copy" /\ w.chunked /\ copied > 0) => buf = <<>>

\* The write deadline belongs to one response: it is on while that response
\* is written, and never when the loop waits for a request, answers the next
\* one, or has given the connection to a tunnel.
DeadlineStaysWithResponse ==
  pc \in {"read", "serve", "tunnel"} => deadline = "none"

\* A browser gets one CORS decision: at most one Allow-Origin, credentials
\* with the gateway's echo of the origin only, never on a public response,
\* and an echo is marked as varying with the origin.
OneCorsDecision ==
  /\ Cardinality(cors.origin) <= 1
  /\ cors.credentials => cors.origin = {"echo"}
  /\ "echo" \in cors.origin => "Origin" \in cors.vary
  /\ pc = "copy" /\ isPublicResponse(reply) /\ ~unframed => ~cors.credentials

\* A client that waits for an answer is released: it gets the response to its
\* end, a tunnel, or the end of the connection.  A response that could not
\* be written leaves the client to the idle timeout.
ClientIsReleased ==
  client.at \in {"head", "chunks", "length"}
    ~> client.at \notin {"head", "chunks", "length"}

=============================================================================
