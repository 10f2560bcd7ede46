--------------------------- MODULE ResponsesProofs ---------------------------
(***************************************************************************)
(* The safety of a terminated connection for any number of requests, any   *)
(* length of bodies and any requests and replies.                          *)
(***************************************************************************)
EXTENDS Responses, TLAPS

-----------------------------------------------------------------------------
(* Types.                                                                  *)

ClientType == [at : {"idle", "head", "chunks", "length", "tunnel", "confused", "eof"},
               left : Nat, got : Nat]
WriterType == [wroteHeader : BOOLEAN, chunked : BOOLEAN, hijacked : BOOLEAN]

Types ==
  /\ req \in RequestType /\ reply \in ReplyType
  /\ copied \in Nat /\ failed \in BOOLEAN /\ unframed \in BOOLEAN
  /\ w \in WriterType
  /\ buf \in Seq(Tokens) /\ wire \in Seq(Tokens)
  /\ deadline \in {"none", "armed", "passed"}
  /\ conn \in {"up", "broken", "closed"}
  /\ client \in ClientType /\ (client.at = "length" => client.left > 0)

\* The connection starts with nothing on it.
LEMMA InitTypes == Init => Types
<1> SUFFICES ASSUME Init PROVE Types
  OBVIOUS
<1>1. req \in RequestType
  BY DEF Init, RequestType
<1>2. reply \in ReplyType
  BY BoundsAssumption DEF Init, ReplyType
<1>3. w \in WriterType /\ client \in ClientType /\ client.at = "idle"
  BY DEF Init, Fresh, WriterType, ClientType
<1>4. buf \in Seq(Tokens) /\ wire \in Seq(Tokens)
  BY DEF Init
<1> QED
  BY <1>1, <1>2, <1>3, <1>4 DEF Init, Types

\* Tokens the writer can put on the connection.
LEMMA TokType ==
  ASSUME NEW k \in {"chunkedHead", "lengthHead", "emptyHead", "interim", "switch",
                    "chunk", "raw", "last", "frame"}, NEW n \in 0 .. MaxBody
  PROVE  Tok(k, n) \in Tokens
BY DEF Tok, Tokens

\* The same for the tokens without a length.
LEMMA PlainTok ==
  ASSUME NEW k \in {"chunkedHead", "lengthHead", "emptyHead", "interim", "switch",
                    "chunk", "raw", "last", "frame"}
  PROVE  Tok(k, 0) \in Tokens
BY BoundsAssumption, TokType

Prefix(s, t) == Len(s) <= Len(t) /\ \A i \in 1 .. Len(s) : s[i] = t[i]

\* The elements of a concatenation.
LEMMA Concatenation ==
  ASSUME NEW s \in Seq(Tokens), NEW t \in Seq(Tokens)
  PROVE  /\ s \o t \in Seq(Tokens) /\ Len(s \o t) = Len(s) + Len(t)
         /\ \A i \in 1 .. Len(s) + Len(t) :
              (s \o t)[i] = IF i <= Len(s) THEN s[i] ELSE t[i - Len(s)]
OBVIOUS

\* What buffering and flushing do: what reaches the wire is a prefix of what
\* was meant for it, and all of it unless the connection is lost.
LEMMA Out ==
  ASSUME Types, NEW out \in Seq(Tokens), Buffer(out)
  PROVE  /\ buf' \in Seq(Tokens) /\ wire' \in Seq(Tokens)
         /\ conn' \in {"up", "broken", "closed"}
         /\ Prefix(wire', wire \o out)
         /\ conn # "up" => UNCHANGED <<wire, conn>>
         /\ conn' = "up" => wire' \o buf' = wire \o out
<1>0. wire \in Seq(Tokens) /\ conn \in {"up", "broken", "closed"}
  BY DEF Types
<1>1. wire \o out \in Seq(Tokens) /\ Prefix(wire, wire \o out) /\ wire \o <<>> = wire
  BY <1>0 DEF Prefix
<1>2. CASE buf' = out /\ UNCHANGED <<wire, conn>>
  BY <1>0, <1>1, <1>2
<1>3. CASE out = <<>> /\ buf' = <<>> /\ UNCHANGED <<wire, conn>>
  BY <1>0, <1>1, <1>3
<1>4. CASE conn = "up" /\ buf' = <<>> /\ wire' = wire \o out /\ UNCHANGED conn
  BY <1>0, <1>1, <1>4 DEF Prefix
<1>5. CASE /\ buf' = <<>> /\ out # <<>>
           /\ conn' = IF conn = "up" THEN "broken" ELSE conn
           /\ \E i \in 0 .. (IF conn = "up" THEN Len(out) - 1 ELSE 0) :
                wire' = wire \o SubSeq(out, 1, i)
  <2>1. PICK i \in 0 .. (IF conn = "up" THEN Len(out) - 1 ELSE 0) :
               wire' = wire \o SubSeq(out, 1, i)
    BY <1>5
  <2>2. i \in 0 .. Len(out) /\ Len(out) \in Nat
    BY <1>5
  <2>3. /\ SubSeq(out, 1, i) \in Seq(Tokens) /\ Len(SubSeq(out, 1, i)) = i
        /\ \A j \in 1 .. i : SubSeq(out, 1, i)[j] = out[j]
    BY <2>2
  <2>4. wire' \in Seq(Tokens) /\ Prefix(wire', wire \o out)
    BY <1>0, <1>1, <2>1, <2>2, <2>3, Concatenation DEF Prefix
  <2>5. conn # "up" => wire' = wire
    <3> SUFFICES ASSUME conn # "up" PROVE wire' = wire
      OBVIOUS
    <3>1. SubSeq(out, 1, i) = <<>>
      BY <2>3
    <3> QED
      BY <1>1, <2>1, <3>1
  <2> QED
    BY <1>0, <1>5, <2>4, <2>5
<1> QED
  BY <1>2, <1>3, <1>4, <1>5 DEF Buffer, Flush

\* Flushing is buffering that leaves nothing behind.
LEMMA FlushOut ==
  ASSUME NEW out, Flush(out)
  PROVE  Buffer(out) /\ buf' = <<>>
BY DEF Buffer, Flush

\* The heads a reply can get.
LEMMA HeadType ==
  ASSUME NEW r \in ReplyType
  PROVE  HeadToken(r) \in Tokens /\ <<HeadToken(r)>> \in Seq(Tokens)
                             /\ HeadOut(r) \in Seq(Tokens)
<1>1. HeadToken(r) \in Tokens
  BY PlainTok, TokType DEF HeadToken, ReplyType
<1> QED
  BY <1>1 DEF HeadOut

\* What the client does with a token keeps its type.
LEMMA ParsedType ==
  ASSUME NEW c \in ClientType, c.at = "length" => c.left > 0, NEW t \in Tokens
  PROVE  /\ Parsed(c, t) \in ClientType
         /\ Parsed(c, t).at = "length" => Parsed(c, t).left > 0
<1> DEFINE Places == {"idle", "head", "chunks", "length", "tunnel", "confused", "eof"}
           p == Parsed(c, t)
<1>1. t.n \in Nat
  BY BoundsAssumption DEF Tokens
<1>2. c.at \in Places /\ c.left \in Nat /\ c.got \in Nat
  BY DEF ClientType
<1>3. CASE c.at = "head" /\ t.kind = "lengthHead"
  <2>1. p = [at |-> IF t.n = 0 THEN "idle" ELSE "length", left |-> t.n, got |-> c.got]
    BY <1>3 DEF Parsed, ClientType
  <2>2. CASE t.n = 0
    BY <1>1, <1>2, <2>1, <2>2 DEF ClientType
  <2>3. CASE t.n > 0
    BY <1>1, <1>2, <2>1, <2>3 DEF ClientType
  <2> QED
    BY <1>1, <2>2, <2>3
<1>4. CASE c.at = "length" /\ t.kind = "raw"
  <2>1. p = [at |-> IF c.left = 1 THEN "idle" ELSE "length", left |-> c.left - 1, got |-> c.got + 1]
    BY <1>4 DEF Parsed, ClientType
  <2>2. c.left - 1 \in Nat /\ c.got + 1 \in Nat
    BY <1>2, <1>4
  <2>3. CASE c.left = 1
    BY <2>1, <2>2, <2>3 DEF ClientType
  <2>4. CASE c.left # 1
    <3>1. c.left - 1 > 0
      BY <1>2, <1>4, <2>4
    <3> QED
      BY <2>1, <2>2, <2>4, <3>1 DEF ClientType
  <2> QED
    BY <2>3, <2>4
<1>5. CASE c.at = "chunks" /\ t.kind = "chunk"
  <2>1. p = [c EXCEPT !.got = @ + 1]
    BY <1>5 DEF Parsed
  <2> QED
    BY <1>5, <2>1 DEF ClientType
<1>6. CASE p = c \/ \E place \in Places \ {"length"} : p = [c EXCEPT !.at = place]
  BY <1>6 DEF ClientType
<1> QED
  BY <1>3, <1>4, <1>5, <1>6 DEF Parsed

\* What WriteHeader sets has its type.
LEMMA HeaderTypes ==
  ASSUME Types, NEW r \in ReplyType, NEW h, WriteHeader(r, h)
  PROVE  /\ w' \in WriterType /\ deadline' \in {"none", "armed", "passed"}
         /\ unframed' \in BOOLEAN
<1>1. Chunked(r) \in BOOLEAN /\ NoBody(r) \in BOOLEAN
  BY DEF Chunked, NoBody, ReplyType
<1> QED
  BY <1>1 DEF Types, WriteHeader, WriterType

\* Every step keeps the types.
LEMMA NextTypes == Types /\ [Next]_vars => Types'
<1> SUFFICES ASSUME Types, [Next]_vars PROVE Types'
  OBVIOUS
<1> USE DEF proxyVars, writerVars, loopVars
<1>1. CASE UNCHANGED vars
  BY <1>1 DEF vars, Types
<1>2. CASE ReadRequest
  <2>1. req' \in RequestType
    BY <1>2, InputsAssumption DEF ReadRequest
  <2>2. client' \in ClientType /\ client'.at = "head"
    BY <1>2 DEF ReadRequest, ClientType
  <2> QED
    BY <1>2, <2>1, <2>2 DEF ReadRequest, Types
<1>3. CASE Return \/ Cut \/ CopyEnds \/ DeadlinePasses
  <2>1. failed' \in BOOLEAN
    BY <1>3 DEF Return, Cut, CopyEnds, DeadlinePasses, Types
  <2> QED
    BY <1>3, <2>1 DEF Return, Cut, CopyEnds, DeadlinePasses, Types
<1>4. CASE Preflight \/ Refuse
  <2>1. PICK out \in {<<Tok("emptyHead", 0)>>, <<Tok("lengthHead", 1), Tok("raw", 0)>>} : Direct(out)
    BY <1>4 DEF Preflight, Refuse, WriteHTTP
  <2>2. out \in Seq(Tokens)
    <3>1. Tok("emptyHead", 0) \in Tokens /\ Tok("raw", 0) \in Tokens
      BY PlainTok
    <3>2. Tok("lengthHead", 1) \in Tokens
      BY BoundsAssumption, TokType
    <3>3. CASE out = <<Tok("emptyHead", 0)>>
      BY <3>1, <3>3
    <3>4. CASE out = <<Tok("lengthHead", 1), Tok("raw", 0)>>
      BY <3>1, <3>2, <3>4
    <3> QED
      BY <2>1, <3>3, <3>4
  <2>3. wire' \in Seq(Tokens)
    BY <2>1, <2>2 DEF Direct, Types
  <2>4. reply' \in ReplyType
    <3>1. CASE reply' = [reply EXCEPT !.bodyless = TRUE]
      BY <3>1 DEF Types, ReplyType
    <3>2. CASE reply' = [bodyless |-> FALSE, length |-> TRUE, body |-> 1, origin |-> "none"]
      BY <3>2, BoundsAssumption DEF ReplyType
    <3> QED
      BY <1>4, <3>1, <3>2 DEF Preflight, Refuse
  <2> QED
    BY <2>1, <2>3, <2>4 DEF Direct, Types
<1>5. CASE Forward
  <2>1. Fresh \in WriterType /\ <<>> \in Seq(Tokens)
    BY DEF Fresh, WriterType
  <2> QED
    BY <1>5, <2>1 DEF Forward, Types
<1>6. CASE EndOfServe
  <2>1. CASE UNCHANGED <<buf, deadline, conn, wire>>
    BY <1>6, <2>1 DEF EndOfServe, Types
  <2>2. ASSUME NEW out \in Seq(Tokens), FinalFlush(out), ClearDeadline PROVE Types'
    BY <1>6, <2>2, Out, FlushOut DEF EndOfServe, FinalFlush, ClearDeadline, Types
  <2>3. buf \o (IF w.chunked THEN <<Tok("last", 0)>> ELSE <<>>) \in Seq(Tokens)
    BY PlainTok DEF Types
  <2>4. <<Tok("chunkedHead", 0), Tok("last", 0)>> \in Seq(Tokens)
    BY PlainTok
  <2> QED
    BY <1>6, <2>1, <2>2, <2>3, <2>4 DEF EndOfServe
<1>7. CASE Interim
  <2>1. Append(buf, Tok("interim", 0)) \in Seq(Tokens)
    BY PlainTok DEF Types
  <2>2. w' \in WriterType
    BY <1>7 DEF Interim, Types, WriterType
  <2> QED
    BY <1>7, <2>1, <2>2, Out DEF Interim, Types
<1>8. CASE Reply
  <2>1. reply' \in ReplyType
    BY <1>8, InputsAssumption DEF Reply
  <2>2. buf \o HeadOut(reply') \in Seq(Tokens)
    BY <2>1, HeadType DEF Types
  <2>3. w' \in WriterType /\ deadline' \in {"none", "armed", "passed"} /\ unframed' \in BOOLEAN
    BY <1>8, <2>1, HeaderTypes DEF Reply
  <2> QED
    BY <1>8, <2>1, <2>2, <2>3, Out DEF Reply, Types
<1>9. CASE ErrorReply
  <2>1. reply' \in ReplyType
    BY <1>9, BoundsAssumption DEF ErrorReply, ReplyType
  <2>2. /\ buf \o HeadOut(reply') \o <<Tok("chunk", 0)>> \in Seq(Tokens)
        /\ Append(buf, Tok("raw", 0)) \in Seq(Tokens)
    BY <2>1, HeadType, PlainTok DEF Types
  <2>3. w' \in WriterType /\ deadline' \in {"none", "armed", "passed"} /\ unframed' \in BOOLEAN
    BY <1>9, <2>1, HeaderTypes DEF ErrorReply
  <2>4. buf' \in Seq(Tokens) /\ wire' \in Seq(Tokens) /\ conn' \in {"up", "broken", "closed"}
    BY <1>9, <2>2, Out, FlushOut DEF ErrorReply
  <2> QED
    BY <1>9, <2>1, <2>3, <2>4 DEF ErrorReply, Types
<1>10. CASE CopyPiece
  <2>1. Append(buf, Tok("chunk", 0)) \in Seq(Tokens) /\ Append(buf, Tok("raw", 0)) \in Seq(Tokens)
    BY PlainTok DEF Types
  <2>2. buf' \in Seq(Tokens) /\ wire' \in Seq(Tokens) /\ conn' \in {"up", "broken", "closed"}
    BY <1>10, <2>1, Out, FlushOut DEF CopyPiece
  <2> QED
    BY <1>10, <2>2 DEF CopyPiece, Types
<1>11. CASE Upgrade
  <2>1. <<Tok("switch", 0)>> \in Seq(Tokens)
    BY PlainTok
  <2>2. w' \in WriterType /\ buf' \in Seq(Tokens) /\ deadline' \in {"none", "armed", "passed"}
    BY <1>11, <2>1 DEF Upgrade, Types, WriterType
  <2> QED
    BY <1>11, <2>2 DEF Upgrade, Types
<1>12. CASE Hijack
  <2>1. buf \in Seq(Tokens) /\ Append(buf, Tok("switch", 0)) \in Seq(Tokens)
    BY PlainTok DEF Types
  <2>2. buf' \in Seq(Tokens) /\ wire' \in Seq(Tokens) /\ conn' \in {"up", "broken", "closed"}
    BY <1>12, <2>1, Out, FlushOut DEF Hijack
  <2>3. w' \in WriterType
    BY <1>12 DEF Hijack, Types, WriterType
  <2> QED
    BY <1>12, <2>2, <2>3 DEF Hijack, ClearDeadline, Types
<1>13. CASE Tunnel
  <2>1. <<Tok("frame", 0)>> \in Seq(Tokens)
    BY PlainTok
  <2>2. wire' \in Seq(Tokens)
    BY <1>13, <2>1 DEF Tunnel, Types
  <2> QED
    BY <1>13, <2>2 DEF Tunnel, Types
<1>14. CASE ClientReads
  <2>1. Head(wire) \in Tokens /\ Tail(wire) \in Seq(Tokens)
    BY <1>14 DEF ClientReads, Types
  <2>2. client' \in ClientType /\ (client'.at = "length" => client'.left > 0)
    BY <1>14, <2>1, ParsedType DEF ClientReads, Types
  <2> QED
    BY <1>14, <2>1, <2>2 DEF ClientReads, Types
<1>15. CASE ClientEnds
  <2>1. client' \in ClientType /\ client'.at = "eof"
    BY <1>15 DEF ClientEnds, Types, ClientType
  <2>2. wire' \in Seq(Tokens) /\ conn' \in {"up", "broken", "closed"}
    <3>1. <<>> \in Seq(Tokens)
      OBVIOUS
    <3> QED
      BY <1>15, <3>1 DEF ClientEnds, Types
  <2> QED
    BY <1>15, <2>1, <2>2 DEF ClientEnds, Types
<1> QED
  BY <1>1, <1>2, <1>3, <1>4, <1>5, <1>6, <1>7, <1>8, <1>9, <1>10, <1>11, <1>12, <1>13, <1>14,
     <1>15 DEF Next, Loop, Proxy

-----------------------------------------------------------------------------
(* The writer and the loop.                                                *)

\* A response with a head is being written, or waits to be finalised.
Answering == pc \in {"copy", "ended"} /\ ~w.hijacked

Writer ==
  /\ DeadlineStaysWithResponse
  /\ pc \in {"read", "serve"} \/ (pc = "copy" /\ w.chunked /\ copied > 0) => buf = <<>>
  /\ pc = "proxy" => /\ copied = 0 /\ ~failed
                     /\ w.wroteHeader => unframed
                     /\ ~w.wroteHeader => buf = <<>>
  /\ pc = "copy" => ~failed /\ copied <= reply.body
  /\ w.hijacked => pc \in {"tunnel", "ended", "closing", "closed"}
  /\ pc = "tunnel" => w.hijacked
  /\ Answering => w.wroteHeader

\* The loop starts without a writer or a deadline.
LEMMA InitWriter == Init => Writer
BY DEF Init, Writer, DeadlineStaysWithResponse, Answering, Fresh

\* What WriteHeader does to the writer.
LEMMA Headed ==
  ASSUME Types, NEW r \in ReplyType, NEW h, WriteHeader(r, h)
  PROVE  w'.wroteHeader /\ w'.hijacked = w.hijacked
<1>1. CASE w.wroteHeader
  BY <1>1 DEF WriteHeader
<1>2. CASE ~w.wroteHeader
  BY <1>2 DEF WriteHeader, Types, WriterType
<1> QED
  BY <1>1, <1>2

\* Every step of the loop, the proxy and the client keeps that.
LEMMA NextWriter == Types /\ Writer /\ [Next]_vars => Writer'
<1> SUFFICES ASSUME Types, Writer, [Next]_vars PROVE Writer'
  OBVIOUS
<1>0. w \in WriterType /\ copied \in Nat /\ reply \in ReplyType /\ failed \in BOOLEAN
  BY DEF Types
<1> USE DEF Writer, Answering, DeadlineStaysWithResponse, proxyVars, writerVars, loopVars
<1>1. CASE UNCHANGED vars
  BY <1>1 DEF vars
<1>2. CASE ReadRequest \/ Return \/ Cut \/ ClientReads \/ ClientEnds
  BY <1>2 DEF ReadRequest, Return, Cut, ClientReads, ClientEnds
<1>3. CASE DeadlinePasses
  BY <1>3 DEF DeadlinePasses
<1>4. CASE Preflight \/ Refuse
  BY <1>4 DEF Preflight, Refuse, Direct
<1>5. CASE Forward
  BY <1>5 DEF Forward, Fresh
<1>6. CASE EndOfServe
  <2>1. CASE UNCHANGED <<buf, deadline, conn, wire>> /\ pc' = "closing"
    BY <1>6, <2>1 DEF EndOfServe
  <2>2. CASE Finalises /\ pc' \in {"closing", "read"} /\ buf' = <<>> /\ ClearDeadline
    BY <1>6, <2>2 DEF EndOfServe, ClearDeadline, Finalises
  <2> QED
    BY <1>6, <2>1, <2>2, FlushOut DEF EndOfServe, FinalFlush
<1>7. CASE Interim
  <2>1. w'.wroteHeader /\ w'.hijacked = w.hijacked
    BY <1>0, <1>7 DEF Interim, WriterType
  <2> QED
    BY <1>7, <2>1 DEF Interim
<1>8. CASE Reply
  <2>1. reply' \in ReplyType
    BY <1>8, InputsAssumption DEF Reply
  <2>2. reply'.body >= 0
    BY <2>1 DEF ReplyType
  <2>3. w'.wroteHeader /\ w'.hijacked = w.hijacked
    BY <1>8, <2>1, Headed DEF Reply
  <2> QED
    BY <1>8, <2>2, <2>3 DEF Reply
<1>9. CASE ErrorReply
  <2>1. reply' \in ReplyType
    BY <1>9, BoundsAssumption DEF ErrorReply, ReplyType
  <2>2. w'.wroteHeader /\ w'.hijacked = w.hijacked
    BY <1>9, <2>1, Headed DEF ErrorReply
  <2> QED
    BY <1>9, <2>2 DEF ErrorReply
<1>10. CASE CopyPiece
  <2>1. copied + 1 <= reply.body
    BY <1>0, <1>10 DEF CopyPiece, ReplyType
  <2>2. w.chunked => buf' = <<>>
    BY <1>10, FlushOut DEF CopyPiece
  <2> QED
    BY <1>10, <2>1, <2>2 DEF CopyPiece
<1>11. CASE CopyEnds
  BY <1>11 DEF CopyEnds
<1>12. CASE Upgrade
  <2>1. w'.hijacked = w.hijacked
    BY <1>0, <1>12 DEF Upgrade, WriterType
  <2> QED
    BY <1>12, <2>1 DEF Upgrade
<1>13. CASE Hijack
  <2>1. w'.hijacked
    BY <1>0, <1>13 DEF Hijack, WriterType
  <2> QED
    BY <1>13, <2>1 DEF Hijack, ClearDeadline
<1>14. CASE Tunnel
  BY <1>14 DEF Tunnel
<1> QED
  BY <1>1, <1>2, <1>3, <1>4, <1>5, <1>6, <1>7, <1>8, <1>9, <1>10, <1>11, <1>12, <1>13, <1>14
  DEF Next, Loop, Proxy

\* serveHTTP and flushClose: the write deadline of a response never stays on
\* for the wait, for the next request or for a tunnel.
THEOREM DeadlineStays == Spec => []DeadlineStaysWithResponse
<1>1. Writer => DeadlineStaysWithResponse
  BY DEF Writer
<1> QED
  BY <1>1, InitTypes, NextTypes, InitWriter, NextWriter, PTL DEF Spec

\* flushClose and Write: the loop waits for a request, and the proxy for the
\* next piece of a streamed body, with nothing left in the buffer.
THEOREM NothingStays == Spec => []NothingHeldBack
<1>1. Writer => NothingHeldBack
  BY DEF Writer, NothingHeldBack
<1> QED
  BY <1>1, InitTypes, NextTypes, InitWriter, NextWriter, PTL DEF Spec

-----------------------------------------------------------------------------
(* CORS.                                                                   *)

\* One decision: none, the gateway's echo, or a public response's "*".
Decision(h) ==
  /\ h.origin \in {{}, {"echo"}, {"*"}}
  /\ h.credentials => h.origin = {"echo"}
  /\ "echo" \in h.origin => "Origin" \in h.vary

Decided ==
  /\ Decision(cors)
  /\ pc = "copy" /\ isPublicResponse(reply) /\ ~unframed => ~cors.credentials

\* What the gateway puts on a writer or a refusal by itself.
LEMMA OwnDecision ==
  /\ Decision(NoCORS) /\ Decision(Echo)
  /\ Decision([Echo EXCEPT !.vary = @ \cup {"other"}])
  /\ Decision([NoCORS EXCEPT !.vary = @ \cup {"other"}])
  /\ Injected \in {NoCORS, Echo} /\ OnWriter \in {NoCORS, Echo}
<1>1. Decision(NoCORS) /\ Decision([NoCORS EXCEPT !.vary = @ \cup {"other"}])
  BY DEF Decision, NoCORS
<1>2. Decision(Echo) /\ Decision([Echo EXCEPT !.vary = @ \cup {"other"}])
  BY DEF Decision, Echo
<1>3. Injected \in {NoCORS, Echo} /\ OnWriter \in {NoCORS, Echo}
  BY Zenon DEF Injected, OnWriter
<1> QED
  BY <1>1, <1>2, <1>3

\* Whatever the enclave sends, ModifyResponse and the writer leave one
\* decision, and none with credentials on a public response.
LEMMA ReplyDecision ==
  ASSUME NEW r \in ReplyType, NEW g \in {NoCORS, Echo},
         NEW h, h = reconcilePublicCORS(Merged(g, ModifyResponse(r)), isPublicResponse(r))
  PROVE  Decision(h) /\ (isPublicResponse(r) => ~h.credentials)
<1> DEFINE m == Merged(g, ModifyResponse(r))
<1>1. /\ g.origin \in {{}, {"echo"}} /\ g.credentials \in BOOLEAN
      /\ g.credentials => g.origin = {"echo"}
      /\ "echo" \in g.origin => "Origin" \in g.vary
  <2>1. CASE g = NoCORS
    BY <2>1 DEF NoCORS
  <2>2. CASE g = Echo
    BY <2>2 DEF Echo
  <2> QED
    BY <2>1, <2>2
<1>2. CASE r.origin = "open"
  <2>1. isPublicResponse(r) /\ m.origin = g.origin \cup {"*"}
    BY <1>2 DEF isPublicResponse, Merged, ModifyResponse, UpstreamCORS
  <2>2. h = [origin |-> {"*"}, credentials |-> FALSE, vary |-> {}]
    BY <2>1 DEF reconcilePublicCORS
  <2> QED
    BY <2>2 DEF Decision
<1>3. CASE r.origin = "public"
  <2>1. isPublicResponse(r) /\ m.origin = g.origin /\ m.vary = g.vary \cup {"other"}
    BY <1>3 DEF isPublicResponse, Merged, ModifyResponse, UpstreamCORS, NoCORS
  <2>2. h = [m EXCEPT !.credentials = FALSE] /\ DOMAIN m = {"origin", "credentials", "vary"}
    BY <1>1, <2>1 DEF reconcilePublicCORS, Merged
  <2>3. h.origin = g.origin /\ ~h.credentials /\ h.vary = g.vary \cup {"other"}
    BY <2>1, <2>2
  <2> QED
    BY <1>1, <2>3 DEF Decision
<1>4. CASE r.origin \in {"none", "own"}
  <2>1. /\ ~isPublicResponse(r) /\ m.origin = g.origin
        /\ m.credentials = g.credentials /\ g.vary \subseteq m.vary
    BY <1>1, <1>4 DEF isPublicResponse, Merged, ModifyResponse, UpstreamCORS, NoCORS
  <2>2. h = m
    BY <2>1 DEF reconcilePublicCORS
  <2> QED
    BY <1>1, <2>1, <2>2 DEF Decision
<1> QED
  BY <1>2, <1>3, <1>4 DEF ReplyType

\* Every head carries one decision.
LEMMA NextDecided == Types /\ Writer /\ Decided /\ [Next]_vars => Decided'
<1> SUFFICES ASSUME Types, Writer, Decided, [Next]_vars PROVE Decided'
  OBVIOUS
<1> USE DEF Decided, proxyVars, writerVars, loopVars
<1>1. CASE UNCHANGED vars
  BY <1>1 DEF vars, Decision, isPublicResponse
<1>2. CASE \/ ReadRequest \/ Return \/ Cut \/ ClientReads \/ ClientEnds \/ DeadlinePasses
           \/ Forward \/ EndOfServe \/ CopyPiece \/ CopyEnds \/ Hijack \/ Tunnel
  <2>1. UNCHANGED <<cors, reply, unframed>> /\ (pc' = "copy" => pc = "copy")
    BY <1>2 DEF ReadRequest, Return, Cut, ClientReads, ClientEnds, DeadlinePasses, Forward,
                EndOfServe, CopyPiece, CopyEnds, Hijack, Tunnel
  <2> QED
    BY <2>1 DEF Decision, isPublicResponse
<1>3. CASE Preflight \/ Refuse \/ Interim
  <2>1. pc' # "copy"
    BY <1>3 DEF Preflight, Refuse, Interim
  <2>2. \/ cors' \in {NoCORS, Echo}
        \/ cors' = [Injected EXCEPT !.vary = @ \cup {"other"}]
    BY <1>3, OwnDecision DEF Preflight, Refuse, Interim
  <2>3. Decision(cors')
    BY <2>2, OwnDecision
  <2> QED
    BY <2>1, <2>3 DEF Decision
<1>4. CASE Upgrade
  <2>1. pc' # "copy" /\ (UNCHANGED cors \/ cors' = NoCORS)
    BY <1>4 DEF Upgrade
  <2> QED
    BY <2>1, OwnDecision DEF Decision
<1>5. CASE Reply
  <2>1. /\ pc = "proxy" /\ reply' \in ReplyType
        /\ WriteHeader(reply', Merged(OnWriter, ModifyResponse(reply')))
    BY <1>5, InputsAssumption DEF Reply
  <2>2. CASE w.wroteHeader
    BY <2>1, <2>2 DEF WriteHeader, Writer, Decision
  <2>3. CASE ~w.wroteHeader
    <3>1. cors' = reconcilePublicCORS(Merged(OnWriter, ModifyResponse(reply')), isPublicResponse(reply'))
      BY <2>1, <2>3 DEF WriteHeader
    <3>2. Decision(cors') /\ (isPublicResponse(reply') => ~cors'.credentials)
      BY <2>1, <3>1, OwnDecision, ReplyDecision, Zenon
    <3> QED
      BY <3>2 DEF Decision, isPublicResponse
  <2> QED
    BY <2>2, <2>3
<1>6. CASE ErrorReply
  <2>1. /\ pc' # "copy" /\ reply'.origin = "none" /\ WriteHeader(reply', OnWriter)
    BY <1>6 DEF ErrorReply
  <2>2. UNCHANGED cors \/ cors' = OnWriter
    BY <2>1 DEF WriteHeader, reconcilePublicCORS, isPublicResponse
  <2>3. Decision(cors')
    BY <2>2, OwnDecision
  <2> QED
    BY <2>1, <2>3 DEF Decision
<1> QED
  BY <1>1, <1>2, <1>3, <1>4, <1>5, <1>6 DEF Next, Loop, Proxy

-----------------------------------------------------------------------------
(* What the client has before it.  An answer a is what the reply, the      *)
(* writer and the copy make of it; c is a client and s the tokens it has   *)
(* not read.                                                               *)

AnswerType == [bare : BOOLEAN, body : Nat, chunked : BOOLEAN, copied : Nat, whole : BOOLEAN]

Answer == [bare |-> NoBody(reply), body |-> reply.body, chunked |-> w.chunked,
           copied |-> copied, whole |-> copied = reply.body \/ failed]

Kinds(s, from, kind) == \A i \in from .. Len(s) : s[i].kind = kind

\* Nothing has come.
Waiting(c, s) == c.at = "head" /\ c.got = 0 /\ s = <<>>

\* A head without a body.
Bare(c, s, a) ==
  /\ a.bare /\ c.got = 0
  /\ \/ c.at = "idle" /\ Len(s) = 0
     \/ c.at = "head" /\ Len(s) = 1 /\ s[1].kind = "emptyHead"

\* A head with a length, and no more pieces than that.
Sized(c, s, a) ==
  /\ ~a.bare
  /\ \/ c.at = "idle" /\ Len(s) = 0 /\ c.got = a.body
     \/ /\ c.at = "length" /\ Kinds(s, 1, "raw")
        /\ c.left > 0 /\ c.got + c.left = a.body /\ Len(s) <= c.left
     \/ /\ c.at = "head" /\ c.got = 0 /\ Len(s) > 0 /\ Kinds(s, 2, "raw")
        /\ s[1].kind = "lengthHead" /\ s[1].n = a.body /\ Len(s) <= a.body + 1

\* Chunks; the end comes behind all of them.
Chunks(s, from, got, a) ==
  \A i \in from .. Len(s) :
    \/ s[i].kind = "chunk"
    \/ s[i].kind = "last" /\ i = Len(s) /\ a.whole /\ got + i = a.copied + from

Streamed(c, s, a) ==
  /\ ~a.bare /\ a.chunked
  /\ \/ c.at = "idle" /\ Len(s) = 0 /\ a.whole /\ c.got = a.copied
     \/ c.at = "chunks" /\ Chunks(s, 1, c.got, a)
     \/ /\ c.at = "head" /\ c.got = 0 /\ Len(s) > 0
        /\ s[1].kind = "chunkedHead" /\ Chunks(s, 2, 0, a)

Tunnelled(c, s) ==
  \/ c.at = "tunnel" /\ Kinds(s, 1, "frame")
  \/ c.at = "head" /\ c.got = 0 /\ Len(s) > 0 /\ s[1].kind = "switch" /\ Kinds(s, 2, "frame")

Expected(c, s, a) ==
  Waiting(c, s) \/ Bare(c, s, a) \/ Sized(c, s, a) \/ Streamed(c, s, a) \/ Tunnelled(c, s)

\* Nothing of what was written is missing.
Written(c, s, a) ==
  /\ c.got + Len(s) = a.copied + (IF c.at = "head" THEN 1 ELSE 0)
  /\ a.bare => Bare(c, s, a) /\ ~a.chunked
  /\ ~a.bare /\ a.chunked => Streamed(c, s, a) /\ c.at # "idle"
  /\ ~a.bare /\ ~a.chunked => Sized(c, s, a)

\* A part of an answer is one too, as far as it goes.
LEMMA PrefixExpected ==
  ASSUME NEW c \in ClientType, NEW a \in AnswerType,
         NEW s \in Seq(Tokens), NEW t \in Seq(Tokens), Prefix(s, t), Expected(c, t, a)
  PROVE  Expected(c, s, a)
<1>1. Len(s) \in Nat /\ Len(t) \in Nat /\ Len(s) <= Len(t) /\ \A i \in 1 .. Len(s) : s[i] = t[i]
  BY DEF Prefix
<1>2. CASE Len(s) = 0 /\ c.at = "head"
  <2>1. s = <<>>
    BY <1>2
  <2> QED
    BY <1>2, <2>1 DEF Expected, Waiting, Bare, Sized, Streamed, Tunnelled
<1>3. CASE Waiting(c, t)
  BY <1>1, <1>2, <1>3 DEF Waiting
<1>4. CASE Bare(c, t, a) /\ ~(Len(s) = 0 /\ c.at = "head")
  BY <1>1, <1>4 DEF Expected, Bare
<1>5. CASE Sized(c, t, a) /\ ~(Len(s) = 0 /\ c.at = "head")
  <2>1. a.body \in Nat /\ c.left \in Nat
    BY DEF AnswerType, ClientType
  <2>2. CASE c.at = "idle"
    BY <1>1, <1>5, <2>2 DEF Expected, Sized
  <2>3. CASE c.at = "length"
    <3>1. Kinds(s, 1, "raw") /\ Len(s) <= c.left
      BY <1>1, <1>5, <2>1, <2>3 DEF Sized, Kinds
    <3> QED
      BY <1>5, <2>3, <3>1 DEF Expected, Sized
  <2>4. CASE c.at = "head"
    <3>1. Kinds(s, 2, "raw") /\ Len(s) > 0 /\ s[1] = t[1] /\ Len(s) <= a.body + 1
      <4>1. Kinds(t, 2, "raw") /\ Len(t) <= a.body + 1 /\ Len(s) # 0
        BY <1>5, <2>4, Zenon DEF Sized
      <4>2. \A i \in 2 .. Len(s) : i \in 2 .. Len(t) /\ s[i] = t[i]
        BY <1>1
      <4>3. Len(s) > 0 /\ s[1] = t[1] /\ Len(s) <= a.body + 1
        BY <1>1, <2>1, <4>1
      <4> QED
        BY <4>1, <4>2, <4>3, Zenon DEF Kinds
    <3> QED
      BY <1>5, <2>4, <3>1 DEF Expected, Sized
  <2> QED
    BY <1>5, <2>2, <2>3, <2>4 DEF Sized
<1>6. CASE Streamed(c, t, a) /\ ~(Len(s) = 0 /\ c.at = "head")
  <2>1. \A from \in {1, 2} : \A got : Chunks(t, from, got, a) => Chunks(s, from, got, a)
    <3> SUFFICES ASSUME NEW from \in {1, 2}, NEW got, Chunks(t, from, got, a),
                        NEW i \in from .. Len(s)
                 PROVE  \/ s[i].kind = "chunk"
                        \/ s[i].kind = "last" /\ i = Len(s) /\ a.whole /\ got + i = a.copied + from
      BY DEF Chunks
    <3>1. i \in from .. Len(t) /\ s[i] = t[i] /\ (i = Len(t) => i = Len(s))
      BY <1>1
    <3> QED
      BY <3>1, Zenon DEF Chunks
  <2>2. Len(t) = 0 => Len(s) = 0
    BY <1>1
  <2>3. Len(s) # 0 => Len(s) > 0 /\ s[1] = t[1]
    BY <1>1
  <2>4. Streamed(c, s, a)
    BY <1>6, <2>1, <2>2, <2>3 DEF Streamed
  <2> QED
    BY <2>4 DEF Expected
<1>7. CASE Tunnelled(c, t) /\ ~(Len(s) = 0 /\ c.at = "head")
  <2>1. Tunnelled(c, s)
    BY <1>1, <1>7 DEF Tunnelled, Kinds
  <2> QED
    BY <2>1 DEF Expected
<1> QED
  BY <1>2, <1>3, <1>4, <1>5, <1>6, <1>7 DEF Expected

\* The tokens behind the first.
LEMMA TailOf ==
  ASSUME NEW s \in Seq(Tokens), Len(s) > 0
  PROVE  /\ Head(s) = s[1] /\ s[1] \in Tokens
         /\ Tail(s) \in Seq(Tokens) /\ Len(s) \in Nat /\ Len(Tail(s)) = Len(s) - 1
         /\ \A i \in 1 .. Len(s) - 1 : Tail(s)[i] = s[i + 1]
OBVIOUS

\* The client reads on in an answer without a body.
LEMMA ReadsBare ==
  ASSUME NEW c \in ClientType, NEW a \in AnswerType,
         NEW s \in Seq(Tokens), Len(s) > 0, Bare(c, s, a)
  PROVE  LET p == Parsed(c, Head(s))
         IN Bare(p, Tail(s), a) /\ p.at = "idle" /\ p.got = c.got /\ c.at = "head"
<1>1. c.at = "head" /\ c.got = 0 /\ Head(s).kind = "emptyHead" /\ Len(Tail(s)) = 0
  BY TailOf DEF Bare
<1>2. Parsed(c, Head(s)) = [c EXCEPT !.at = "idle"]
  BY <1>1 DEF Parsed
<1>3. Parsed(c, Head(s)).at = "idle" /\ Parsed(c, Head(s)).got = 0
  BY <1>1, <1>2 DEF ClientType
<1> QED
  BY <1>1, <1>3 DEF Bare

\* The client reads on in an answer with a length.
LEMMA ReadsSized ==
  ASSUME NEW c \in ClientType, NEW a \in AnswerType,
         NEW s \in Seq(Tokens), Len(s) > 0, Sized(c, s, a)
  PROVE  LET p == Parsed(c, Head(s))
         IN Sized(p, Tail(s), a) /\ p.at \in {"idle", "length"}
            /\ p.got = IF c.at = "head" THEN c.got ELSE c.got + 1
<1> DEFINE p == Parsed(c, Head(s))
           t == Tail(s)
<1>1. /\ Head(s) = s[1] /\ s[1] \in Tokens /\ Len(s) \in Nat /\ Len(t) = Len(s) - 1
      /\ \A i \in 1 .. Len(s) - 1 : t[i] = s[i + 1]
  BY TailOf
<1>2. a.body \in Nat /\ c.left \in Nat /\ c.got \in Nat
  BY DEF AnswerType, ClientType
<1> HIDE DEF t
<1>3. CASE c.at = "head"
  <2>1. /\ s[1].kind = "lengthHead" /\ s[1].n = a.body /\ c.got = 0
        /\ Len(s) <= a.body + 1 /\ Kinds(s, 2, "raw")
    BY <1>3 DEF Sized
  <2>2. p = [at |-> IF a.body = 0 THEN "idle" ELSE "length", left |-> a.body, got |-> 0]
    <3>1. Head(s).kind = "lengthHead" /\ Head(s).n = a.body
      BY <1>1, <2>1
    <3>2. p = [c EXCEPT !.at = IF a.body = 0 THEN "idle" ELSE "length", !.left = a.body]
      BY <1>3, <3>1 DEF Parsed
    <3> QED
      BY <2>1, <3>2 DEF ClientType
  <2>3. Kinds(t, 1, "raw") /\ Len(t) <= a.body
    <3>1. \A i \in 1 .. Len(t) : i + 1 \in 2 .. Len(s) /\ t[i] = s[i + 1]
      BY <1>1
    <3>2. Len(t) <= a.body
      BY <1>1, <1>2, <2>1
    <3>3. \A i \in 2 .. Len(s) : s[i].kind = "raw"
      BY <2>1, Zenon DEF Kinds
    <3> QED
      BY <3>1, <3>2, <3>3 DEF Kinds
  <2>4. CASE a.body = 0
    <3>1. Len(t) = 0
      BY <1>1, <2>3, <2>4
    <3>2. p.at = "idle" /\ p.got = 0
      BY <2>2, <2>4
    <3> QED
      BY <1>3, <2>1, <2>4, <3>1, <3>2 DEF Sized, t
  <2>5. CASE a.body > 0
    <3>1. p.at = "length" /\ p.left = a.body /\ p.got = 0
      BY <1>2, <2>2, <2>5
    <3> QED
      BY <1>2, <1>3, <2>1, <2>3, <2>5, <3>1 DEF Sized, t
  <2> QED
    BY <1>2, <2>4, <2>5
<1>4. CASE c.at = "length"
  <2>1. /\ c.left > 0 /\ c.got + c.left = a.body /\ Len(s) <= c.left
        /\ Kinds(s, 1, "raw") /\ s[1].kind = "raw"
    BY <1>4 DEF Sized, Kinds
  <2>2. p = [at |-> IF c.left = 1 THEN "idle" ELSE "length", left |-> c.left - 1, got |-> c.got + 1]
    BY <1>1, <1>4, <2>1 DEF Parsed, ClientType
  <2>3. Kinds(t, 1, "raw") /\ Len(t) <= c.left - 1
    BY <1>1, <1>2, <2>1 DEF Kinds
  <2>4. CASE c.left = 1
    <3>1. Len(t) = 0
      BY <1>1, <2>3, <2>4
    <3>2. p.at = "idle" /\ p.got = c.got + 1 /\ p.got = a.body
      BY <1>2, <2>1, <2>2, <2>4
    <3> QED
      BY <1>4, <2>1, <3>1, <3>2 DEF Sized, t
  <2>5. CASE c.left > 1
    <3>1. p.at = "length" /\ p.left = c.left - 1 /\ p.got = c.got + 1
      BY <1>2, <2>2, <2>5
    <3>2. c.left - 1 > 0 /\ (c.got + 1) + (c.left - 1) = a.body
      BY <1>2, <2>1, <2>5
    <3> QED
      BY <1>4, <2>3, <3>1, <3>2 DEF Sized, t
  <2> QED
    BY <1>2, <2>1, <2>4, <2>5
<1>5. c.at = "head" \/ c.at = "length"
  BY DEF Sized
<1> QED
  BY <1>3, <1>4, <1>5, Zenon

\* The client reads on in a chunked answer.
LEMMA ReadsStreamed ==
  ASSUME NEW c \in ClientType, NEW a \in AnswerType,
         NEW s \in Seq(Tokens), Len(s) > 0, Streamed(c, s, a)
  PROVE  LET p == Parsed(c, Head(s))
         IN /\ Streamed(p, Tail(s), a) /\ p.at \in {"chunks", "idle"}
            /\ p.at = "idle" => c.at = "chunks" /\ Len(s) = 1 /\ c.got = a.copied
            /\ p.at = "chunks" => p.got = IF c.at = "head" THEN c.got ELSE c.got + 1
<1> DEFINE p == Parsed(c, Head(s))
           t == Tail(s)
<1>1. /\ Head(s) = s[1] /\ s[1] \in Tokens /\ Len(s) \in Nat /\ Len(t) = Len(s) - 1
      /\ \A i \in 1 .. Len(s) - 1 : t[i] = s[i + 1]
  BY TailOf
<1>2. a.copied \in Nat /\ c.got \in Nat
  BY DEF AnswerType, ClientType
<1> HIDE DEF t
<1>3. CASE c.at = "head"
  <2>1. s[1].kind = "chunkedHead" /\ c.got = 0 /\ Chunks(s, 2, 0, a)
    BY <1>3 DEF Streamed
  <2>2. p = [c EXCEPT !.at = "chunks"]
    BY <1>1, <1>3, <2>1 DEF Parsed
  <2>3. p.at = "chunks" /\ p.got = 0
    BY <2>1, <2>2 DEF ClientType
  <2>4. Chunks(t, 1, 0, a)
    BY <1>1, <1>2, <2>1 DEF Chunks
  <2> QED
    BY <1>3, <2>1, <2>3, <2>4 DEF Streamed, t
<1>4. CASE c.at = "chunks" /\ s[1].kind = "chunk"
  <2>1. Chunks(s, 1, c.got, a)
    BY <1>4 DEF Streamed
  <2>2. p = [c EXCEPT !.got = @ + 1]
    BY <1>1, <1>4 DEF Parsed
  <2>3. p.at = "chunks" /\ p.got = c.got + 1
    BY <1>4, <2>2 DEF ClientType
  <2>4. Chunks(t, 1, c.got + 1, a)
    <3> SUFFICES ASSUME NEW i \in 1 .. Len(t)
                 PROVE  \/ t[i].kind = "chunk"
                        \/ /\ t[i].kind = "last" /\ i = Len(t) /\ a.whole
                           /\ (c.got + 1) + i = a.copied + 1
      BY DEF Chunks
    <3>1. i + 1 \in 1 .. Len(s) /\ t[i] = s[i + 1] /\ i \in Nat
      BY <1>1
    <3>2. \/ s[i + 1].kind = "chunk"
          \/ /\ s[i + 1].kind = "last" /\ i + 1 = Len(s) /\ a.whole
             /\ c.got + (i + 1) = a.copied + 1
      BY <2>1, <3>1 DEF Chunks
    <3>3. c.got + (i + 1) = (c.got + 1) + i
      BY <1>2, <3>1
    <3>4. i + 1 = Len(s) => i = Len(t)
      BY <1>1, <3>1
    <3> QED
      BY <3>1, <3>2, <3>3, <3>4, Zenon
  <2> QED
    BY <1>4, <2>3, <2>4 DEF Streamed, t
<1>5. CASE c.at = "chunks" /\ s[1].kind = "last"
  <2>1. Len(s) = 1 /\ a.whole /\ c.got = a.copied
    BY <1>1, <1>2, <1>5 DEF Streamed, Chunks
  <2>2. p = [c EXCEPT !.at = "idle"]
    BY <1>1, <1>5 DEF Parsed
  <2>3. p.at = "idle" /\ p.got = c.got
    BY <2>2 DEF ClientType
  <2>4. Len(t) = 0
    BY <1>1, <2>1
  <2> QED
    BY <1>5, <2>1, <2>3, <2>4 DEF Streamed, t
<1>6. c.at = "chunks" => s[1].kind \in {"chunk", "last"}
  BY <1>1 DEF Streamed, Chunks
<1>7. c.at = "head" \/ c.at = "chunks"
  BY DEF Streamed
<1> HIDE DEF p
<1>8. s[1].kind \in {"chunk", "last"} => s[1].kind = "chunk" \/ s[1].kind = "last"
  OBVIOUS
<1> QED
  BY <1>3, <1>4, <1>5, <1>6, <1>7, <1>8, Zenon DEF p

\* The client reads on in a tunnel.
LEMMA ReadsTunnelled ==
  ASSUME NEW c \in ClientType, NEW s \in Seq(Tokens), Len(s) > 0, Tunnelled(c, s)
  PROVE  Parsed(c, Head(s)).at = "tunnel" /\ Tunnelled(Parsed(c, Head(s)), Tail(s))
<1> DEFINE p == Parsed(c, Head(s))
           t == Tail(s)
<1>1. /\ Head(s) = s[1] /\ Len(s) \in Nat /\ Len(t) = Len(s) - 1
      /\ \A i \in 1 .. Len(s) - 1 : t[i] = s[i + 1]
  BY TailOf
<1> HIDE DEF t
<1>2. p = [c EXCEPT !.at = "tunnel"] \/ (p = c /\ c.at = "tunnel")
  BY <1>1 DEF Tunnelled, Kinds, Parsed
<1>3. p.at = "tunnel"
  BY <1>2 DEF ClientType
<1>4. Kinds(t, 1, "frame")
  BY <1>1 DEF Tunnelled, Kinds
<1> QED
  BY <1>3, <1>4 DEF Tunnelled, t

\* The client never meets a token it does not expect.
LEMMA ReadsExpected ==
  ASSUME NEW c \in ClientType, NEW a \in AnswerType,
         NEW s \in Seq(Tokens), Len(s) > 0, Expected(c, s, a)
  PROVE  /\ Expected(Parsed(c, Head(s)), Tail(s), a)
         /\ Parsed(c, Head(s)).at \notin {"confused", "eof", "head"}
<1>1. ~Waiting(c, s)
  BY DEF Waiting
<1>2. CASE Bare(c, s, a)
  BY <1>2, ReadsBare, Zenon DEF Expected
<1>3. CASE Sized(c, s, a)
  BY <1>3, ReadsSized DEF Expected
<1>4. CASE Streamed(c, s, a)
  BY <1>4, ReadsStreamed DEF Expected
<1>5. CASE Tunnelled(c, s)
  BY <1>5, ReadsTunnelled DEF Expected
<1> QED
  BY <1>1, <1>2, <1>3, <1>4, <1>5 DEF Expected

\* Reading takes nothing away from what was written.
LEMMA ReadsWritten ==
  ASSUME NEW c \in ClientType, NEW a \in AnswerType,
         NEW s \in Seq(Tokens), Len(s) > 0, Written(c, s, a)
  PROVE  Written(Parsed(c, Head(s)), Tail(s), a)
<1> DEFINE p == Parsed(c, Head(s))
           t == Tail(s)
<1>1. Len(s) \in Nat /\ Len(t) = Len(s) - 1 /\ c.got \in Nat /\ a.copied \in Nat
      /\ c.got + Len(s) = a.copied + (IF c.at = "head" THEN 1 ELSE 0)
  BY TailOf DEF ClientType, AnswerType, Written
<1>a. p.at # "head" /\ p.got + Len(t) = a.copied =>
        p.got + Len(t) = a.copied + (IF p.at = "head" THEN 1 ELSE 0)
  BY <1>1
<1> SUFFICES Written(p, t, a)
  OBVIOUS
<1> HIDE DEF p, t
<1>2. CASE a.bare
  <2>1. Bare(c, s, a) /\ ~a.chunked
    BY <1>2 DEF Written
  <2>2. Bare(p, t, a) /\ p.at = "idle" /\ p.got = c.got /\ c.at = "head"
    BY <2>1, ReadsBare DEF p, t
  <2>3. p.got + Len(t) = a.copied
    BY <1>1, <2>2
  <2> QED
    BY <1>2, <1>a, <2>1, <2>2, <2>3, Zenon DEF Written
<1>3. CASE ~a.bare /\ ~a.chunked
  <2>1. Sized(c, s, a)
    BY <1>3 DEF Written
  <2>2. /\ Sized(p, t, a) /\ p.at \in {"idle", "length"}
        /\ p.got = IF c.at = "head" THEN c.got ELSE c.got + 1
    BY <2>1, ReadsSized DEF p, t
  <2>3. p.got + Len(t) = a.copied
    <3>1. CASE c.at = "head"
      BY <1>1, <2>2, <3>1
    <3>2. CASE c.at # "head"
      BY <1>1, <2>2, <3>2
    <3> QED
      BY <3>1, <3>2
  <2> QED
    BY <1>3, <1>a, <2>2, <2>3, Zenon DEF Written
<1>4. CASE ~a.bare /\ a.chunked
  <2>1. Streamed(c, s, a)
    BY <1>4 DEF Written
  <2>2. /\ Streamed(p, t, a) /\ p.at \in {"chunks", "idle"}
        /\ p.at = "idle" => c.at = "chunks" /\ Len(s) = 1 /\ c.got = a.copied
        /\ p.at = "chunks" => p.got = IF c.at = "head" THEN c.got ELSE c.got + 1
    BY <2>1, ReadsStreamed DEF p, t
  <2>3. p.at # "idle"
    BY <1>1, <2>2
  <2>4. p.got + Len(t) = a.copied
    BY <1>1, <2>2, <2>3
  <2> QED
    BY <1>4, <1>a, <2>2, <2>3, <2>4, Zenon DEF Written
<1> QED
  BY <1>2, <1>3, <1>4 DEF AnswerType

\* What was written of a chunked answer is not ended yet.
LEMMA Open ==
  ASSUME NEW c \in ClientType, NEW a \in AnswerType,
         NEW s \in Seq(Tokens), Written(c, s, a), ~a.bare, a.chunked
  PROVE  \/ c.at = "chunks" /\ Kinds(s, 1, "chunk") /\ c.got + Len(s) = a.copied
         \/ /\ c.at = "head" /\ c.got = 0 /\ Len(s) = a.copied + 1
            /\ s[1].kind = "chunkedHead" /\ Kinds(s, 2, "chunk")
<1>1. /\ Len(s) \in Nat /\ c.got \in Nat /\ a.copied \in Nat
      /\ c.got + Len(s) = a.copied + (IF c.at = "head" THEN 1 ELSE 0)
      /\ Streamed(c, s, a) /\ c.at # "idle"
  BY DEF ClientType, AnswerType, Written
<1>2. CASE c.at = "chunks"
  BY <1>1, <1>2 DEF Streamed, Chunks, Kinds
<1>3. CASE c.at = "head"
  BY <1>1, <1>3 DEF Streamed, Chunks, Kinds
<1> QED
  BY <1>1, <1>2, <1>3 DEF Streamed

\* The elements of a longer sequence.
LEMMA AppendOf ==
  ASSUME NEW s \in Seq(Tokens), NEW k \in Tokens
  PROVE  /\ Append(s, k) \in Seq(Tokens) /\ Len(s) \in Nat /\ Len(Append(s, k)) = Len(s) + 1
         /\ Append(s, k)[Len(s) + 1] = k /\ \A i \in 1 .. Len(s) : Append(s, k)[i] = s[i]
OBVIOUS

\* The next piece of a body goes behind what was written.
LEMMA PieceWritten ==
  ASSUME NEW c \in ClientType, NEW a \in AnswerType, NEW b \in AnswerType,
         NEW s \in Seq(Tokens), NEW k \in Tokens,
         Written(c, s, a), ~a.bare, a.copied < a.body,
         k.kind = IF a.chunked THEN "chunk" ELSE "raw",
         b.bare = a.bare, b.body = a.body, b.chunked = a.chunked, b.copied = a.copied + 1
  PROVE  Written(c, Append(s, k), b)
<1> DEFINE u == Append(s, k)
<1>1. /\ Len(s) \in Nat /\ Len(u) = Len(s) + 1
      /\ u[Len(s) + 1] = k /\ \A i \in 1 .. Len(s) : u[i] = s[i]
  BY AppendOf
<1>2. /\ c.got \in Nat /\ c.left \in Nat /\ a.copied \in Nat /\ a.body \in Nat
      /\ c.got + Len(s) = a.copied + (IF c.at = "head" THEN 1 ELSE 0)
  BY DEF ClientType, AnswerType, Written
<1> HIDE DEF u
<1>3. c.got + Len(u) = b.copied + (IF c.at = "head" THEN 1 ELSE 0)
  BY <1>1, <1>2
<1>4. CASE a.chunked
  <2>1. CASE c.at = "chunks" /\ Kinds(s, 1, "chunk")
    <3>1. Chunks(u, 1, c.got, b)
      BY <1>1, <1>4, <2>1 DEF Chunks, Kinds
    <3> QED
      BY <1>3, <1>4, <2>1, <3>1 DEF Written, Streamed, u
  <2>2. CASE /\ c.at = "head" /\ c.got = 0 /\ Len(s) = a.copied + 1
             /\ s[1].kind = "chunkedHead" /\ Kinds(s, 2, "chunk")
    <3>1. u[1] = s[1] /\ Len(u) > 0
      BY <1>1, <1>2, <2>2
    <3>2. ASSUME NEW i \in 2 .. Len(u) PROVE u[i].kind = "chunk"
      <4>1. i \in 2 .. Len(s) \/ i = Len(s) + 1
        BY <1>1
      <4>2. CASE i = Len(s) + 1
        BY <1>1, <1>4, <4>2
      <4>3. CASE i \in 2 .. Len(s)
        BY <1>1, <2>2, <4>3 DEF Kinds
      <4> QED
        BY <4>1, <4>2, <4>3
    <3>3. Chunks(u, 2, 0, b)
      BY <3>2, Zenon DEF Chunks
    <3> QED
      BY <1>3, <1>4, <2>2, <3>1, <3>3 DEF Written, Streamed, u
  <2> QED
    BY <1>4, <2>1, <2>2, Open
<1>5. CASE ~a.chunked
  <2>1. Sized(c, s, a)
    BY <1>5 DEF Written
  <2>2. c.at # "idle"
    BY <1>2, <2>1 DEF Sized
  <2>3. CASE c.at = "length"
    <3>1. Kinds(u, 1, "raw")
      BY <1>1, <1>5, <2>1, <2>3 DEF Sized, Kinds
    <3>2. Len(u) <= c.left
      BY <1>1, <1>2, <2>1, <2>3 DEF Sized
    <3> QED
      BY <1>3, <1>5, <2>1, <2>3, <3>1, <3>2 DEF Written, Sized, u
  <2>4. CASE c.at = "head"
    <3>1. Kinds(u, 2, "raw") /\ u[1] = s[1] /\ Len(u) > 0
      BY <1>1, <1>5, <2>1, <2>4 DEF Sized, Kinds
    <3>2. Len(u) <= a.body + 1
      BY <1>1, <1>2, <2>1, <2>4 DEF Sized
    <3> QED
      BY <1>3, <1>5, <2>1, <2>4, <3>1, <3>2 DEF Written, Sized, u
  <2> QED
    BY <2>1, <2>2, <2>3, <2>4 DEF Sized
<1> QED
  BY <1>4, <1>5

\* So does the end of a chunked body.
LEMMA LastExpected ==
  ASSUME NEW c \in ClientType, NEW a \in AnswerType,
         NEW s \in Seq(Tokens), NEW k \in Tokens, k.kind = "last",
         Written(c, s, a), ~a.bare, a.chunked, a.whole
  PROVE  Expected(c, Append(s, k), a)
<1> DEFINE u == Append(s, k)
<1>1. /\ Len(s) \in Nat /\ Len(u) = Len(s) + 1
      /\ u[Len(s) + 1] = k /\ \A i \in 1 .. Len(s) : u[i] = s[i]
  BY AppendOf
<1>2. c.got \in Nat /\ a.copied \in Nat /\ Len(s) \in Nat
  BY <1>1 DEF ClientType, AnswerType
<1> HIDE DEF u
<1>3. CASE c.at = "chunks" /\ Kinds(s, 1, "chunk") /\ c.got + Len(s) = a.copied
  <2>1. Chunks(u, 1, c.got, a)
    <3>1. ASSUME NEW i \in 1 .. Len(u) PROVE i \in 1 .. Len(s) \/ i = Len(s) + 1
      BY <1>1
    <3>2. c.got + (Len(s) + 1) = a.copied + 1
      BY <1>2, <1>3
    <3>3. \A i \in 1 .. Len(s) : u[i].kind = "chunk"
      BY <1>1, <1>3 DEF Kinds
    <3> QED
      BY <1>1, <3>1, <3>2, <3>3, Zenon DEF Chunks
  <2> QED
    BY <1>3, <2>1 DEF Expected, Streamed, u
<1>4. CASE /\ c.at = "head" /\ c.got = 0 /\ Len(s) = a.copied + 1
           /\ s[1].kind = "chunkedHead" /\ Kinds(s, 2, "chunk")
  <2>1. Chunks(u, 2, 0, a)
    <3>1. ASSUME NEW i \in 2 .. Len(u) PROVE i \in 2 .. Len(s) \/ i = Len(s) + 1
      BY <1>1
    <3>2. 0 + (Len(s) + 1) = a.copied + 2
      BY <1>2, <1>4
    <3>3. \A i \in 2 .. Len(s) : u[i].kind = "chunk"
      BY <1>1, <1>4 DEF Kinds
    <3> QED
      BY <1>1, <3>1, <3>2, <3>3, Zenon DEF Chunks
  <2>2. u[1].kind = "chunkedHead" /\ Len(u) > 0
    <3>1. 1 \in 1 .. Len(s)
      BY <1>2, <1>4
    <3>2. Len(u) > 0
      BY <1>1
    <3> QED
      BY <1>1, <1>4, <3>1, <3>2, Zenon
  <2> QED
    BY <1>4, <2>1, <2>2 DEF Expected, Streamed, u
<1> QED
  BY <1>3, <1>4, Open

\* An answer may turn out to be whole, or to have broken off, at its end.
LEMMA TurnsWhole ==
  ASSUME NEW c \in ClientType, NEW a \in AnswerType, NEW b \in AnswerType,
         NEW s \in Seq(Tokens), b = [a EXCEPT !.whole = b.whole], a.whole => b.whole
  PROVE  /\ Expected(c, s, a) => Expected(c, s, b)
         /\ Written(c, s, a) => Written(c, s, b)
<1>1. b.bare = a.bare /\ b.body = a.body /\ b.chunked = a.chunked /\ b.copied = a.copied
  BY DEF AnswerType
<1>2. Bare(c, s, a) => Bare(c, s, b)
  BY <1>1 DEF Bare
<1>3. Sized(c, s, a) => Sized(c, s, b)
  BY <1>1 DEF Sized
<1>4. Streamed(c, s, a) => Streamed(c, s, b)
  BY <1>1 DEF Streamed, Chunks
<1> QED
  BY <1>1, <1>2, <1>3, <1>4 DEF Expected, Written

-----------------------------------------------------------------------------
(* The client in step with the loop.                                       *)

\* What has been written and not read.
Pending == wire \o buf

InStep ==
  ~unframed =>
    /\ client.at = "eof" \/ Expected(client, wire, Answer)
    /\ conn = "up" => client.at # "eof" /\ Expected(client, Pending, Answer)
    /\ pc \in {"serve", "proxy", "hijack"} => wire = <<>> /\ client.at \in {"head", "eof"}
    /\ pc = "hijack" => buf = IF req.kind = "sealed" THEN <<Tok("switch", 0)>> ELSE <<>>
    /\ Answering /\ conn = "up" => Written(client, Pending, Answer)
    /\ pc = "ended" /\ Answering /\ ~Answer.bare => Answer.whole
    /\ pc = "tunnel" => buf = <<>> /\ (conn = "up" => Tunnelled(client, wire))

\* The answer has its type, and keeps it.
LEMMA AnswerTyped == Types => Answer \in AnswerType /\ Pending \in Seq(Tokens)
<1> SUFFICES ASSUME Types PROVE Answer \in AnswerType /\ Pending \in Seq(Tokens)
  OBVIOUS
<1>1. NoBody(reply) \in BOOLEAN /\ w.chunked \in BOOLEAN /\ reply.body \in Nat
  BY BoundsAssumption DEF Types, NoBody, RequestType, ReplyType, WriterType
<1>2. copied \in Nat /\ (copied = reply.body \/ failed) \in BOOLEAN
  BY DEF Types
<1>3. Pending \in Seq(Tokens)
  BY DEF Types, Pending
<1> QED
  BY <1>1, <1>2, <1>3 DEF Answer, AnswerType

\* What a step must establish, said of the values it leaves.
LEMMA Later ==
  ASSUME ~unframed' =>
    /\ client'.at = "eof" \/ Expected(client', wire', Answer')
    /\ conn' = "up" => client'.at # "eof" /\ Expected(client', Pending', Answer')
    /\ pc' \in {"serve", "proxy", "hijack"} => wire' = <<>> /\ client'.at \in {"head", "eof"}
    /\ pc' = "hijack" => buf' = IF req'.kind = "sealed" THEN <<Tok("switch", 0)>> ELSE <<>>
    /\ Answering' /\ conn' = "up" => Written(client', Pending', Answer')
    /\ pc' = "ended" /\ Answering' /\ ~Answer'.bare => Answer'.whole
    /\ pc' = "tunnel" => buf' = <<>> /\ (conn' = "up" => Tunnelled(client', wire'))
  PROVE  InStep'
BY Zenon DEF InStep, Expected, Waiting, Bare, Sized, Streamed, Chunks, Tunnelled, Kinds, Written

\* Sending: what reaches the wire, and what is still in the buffer, stays as
\* expected.
LEMMA Sends ==
  ASSUME Types, NEW a \in AnswerType, NEW out \in Seq(Tokens), Buffer(out),
         client.at = "eof" \/ Expected(client, wire, a),
         conn = "up" => client.at # "eof" /\ Expected(client, wire \o out, a)
  PROVE  /\ client.at = "eof" \/ Expected(client, wire', a)
         /\ conn' = "up" => /\ conn = "up" /\ Pending' = wire \o out
                            /\ client.at # "eof" /\ Expected(client, Pending', a)
<1>1. /\ wire' \in Seq(Tokens) /\ Prefix(wire', wire \o out)
      /\ conn # "up" => UNCHANGED <<wire, conn>>
      /\ conn' = "up" => wire' \o buf' = wire \o out
  BY Out
<1>2. client \in ClientType /\ wire \o out \in Seq(Tokens)
  BY DEF Types
<1>3. CASE conn = "up"
  <2>1. Expected(client, wire', a)
    BY <1>1, <1>2, <1>3, PrefixExpected
  <2> QED
    BY <1>1, <1>3, <2>1, Zenon DEF Pending
<1>4. CASE conn # "up"
  BY <1>1, <1>4, Zenon
<1> QED
  BY <1>3, <1>4

\* What was written is expected.
LEMMA WrittenExpected ==
  ASSUME NEW c, NEW s, NEW a \in AnswerType, Written(c, s, a)
  PROVE  Expected(c, s, a)
<1>1. a.bare \in BOOLEAN /\ a.chunked \in BOOLEAN
  BY DEF AnswerType
<1> QED
  BY <1>1, Zenon DEF Written, Expected

\* One more token behind what is pending.
LEMMA Behind ==
  ASSUME NEW s \in Seq(Tokens), NEW t \in Seq(Tokens), NEW k \in Tokens
  PROVE  /\ s \o Append(t, k) = Append(s \o t, k) /\ s \o (t \o <<k>>) = Append(s \o t, k)
         /\ Append(t, k) \in Seq(Tokens) /\ t \o <<k>> \in Seq(Tokens)
OBVIOUS

\* Reading from the wire is reading from what is pending.
LEMMA InFront ==
  ASSUME NEW s \in Seq(Tokens), NEW t \in Seq(Tokens), Len(s) > 0
  PROVE  /\ Head(s \o t) = Head(s) /\ Tail(s \o t) = Tail(s) \o t
         /\ s \o t \in Seq(Tokens) /\ Len(s \o t) > 0
OBVIOUS

\* A client whose request is being served has got nothing yet.
LEMMA Awaits ==
  ASSUME Types, InStep, ~unframed, pc \in {"serve", "proxy", "hijack"}
  PROVE  /\ wire = <<>> /\ (conn = "up" => client.at = "head" /\ client.got = 0)
         /\ \A a : client.at = "eof" \/ Expected(client, wire, a)
<1>1. /\ wire = <<>> /\ client.at \in {"head", "eof"} /\ Len(wire) = 0
      /\ client.at = "eof" \/ Expected(client, wire, Answer)
      /\ conn = "up" => client.at # "eof"
  BY DEF InStep
<1>2. client.at = "head" => client.got = 0
  BY <1>1 DEF Expected, Waiting, Bare, Sized, Streamed, Tunnelled
<1> QED
  BY <1>1, <1>2, Zenon DEF Expected, Waiting

\* The head of an answer opens it.
LEMMA HeadWritten ==
  ASSUME NEW c \in ClientType, c.at = "head", c.got = 0, NEW r \in ReplyType,
         NEW a \in AnswerType, a.bare = NoBody(r), a.body = r.body, a.chunked = Chunked(r),
         a.copied = 0, ~(a.bare /\ a.chunked)
  PROVE  Written(c, <<HeadToken(r)>>, a)
<1> DEFINE s == <<HeadToken(r)>>
<1>1. Len(s) = 1 /\ s[1] = HeadToken(r) /\ r.body \in Nat
  BY BoundsAssumption DEF ReplyType
<1>2. c.got + Len(s) = a.copied + (IF c.at = "head" THEN 1 ELSE 0)
  BY <1>1
<1> HIDE DEF s
<1>3. CASE a.bare
  <2>1. s[1].kind = "emptyHead"
    BY <1>1, <1>3 DEF HeadToken, Tok
  <2> QED
    BY <1>1, <1>2, <1>3, <2>1 DEF Written, Bare, s
<1>4. CASE ~a.bare /\ a.chunked
  <2>1. s[1].kind = "chunkedHead"
    BY <1>1, <1>4 DEF HeadToken, Tok
  <2>2. Chunks(s, 2, 0, a) /\ Len(s) > 0
    BY <1>1 DEF Chunks
  <2> QED
    BY <1>2, <1>4, <2>1, <2>2 DEF Written, Streamed, s
<1>5. CASE ~a.bare /\ ~a.chunked
  <2>1. s[1].kind = "lengthHead" /\ s[1].n = a.body
    BY <1>1, <1>5 DEF HeadToken, Tok
  <2>2. Kinds(s, 2, "raw") /\ Len(s) > 0 /\ Len(s) <= a.body + 1
    BY <1>1 DEF Kinds
  <2> QED
    BY <1>2, <1>5, <2>1, <2>2 DEF Written, Sized, s
<1> QED
  BY <1>3, <1>4, <1>5 DEF AnswerType

\* An answer changes only with the request, the reply, the writer or the copy.
LEMMA SameAnswer == UNCHANGED <<req, reply, w, copied, failed>> => UNCHANGED Answer
BY DEF Answer, NoBody

\* No head that was written is taken back.
LEMMA StaysUnframed == [Next]_vars /\ unframed => unframed'
<1> USE DEF proxyVars, writerVars, loopVars
<1> SUFFICES ASSUME [Next]_vars, unframed PROVE unframed'
  OBVIOUS
<1>1. CASE Reply \/ ErrorReply
  BY <1>1 DEF Reply, ErrorReply, WriteHeader
<1>2. CASE \/ UNCHANGED vars \/ ReadRequest \/ Return \/ Cut \/ ClientReads \/ ClientEnds
           \/ DeadlinePasses \/ Forward \/ EndOfServe \/ CopyPiece \/ CopyEnds \/ Hijack \/ Tunnel
           \/ Preflight \/ Refuse \/ Interim \/ Upgrade
  BY <1>2 DEF vars, ReadRequest, Return, Cut, ClientReads, ClientEnds, DeadlinePasses, Forward,
              EndOfServe, CopyPiece, CopyEnds, Hijack, Tunnel, Preflight, Refuse, Direct, Interim,
              Upgrade
<1> QED
  BY <1>1, <1>2 DEF Next, Loop, Proxy

\* Every step keeps the client in step.
LEMMA NextInStep == Types /\ Types' /\ Writer /\ InStep /\ [Next]_vars => InStep'
<1> DEFINE Kept ==
      /\ client'.at = "eof" \/ Expected(client', wire', Answer')
      /\ conn' = "up" => client'.at # "eof" /\ Expected(client', Pending', Answer')
      /\ pc' \in {"serve", "proxy", "hijack"} => wire' = <<>> /\ client'.at \in {"head", "eof"}
      /\ pc' = "hijack" => buf' = IF req'.kind = "sealed" THEN <<Tok("switch", 0)>> ELSE <<>>
      /\ Answering' /\ conn' = "up" => Written(client', Pending', Answer')
      /\ pc' = "ended" /\ Answering' /\ ~Answer'.bare => Answer'.whole
      /\ pc' = "tunnel" => buf' = <<>> /\ (conn' = "up" => Tunnelled(client', wire'))
<1> SUFFICES ASSUME Types, Types', Writer, InStep, [Next]_vars, ~unframed' PROVE Kept
  BY Later
<1>a. /\ ~unframed /\ client \in ClientType /\ client' \in ClientType
      /\ Answer \in AnswerType /\ Answer' \in AnswerType
      /\ wire \in Seq(Tokens) /\ buf \in Seq(Tokens) /\ Pending \in Seq(Tokens)
  <2>1. Types' => (Answer \in AnswerType)'
    BY AnswerTyped, PTL
  <2>2. Answer' \in AnswerType
    BY <2>1, Zenon DEF AnswerType
  <2> QED
    BY <2>2, StaysUnframed, AnswerTyped DEF Types, ClientType
<1>b. /\ client.at = "eof" \/ Expected(client, wire, Answer)
      /\ conn = "up" => client.at # "eof" /\ Expected(client, Pending, Answer)
      /\ pc \in {"serve", "proxy", "hijack"} => wire = <<>> /\ client.at \in {"head", "eof"}
      /\ pc = "hijack" => buf = IF req.kind = "sealed" THEN <<Tok("switch", 0)>> ELSE <<>>
      /\ Answering /\ conn = "up" => Written(client, Pending, Answer)
      /\ pc = "ended" /\ Answering /\ ~Answer.bare => Answer.whole
      /\ pc = "tunnel" => buf = <<>> /\ (conn = "up" => Tunnelled(client, wire))
  BY <1>a, Zenon DEF InStep
<1> USE DEF proxyVars, writerVars, loopVars
<1>1. CASE UNCHANGED vars \/ DeadlinePasses
  <2>1. UNCHANGED <<pc, conn, req, client, wire, buf, Answer, Pending, Answering>>
    BY <1>1, SameAnswer DEF vars, DeadlinePasses, Pending, Answering
  <2> QED
    BY <1>b, <2>1, Zenon
<1>2. CASE Return \/ Cut
  <2>1. /\ UNCHANGED <<client, wire, buf, req, Answer>> /\ conn' # "up"
        /\ UNCHANGED <<pc, Answering>> \/ pc' = "closed"
    BY <1>2, SameAnswer DEF Return, Cut, Answering
  <2> QED
    BY <1>b, <2>1 DEF Kept
<1>3. CASE ReadRequest
  <2>1. pc = "read" /\ client.at = "idle" /\ UNCHANGED <<wire, buf>>
    BY <1>3 DEF ReadRequest
  <2>2. buf = <<>> /\ Len(wire) = 0
    BY <1>b, <2>1 DEF Writer, Expected, Waiting, Bare, Sized, Streamed, Tunnelled
  <2>3. wire' = <<>> /\ Pending' = <<>>
    BY <1>a, <2>1, <2>2 DEF Pending
  <2>4. pc' = "serve" /\ client'.at = "head" /\ client'.got = 0
    BY <1>3 DEF ReadRequest
  <2>5. Expected(client', <<>>, Answer')
    BY <2>4 DEF Expected, Waiting
  <2> QED
    BY <2>3, <2>4, <2>5 DEF Answering
<1>4. CASE Forward
  <2>1. /\ pc = "serve" /\ pc' = "proxy" /\ buf' = <<>> /\ UNCHANGED <<client, wire, conn>>
    BY <1>4 DEF Forward
  <2>2. /\ wire = <<>> /\ client.at \in {"head", "eof"} /\ (conn = "up" => client.at # "eof")
        /\ client.at = "eof" \/ Expected(client, wire, Answer')
    BY <1>a, <1>b, <2>1, Awaits
  <2>3. Pending' = wire'
    BY <2>1, <2>2 DEF Pending
  <2> QED
    BY <2>1, <2>2, <2>3 DEF Answering
<1>5. CASE Preflight
  <2>1. /\ pc = "serve" /\ pc' = "read" /\ UNCHANGED <<client, conn, buf, req>>
        /\ wire' = IF conn = "up" THEN wire \o <<Tok("emptyHead", 0)>> ELSE wire
    BY <1>5 DEF Preflight, Direct
  <2>2. /\ wire = <<>> /\ buf = <<>> /\ (conn = "up" => client.at = "head" /\ client.got = 0)
        /\ client.at = "eof" \/ Expected(client, wire, Answer')
    BY <1>a, <2>1, Awaits DEF Writer
  <2>3. CASE conn = "up"
    <3>1. wire' = <<Tok("emptyHead", 0)>> /\ Pending' = wire'
      BY <2>1, <2>2, <2>3, PlainTok DEF Pending
    <3>2. Answer'.bare
      <4>1. reply'.bodyless
        BY <1>5 DEF Preflight, Types, ReplyType
      <4> QED
        BY <4>1 DEF Answer, NoBody
    <3>3. Bare(client, wire', Answer')
      BY <2>2, <2>3, <3>1, <3>2 DEF Bare, Tok
    <3> QED
      BY <2>1, <2>2, <2>3, <3>1, <3>3 DEF Answering, Expected
  <2>4. CASE conn # "up"
    BY <2>1, <2>2, <2>4 DEF Answering
  <2> QED
    BY <2>3, <2>4
<1>6. CASE Refuse
  <2>1. /\ pc = "serve" /\ pc' = "closing" /\ UNCHANGED <<client, conn, buf, req>>
        /\ wire' = IF conn = "up" THEN wire \o WriteHTTP ELSE wire
        /\ reply' = [bodyless |-> FALSE, length |-> TRUE, body |-> 1, origin |-> "none"]
    BY <1>6 DEF Refuse, Direct
  <2>2. /\ wire = <<>> /\ buf = <<>> /\ (conn = "up" => client.at = "head" /\ client.got = 0)
        /\ client.at = "eof" \/ Expected(client, wire, Answer')
    BY <1>a, <2>1, Awaits DEF Writer
  <2>3. CASE conn = "up"
    <3>1. Answer'.bare = (req.kind = "head") /\ Answer'.body = 1
      BY <2>1 DEF Answer, NoBody
    <3>2. CASE req.kind = "head"
      <4>1. wire' = <<Tok("emptyHead", 0)>> /\ Pending' = wire'
        BY <2>1, <2>2, <2>3, <3>2, PlainTok DEF Pending, WriteHTTP
      <4>2. Bare(client, wire', Answer')
        BY <2>2, <2>3, <3>1, <3>2, <4>1 DEF Bare, Tok
      <4> QED
        BY <2>1, <2>2, <2>3, <4>1, <4>2 DEF Answering, Expected
    <3>3. CASE req.kind # "head"
      <4>1. wire' = <<Tok("lengthHead", 1), Tok("raw", 0)>> /\ Pending' = wire'
        <5>1. Tok("lengthHead", 1) \in Tokens /\ Tok("raw", 0) \in Tokens
          BY TokType, PlainTok, BoundsAssumption
        <5> QED
          BY <2>1, <2>2, <2>3, <3>3, <5>1 DEF Pending, WriteHTTP
      <4>2. /\ Len(wire') = 2 /\ wire'[1].kind = "lengthHead" /\ wire'[1].n = 1
            /\ wire'[2].kind = "raw"
        BY <4>1 DEF Tok
      <4>3. Sized(client, wire', Answer')
        <5>1. Kinds(wire', 2, "raw")
          BY <4>2 DEF Kinds
        <5>2. 2 > 0 /\ 2 <= 1 + 1
          OBVIOUS
        <5>3. Len(wire') > 0 /\ Len(wire') <= Answer'.body + 1 /\ ~Answer'.bare
          BY <3>1, <3>3, <4>2, <5>2, Zenon
        <5> QED
          BY <2>2, <2>3, <3>1, <4>2, <5>1, <5>3, Zenon DEF Sized
      <4> QED
        BY <2>1, <2>2, <2>3, <4>1, <4>3 DEF Answering, Expected
    <3> QED
      BY <3>2, <3>3
  <2>4. CASE conn # "up"
    BY <2>1, <2>2, <2>4 DEF Answering
  <2> QED
    BY <2>3, <2>4
<1>7. CASE EndOfServe
  <2>1. /\ pc = "ended" /\ UNCHANGED <<client, req, Answer>>
        /\ pc' \in {"closing", "read"}
    BY <1>7, SameAnswer DEF EndOfServe
  <2>2. CASE UNCHANGED <<buf, conn, wire>>
    BY <1>b, <2>1, <2>2 DEF Answering, Pending
  <2>3. CASE Finalises /\ ~UNCHANGED <<buf, conn, wire>>
    <3> DEFINE out == buf \o (IF w.chunked THEN <<Tok("last", 0)>> ELSE <<>>)
    <3>1. Answering /\ w.wroteHeader
      BY <2>1, <2>3 DEF Answering, Finalises, Writer
    <3>2. Flush(out)
      BY <1>7, <2>3, <3>1 DEF EndOfServe, FinalFlush
    <3>3. Tok("last", 0) \in Tokens /\ Tok("last", 0).kind = "last"
      BY PlainTok DEF Tok
    <3>4. out \in Seq(Tokens)
      BY <1>a, <3>3
    <3>5. conn = "up" => client.at # "eof" /\ Expected(client, wire \o out, Answer)
      <4> SUFFICES ASSUME conn = "up" PROVE Expected(client, wire \o out, Answer)
        BY <1>b
      <4>1. CASE w.chunked
        <5>1. wire \o out = Append(Pending, Tok("last", 0))
          BY <1>a, <3>3, <4>1, Behind DEF Pending
        <5>2. Written(client, Pending, Answer) /\ Answer.chunked
          BY <1>b, <3>1, <4>1 DEF Answer
        <5>3. ~Answer.bare /\ Answer.whole
          BY <1>a, <1>b, <2>1, <3>1, <5>2 DEF Written
        <5> HIDE DEF out
        <5>4. Expected(client, Append(Pending, Tok("last", 0)), Answer)
          BY <1>a, <3>3, <5>2, <5>3, LastExpected
        <5> QED
          BY <5>1, <5>4
      <4>2. CASE ~w.chunked
        <5>1. wire \o out = Pending
          BY <1>a, <4>2 DEF Pending
        <5> QED
          BY <1>b, <5>1
      <4> QED
        BY <4>1, <4>2
    <3> HIDE DEF out
    <3>6. /\ client.at = "eof" \/ Expected(client, wire', Answer)
          /\ conn' = "up" => client.at # "eof" /\ Expected(client, Pending', Answer)
      BY <1>a, <1>b, <3>2, <3>4, <3>5, FlushOut, Sends
    <3> QED
      BY <2>1, <3>6 DEF Answering
  <2> QED
    BY <1>7, <2>2, <2>3 DEF EndOfServe
<1>8. CASE Interim
  BY <1>8 DEF Interim
<1>9. CASE Reply \/ ErrorReply
  <2>1. /\ pc = "proxy" /\ UNCHANGED <<client, req>> /\ reply' \in ReplyType
        /\ ~w.wroteHeader /\ ~w.hijacked /\ buf = <<>> /\ copied = 0
    BY <1>a, <1>9 DEF Reply, ErrorReply, Writer, Types
  <2>2. /\ wire = <<>> /\ (conn = "up" => client.at = "head" /\ client.got = 0)
        /\ client.at = "eof" \/ Expected(client, wire, Answer')
    BY <1>a, <2>1, Awaits
  <2>3. /\ w' = [w EXCEPT !.wroteHeader = TRUE, !.chunked = Chunked(reply')]
        /\ ~(Chunked(reply') /\ NoBody(reply')) /\ HeadOut(reply') = <<HeadToken(reply')>>
    BY <1>9, <2>1 DEF Reply, ErrorReply, WriteHeader, HeadOut
  <2>4. w'.chunked = Chunked(reply')
    BY <2>3 DEF Types, WriterType
  <2>5. /\ Answer'.bare = NoBody(reply') /\ Answer'.body = reply'.body
        /\ Answer'.chunked = Chunked(reply') /\ Answer'.copied = copied'
        /\ Answer'.whole = (copied' = reply'.body \/ failed')
    BY <2>1, <2>4 DEF Answer, NoBody
  <2>6. HeadToken(reply') \in Tokens
    BY <2>1, HeadType
  <2>7. CASE Reply
    <3>1. Buffer(buf \o HeadOut(reply')) /\ pc' = "copy" /\ copied' = 0
      BY <2>1, <2>7 DEF Reply
    <3>2. /\ buf \o HeadOut(reply') = <<HeadToken(reply')>>
          /\ <<HeadToken(reply')>> \in Seq(Tokens)
          /\ wire \o <<HeadToken(reply')>> = <<HeadToken(reply')>>
      BY <2>1, <2>2, <2>3, <2>6
    <3>3. conn = "up" => Written(client, <<HeadToken(reply')>>, Answer')
      BY <1>a, <2>1, <2>2, <2>3, <2>5, <3>1, HeadWritten
    <3>4. /\ client.at = "eof" \/ Expected(client, wire', Answer')
          /\ conn' = "up" => /\ conn = "up" /\ Pending' = <<HeadToken(reply')>>
                             /\ client.at # "eof" /\ Expected(client, Pending', Answer')
      <4>1. conn = "up" => client.at # "eof" /\ Expected(client, <<HeadToken(reply')>>, Answer')
        BY <1>a, <2>2, <3>3, WrittenExpected
      <4> QED
        BY <1>a, <2>2, <3>1, <3>2, <4>1, Sends
    <3> QED
      BY <2>1, <3>1, <3>3, <3>4
  <2>8. CASE ErrorReply
    <3> DEFINE k == Tok("chunk", 0)
               h == HeadToken(reply')
               a == [bare |-> FALSE, body |-> 1, chunked |-> TRUE, copied |-> 0, whole |-> FALSE]
    <3>1. /\ ~reply'.length /\ reply'.body = 1 /\ pc' = "ended" /\ copied' = 1
          /\ IF w'.chunked THEN Flush(buf \o HeadOut(reply') \o <<k>>)
                           ELSE Buffer(Append(buf, Tok("raw", 0)))
      BY <2>8 DEF ErrorReply
    <3>2. Chunked(reply') /\ ~NoBody(reply') /\ Flush(buf \o HeadOut(reply') \o <<k>>)
      BY <2>3, <2>4, <3>1 DEF Chunked
    <3>3. k \in Tokens /\ k.kind = "chunk"
      BY PlainTok DEF Tok
    <3> HIDE DEF k, h
    <3>4. /\ buf \o <<h>> \o <<k>> = Append(<<h>>, k) /\ <<h>> \in Seq(Tokens)
          /\ Append(<<h>>, k) \in Seq(Tokens) /\ wire \o Append(<<h>>, k) = Append(<<h>>, k)
      BY <2>1, <2>2, <2>6, <3>3 DEF h
    <3>5. conn = "up" => Written(client, Append(<<h>>, k), Answer')
      <4> SUFFICES ASSUME conn = "up" PROVE Written(client, Append(<<h>>, k), Answer')
        OBVIOUS
      <4>1. a \in AnswerType
        BY DEF AnswerType
      <4>2. /\ a.bare = FALSE /\ a.body = 1 /\ a.chunked = TRUE /\ a.copied = 0
            /\ 1 = a.copied + 1 /\ a.copied < a.body
        OBVIOUS
      <4> HIDE DEF a
      <4>3. NoBody(reply') = FALSE /\ Chunked(reply') = TRUE
        BY <3>2 DEF NoBody, Chunked
      <4>4. /\ Answer'.bare = a.bare /\ Answer'.body = a.body /\ Answer'.chunked = a.chunked
            /\ Answer'.copied = a.copied + 1 /\ a.copied < a.body
        BY <2>5, <3>1, <4>2, <4>3, Zenon
      <4>5. Written(client, <<h>>, a)
        <5>1. a.bare = NoBody(reply') /\ a.chunked = Chunked(reply') /\ a.body = reply'.body
          BY <3>1, <4>2, <4>3, Zenon
        <5> QED
          BY <1>a, <2>1, <2>2, <4>1, <4>2, <5>1, HeadWritten, Zenon DEF h
      <4>6. k.kind = IF a.chunked THEN "chunk" ELSE "raw"
        BY <3>3, <4>2
      <4> QED
        BY <1>a, <3>3, <3>4, <4>1, <4>2, <4>4, <4>5, <4>6, PieceWritten
    <3>6. /\ client.at = "eof" \/ Expected(client, wire', Answer')
          /\ conn' = "up" => /\ conn = "up" /\ Pending' = Append(<<h>>, k)
                             /\ client.at # "eof" /\ Expected(client, Pending', Answer')
      <4>1. conn = "up" => client.at # "eof" /\ Expected(client, Append(<<h>>, k), Answer')
        BY <1>a, <2>2, <3>5, WrittenExpected
      <4>2. Buffer(Append(<<h>>, k))
        BY <2>3, <3>2, <3>4, FlushOut DEF h
      <4> QED
        BY <1>a, <2>2, <3>4, <4>1, <4>2, Sends
    <3>7. Answer'.whole
      BY <2>5, <3>1
    <3> QED
      BY <2>1, <3>1, <3>5, <3>6, <3>7
  <2> QED
    BY <1>9, <2>7, <2>8
<1>10. CASE CopyPiece
  <2> DEFINE k == IF w.chunked THEN Tok("chunk", 0) ELSE Tok("raw", 0)
             out == Append(buf, k)
  <2>1. /\ pc = "copy" /\ pc' = "copy" /\ conn = "up" /\ UNCHANGED <<client, req, reply, w, failed>>
        /\ ~NoBody(reply) /\ copied < reply.body /\ copied' = copied + 1
    BY <1>10 DEF CopyPiece
  <2>2. k \in Tokens /\ k.kind = IF Answer.chunked THEN "chunk" ELSE "raw"
    BY PlainTok DEF Tok, Answer
  <2>3. Buffer(out)
    BY <1>10, FlushOut DEF CopyPiece
  <2> HIDE DEF k
  <2>4. wire \o out = Append(Pending, k) /\ out \in Seq(Tokens) /\ wire \o out \in Seq(Tokens)
    <3>1. wire \o out = Append(wire \o buf, k) /\ out \in Seq(Tokens)
      BY <1>a, <2>2, Behind
    <3>2. Append(Pending, k) \in Seq(Tokens)
      BY <1>a, <2>2, AppendOf
    <3> QED
      BY <3>1, <3>2 DEF Pending
  <2> HIDE DEF out
  <2>5. Prefix(wire, wire \o out)
    <3>1. /\ Len(wire \o out) = Len(wire) + Len(out)
          /\ \A i \in 1 .. Len(wire) + Len(out) :
               (wire \o out)[i] = IF i <= Len(wire) THEN wire[i] ELSE out[i - Len(wire)]
      BY <1>a, <2>4, Concatenation
    <3>2. Len(wire) \in Nat /\ Len(out) \in Nat
      BY <1>a, <2>4
    <3> QED
      BY <3>1, <3>2 DEF Prefix
  <2>6. /\ Answer'.bare = Answer.bare /\ Answer'.body = Answer.body
        /\ Answer'.chunked = Answer.chunked /\ Answer'.copied = Answer.copied + 1
        /\ ~Answer.bare /\ Answer.copied < Answer.body
    BY <2>1 DEF Answer, NoBody
  <2>7. Answering /\ (Answering' => Answering)
    BY <2>1 DEF Answering, Writer
  <2>8. Written(client, Pending, Answer) /\ client.at # "eof"
    BY <1>b, <2>1, <2>7
  <2>9. Written(client, wire \o out, Answer')
    BY <1>a, <2>2, <2>4, <2>6, <2>8, PieceWritten
  <2>10. Expected(client, wire \o out, Answer') /\ Expected(client, wire, Answer')
    BY <1>a, <2>4, <2>5, <2>9, WrittenExpected, PrefixExpected
  <2>11. /\ client.at = "eof" \/ Expected(client, wire', Answer')
         /\ conn' = "up" => /\ Pending' = wire \o out
                            /\ client.at # "eof" /\ Expected(client, Pending', Answer')
    BY <1>a, <2>3, <2>4, <2>8, <2>10, Sends
  <2> QED
    BY <2>1, <2>9, <2>11
<1>11. CASE CopyEnds
  <2>1. /\ pc = "copy" /\ pc' = "ended" /\ UNCHANGED <<client, req, reply, w, copied, wire, buf, conn>>
        /\ failed' = (~NoBody(reply) /\ copied < reply.body)
    BY <1>11 DEF CopyEnds
  <2>2. ~failed /\ copied <= reply.body /\ copied \in Nat /\ reply.body \in Nat
    BY <2>1, BoundsAssumption DEF Writer, Types, ReplyType
  <2>3. Answer' = [Answer EXCEPT !.whole = Answer'.whole]
    BY <2>1 DEF Answer, NoBody
  <2>4. Answer.whole => Answer'.whole
    BY <2>1, <2>2 DEF Answer
  <2>5. ~Answer'.bare => Answer'.whole
    <3>1. Answer'.bare = NoBody(reply) /\ Answer'.whole = (copied = reply.body \/ failed')
      BY <2>1 DEF Answer, NoBody
    <3>2. copied < reply.body \/ copied = reply.body
      BY <2>2
    <3> QED
      BY <2>1, <3>1, <3>2, Zenon
  <2>6. Pending' = Pending /\ (Answering' => Answering)
    BY <2>1 DEF Pending, Answering
  <2>7. /\ Expected(client, wire, Answer) => Expected(client, wire, Answer')
        /\ Expected(client, Pending, Answer) => Expected(client, Pending, Answer')
        /\ Written(client, Pending, Answer) => Written(client, Pending, Answer')
    BY <1>a, <2>3, <2>4, TurnsWhole
  <2> QED
    BY <1>b, <2>1, <2>5, <2>6, <2>7
<1>12. CASE Upgrade
  <2>1. pc = "proxy" /\ pc' = "hijack" /\ UNCHANGED <<client, req, reply, copied, failed, wire, conn>>
    BY <1>12 DEF Upgrade
  <2>2. /\ wire = <<>> /\ (conn = "up" => client.at = "head" /\ client.got = 0)
        /\ client.at = "eof" \/ Expected(client, wire, Answer')
    BY <1>a, <2>1, Awaits
  <2>3. buf' = IF req.kind = "sealed" THEN <<Tok("switch", 0)>> ELSE <<>>
    <3>1. buf = <<>>
      BY <1>a, <2>1 DEF Writer
    <3> QED
      BY <1>12, <3>1 DEF Upgrade
  <2>4. Pending' = buf'
    BY <2>1, <2>2, <2>3, PlainTok DEF Pending
  <2>5. conn = "up" => Expected(client, buf', Answer')
    <3> SUFFICES ASSUME conn = "up" PROVE Expected(client, buf', Answer')
      OBVIOUS
    <3>1. CASE req.kind = "sealed"
      <4>1. Len(buf') = 1 /\ buf'[1].kind = "switch"
        BY <2>3, <3>1 DEF Tok
      <4>2. Tunnelled(client, buf')
        BY <2>2, <4>1 DEF Tunnelled, Kinds
      <4> QED
        BY <4>2 DEF Expected
    <3>2. CASE req.kind # "sealed"
      BY <2>2, <2>3, <3>2 DEF Expected, Waiting
    <3> QED
      BY <3>1, <3>2
  <2>6. client.at \in {"head", "eof"} /\ (conn = "up" => client.at # "eof")
    BY <1>b, <2>1
  <2> QED
    BY <2>1, <2>2, <2>3, <2>4, <2>5, <2>6 DEF Answering
<1>13. CASE Hijack
  <2> DEFINE out == <<Tok("switch", 0)>>
  <2>1. /\ pc = "hijack" /\ pc' = (IF conn' = "up" THEN "tunnel" ELSE "ended")
        /\ UNCHANGED <<client, req>> /\ w'.hijacked
    BY <1>13 DEF Hijack, Types, WriterType
  <2>2. /\ wire = <<>> /\ (conn = "up" => client.at = "head" /\ client.got = 0)
        /\ client.at = "eof" \/ Expected(client, wire, Answer')
    BY <1>a, <2>1, Awaits
  <2>3. out \in Seq(Tokens) /\ wire \o out = out /\ Len(out) = 1 /\ out[1].kind = "switch"
    BY <2>2, PlainTok DEF Tok
  <2>4. Flush(out)
    <3>1. buf = IF req.kind = "sealed" THEN out ELSE <<>>
      BY <1>b, <2>1
    <3>2. Append(<<>>, Tok("switch", 0)) = out
      OBVIOUS
    <3> QED
      BY <1>13, <3>1, <3>2, Zenon DEF Hijack
  <2> HIDE DEF out
  <2>5. conn = "up" => client.at # "eof" /\ Tunnelled(client, out)
    BY <2>2, <2>3 DEF Tunnelled, Kinds
  <2>6. /\ client.at = "eof" \/ Expected(client, wire', Answer')
        /\ conn' = "up" => /\ conn = "up" /\ Pending' = out
                           /\ client.at # "eof" /\ Expected(client, Pending', Answer')
    <3>1. conn = "up" => client.at # "eof" /\ Expected(client, wire \o out, Answer')
      BY <2>3, <2>5, Zenon DEF Expected
    <3> QED
      BY <1>a, <2>2, <2>3, <2>4, <3>1, FlushOut, Sends
  <2>7. buf' = <<>> /\ (conn' = "up" => wire' = out)
    <3>1. buf' = <<>> /\ wire' \in Seq(Tokens)
      BY <2>4, FlushOut DEF Types
    <3> QED
      BY <2>6, <3>1 DEF Pending
  <2> QED
    BY <2>1, <2>5, <2>6, <2>7 DEF Answering
<1>14. CASE Tunnel
  <2>1. /\ pc = "tunnel" /\ pc' \in {"tunnel", "ended"} /\ w.hijacked /\ UNCHANGED w
        /\ UNCHANGED <<client, req, buf, conn, Answer>> /\ buf = <<>>
        /\ conn = "up" => Tunnelled(client, wire) /\ client.at # "eof"
    BY <1>14, <1>b, SameAnswer DEF Tunnel, Writer
  <2>2. CASE UNCHANGED wire
    <3>1. Pending' = Pending
      BY <2>1, <2>2 DEF Pending
    <3> QED
      BY <1>b, <2>1, <2>2, <3>1 DEF Answering
  <2>3. CASE conn = "up" /\ wire = <<>> /\ wire' = <<Tok("frame", 0)>>
    <3>1. Pending' = wire' /\ Len(wire') = 1 /\ wire'[1].kind = "frame"
      BY <2>1, <2>3, PlainTok DEF Pending, Tok
    <3>2. client.at = "tunnel"
      BY <2>1, <2>3 DEF Tunnelled
    <3>3. Tunnelled(client, wire')
      BY <3>1, <3>2 DEF Tunnelled, Kinds
    <3>4. Expected(client, wire', Answer')
      BY <3>3 DEF Expected
    <3> QED
      BY <2>1, <3>1, <3>3, <3>4 DEF Answering
  <2> QED
    BY <1>14, <2>2, <2>3 DEF Tunnel
<1>15. CASE ClientReads
  <2>1. /\ wire # <<>> /\ client.at # "eof" /\ client' = Parsed(client, Head(wire))
        /\ wire' = Tail(wire) /\ UNCHANGED <<pc, conn, req, buf, w, Answer, Answering>>
    BY <1>15, SameAnswer DEF ClientReads, Answering
  <2>2. Len(wire) > 0
    BY <1>a, <2>1
  <2>3. Expected(client', wire', Answer)
    BY <1>a, <1>b, <2>1, <2>2, ReadsExpected
  <2>4. /\ Len(Pending) > 0 /\ client' = Parsed(client, Head(Pending)) /\ Pending' = Tail(Pending)
    BY <1>a, <2>1, <2>2, InFront DEF Pending
  <2>5. conn = "up" => Expected(client', Pending', Answer) /\ client'.at # "eof"
    BY <1>a, <1>b, <2>4, ReadsExpected
  <2>6. Written(client, Pending, Answer) => Written(client', Pending', Answer)
    BY <1>a, <2>4, ReadsWritten
  <2>7. Tunnelled(client, wire) => Tunnelled(client', wire')
    BY <1>a, <2>1, <2>2, ReadsTunnelled
  <2> QED
    BY <1>b, <2>1, <2>3, <2>5, <2>6, <2>7
<1>16. CASE ClientEnds
  <2>1. client'.at = "eof"
    BY <1>16 DEF ClientEnds, Types, ClientType
  <2>2. /\ conn' # "up" /\ wire' = <<>> /\ UNCHANGED <<pc, req, buf, w, Answer, Answering>>
    BY <1>16, SameAnswer DEF ClientEnds, Answering
  <2> QED
    BY <1>b, <2>1, <2>2
<1> QED
  BY <1>1, <1>2, <1>3, <1>4, <1>5, <1>6, <1>7, <1>8, <1>9, <1>10, <1>11, <1>12, <1>13, <1>14,
     <1>15, <1>16 DEF Next, Loop, Proxy

\* The client starts idle, with nothing before it.
LEMMA InitInStep == Init => InStep
<1> SUFFICES ASSUME Init PROVE InStep
  OBVIOUS
<1>1. /\ pc = "read" /\ wire = <<>> /\ Pending = <<>> /\ client.at = "idle" /\ client.got = 0
      /\ reply.body = 0 /\ ~reply.bodyless /\ req.kind = "get"
  <2>1. wire = <<>> /\ buf = <<>>
    BY Zenon DEF Init
  <2>2. Pending = <<>>
    BY <2>1 DEF Pending
  <2> QED
    BY <2>1, <2>2 DEF Init
<1>2. Answer.body = 0 /\ ~Answer.bare
  BY <1>1 DEF Answer, NoBody
<1>3. Expected(client, <<>>, Answer)
  BY <1>1, <1>2 DEF Expected, Sized
<1> QED
  BY <1>1, <1>3, Zenon DEF InStep, Answering

Safe == Types /\ Writer /\ InStep

\* All of it together.
LEMMA Safety == Spec => []Safe
<1>1. Init => Safe
  BY InitTypes, InitWriter, InitInStep DEF Safe
<1>2. Safe /\ [Next]_vars => Safe'
  BY NextTypes, NextWriter, NextInStep DEF Safe
<1> QED
  BY <1>1, <1>2, PTL DEF Spec

\* serveHTTP and connResponseWriter: the client never meets a token where it
\* expects something else, over all the responses of a connection, unless a
\* head went out that does not frame its response.
THEOREM StaysInStep == Spec => []ClientStaysInStep
<1>1. Safe => ClientStaysInStep
  <2> SUFFICES ASSUME Safe, client.at = "confused", ~unframed PROVE FALSE
    BY DEF ClientStaysInStep
  <2>1. Expected(client, wire, Answer)
    BY DEF Safe, InStep
  <2> QED
    BY <2>1 DEF Expected, Waiting, Bare, Sized, Streamed, Tunnelled
<1> QED
  BY <1>1, Safety, PTL

\* Write and flushClose: what a client takes for a complete response is all of
\* it, except for a chunked body whose copy broke off.
THEOREM TakenIsWhole == Spec => []CompleteIsWhole
<1>1. Safe => CompleteIsWhole
  <2> SUFFICES ASSUME Safe, client.at = "idle", ~NoBody(reply), ~unframed
               PROVE  client.got = reply.body \/ (failed /\ w.chunked)
    BY DEF CompleteIsWhole
  <2>1. Expected(client, wire, Answer)
    BY DEF Safe, InStep
  <2>2. /\ Answer.bare = NoBody(reply) /\ Answer.body = reply.body /\ Answer.chunked = w.chunked
        /\ Answer.copied = copied /\ Answer.whole = (copied = reply.body \/ failed)
    BY DEF Answer
  <2>3. \/ client.got = Answer.body
        \/ client.got = Answer.copied /\ Answer.whole /\ Answer.chunked
    BY <2>1, <2>2 DEF Expected, Waiting, Bare, Sized, Streamed, Tunnelled
  <2> QED
    BY <2>2, <2>3, Zenon
<1> QED
  BY <1>1, Safety, PTL

-----------------------------------------------------------------------------
INSTANCE FiniteSetTheorems

\* The CORS headers start empty.
LEMMA InitDecided == Init => Decided
BY OwnDecision DEF Init, Decided

\* serveHTTP, ModifyResponse and reconcilePublicCORS: a browser gets at most
\* one Allow-Origin, and credentials with an echo of its origin only.
THEOREM OneDecision == Spec => []OneCorsDecision
<1>1. Decided => OneCorsDecision
  <2> SUFFICES ASSUME Decided PROVE Cardinality(cors.origin) <= 1
    BY DEF Decided, Decision, OneCorsDecision
  <2>1. Cardinality({}) = 0
    BY FS_EmptySet
  <2>2. Cardinality({"echo"}) = 1 /\ Cardinality({"*"}) = 1
    BY FS_Singleton
  <2> QED
    BY <2>1, <2>2 DEF Decided, Decision
<1> QED
  BY <1>1, InitTypes, NextTypes, InitWriter, NextWriter, InitDecided, NextDecided, PTL DEF Spec

=============================================================================
