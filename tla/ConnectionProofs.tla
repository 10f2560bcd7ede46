-------------------------- MODULE ConnectionProofs --------------------------
(***************************************************************************)
(* One connection under handleConn: who serves it and what they are given, *)
(* for any hello, any routes and any buffer (Dispatch), then the splice,   *)
(* for any number of units and any window (Splice).                        *)
(***************************************************************************)
EXTENDS Dispatch, Splice, TLAPS

Reading ==
  /\ hello \in Hellos /\ route \in Routes \cup {NoRoute}
  /\ arrived \in Nat /\ n \in Nat /\ pre \in 0 .. n
  /\ pc = "reading" => choice = "none" /\ n <= BufferSize
  /\ choice # "none" => choice = Choice
  /\ WholeHelloDecides

\* A connection that was just accepted has no choice and no bytes.
LEMMA InitReading == Init => Reading
BY BufferAssumption DEF Init, Reading, WholeHelloDecides

\* The hello loop chooses once, on a whole hello; nothing after it changes
\* the hello, the route or the choice.
LEMMA NextReading == Reading /\ [Next]_vars => Reading'
<1> SUFFICES ASSUME Reading, [Next]_vars PROVE Reading'
  OBVIOUS
<1> USE BufferAssumption, HellosAssumption DEF Reading, WholeHelloDecides, case
<1>1. UNCHANGED case => Choice' = Choice
  BY DEF Choice, HasALPN, IsDirect, IsACMEChallengeOnly, IsAlias
<1>2. CASE UNCHANGED vars
  BY <1>1, <1>2 DEF vars
<1>3. CASE ClientSends
  BY <1>1, <1>3 DEF ClientSends
<1>4. CASE ReadHello
  <2>1. /\ n' \in Nat /\ n' <= BufferSize /\ pre' \in 0 .. n' /\ pc = "reading" /\ choice = "none"
        /\ UNCHANGED <<hello, route, terminator, tunnels, arrived>>
    BY <1>4 DEF ReadHello
  <2>2. CASE ParseClientHello(n') = "ok" /\ choice' = Choice /\ pc' = "chosen"
    <3>1. hello.form = "ok" /\ n' >= hello.len
      BY <2>1, <2>2 DEF ParseClientHello, Whole
    <3> QED
      BY <1>1, <2>1, <2>2, <3>1
  <2>3. CASE UNCHANGED choice /\ (pc' = "reading" \/ pc' = "closed")
    BY <1>1, <2>1, <2>3
  <2> QED
    BY <1>4, <2>1, <2>2, <2>3 DEF ReadHello
<1>5. CASE ReadFails \/ HandOver \/ PrefixRead \/ Refuse \/ Dial \/ WriteHeader \/ Replay
  <2>1. UNCHANGED <<case, arrived, n, choice>> /\ pc' # "reading"
    BY <1>5 DEF ReadFails, HandOver, PrefixRead, Refuse, Dial, WriteHeader, Replay
  <2>2. pre' \in 0 .. n
    BY <1>5 DEF ReadFails, HandOver, PrefixRead, Refuse, Dial, WriteHeader, Replay
  <2> QED
    BY <1>1, <2>1, <2>2
<1>6. CASE ReadOn
  <2>1. UNCHANGED <<case, arrived, pc, choice, pre>> /\ n' = n + 1 /\ pc # "reading"
    BY <1>6 DEF ReadOn
  <2> QED
    BY <1>1, <2>1
<1> QED
  BY <1>2, <1>3, <1>4, <1>5, <1>6 DEF Next

\* handleConn: no part of a hello decides, and neither does one the buffer
\* cannot hold.
THEOREM WholeHello == Spec => []WholeHelloDecides
<1>1. Reading => WholeHelloDecides
  BY DEF Reading
<1> QED
  BY <1>1, InitReading, NextReading, PTL DEF Spec

-----------------------------------------------------------------------------
(* What a splice sends first.                                              *)

Given ==
  /\ got \in Seq(Nat)
  /\ pc \in {"reading", "chosen", "dialed"} => got = << >>
  /\ choice = "splice" /\ got # << >> /\ got[1] = 0 => WantsHeader

\* Nothing has been passed on at the start.
LEMMA InitGiven == Init => Given
BY DEF Init, Given

\* The first of two sequences decides what the whole begins with.
LEMMA ConcatHead ==
  ASSUME NEW s \in Seq(Nat), NEW t \in Seq(Nat), s \o t # << >>
  PROVE  (s \o t)[1] = IF s = << >> THEN t[1] ELSE s[1]
OBVIOUS

\* Only WriteHeader can put a PROXY header first, and only when the route
\* wants one.
LEMMA NextGiven == Reading /\ Given /\ [Next]_vars => Given'
<1> SUFFICES ASSUME Reading, Given, [Next]_vars PROVE Given'
  OBVIOUS
<1>1. UNCHANGED case => WantsHeader' = WantsHeader
  BY DEF WantsHeader, IsDirect, IsACMEChallengeOnly, case
<1>2. CASE UNCHANGED vars
  BY <1>1, <1>2 DEF vars, Given
<1>3. CASE ClientSends \/ ReadHello \/ ReadFails \/ HandOver \/ Refuse \/ Dial
  <2>1. UNCHANGED <<case, got>>
    BY <1>3 DEF ClientSends, ReadHello, ReadFails, HandOver, Refuse, Dial
  <2>2. pc' \in {"reading", "chosen", "dialed"} => pc \in {"reading", "chosen", "dialed"}
    BY <1>3 DEF ClientSends, ReadHello, ReadFails, HandOver, Refuse, Dial
  <2>3. UNCHANGED choice \/ got = << >>
    BY <1>3 DEF ClientSends, ReadHello, ReadFails, HandOver, Refuse, Dial, Given
  <2> QED
    BY <1>1, <2>1, <2>2, <2>3 DEF Given
<1>4. CASE PrefixRead
  <2>1. PICK k \in 1 .. pre : got' = got \o [i \in 1 .. k |-> n - pre + i]
    BY <1>4 DEF PrefixRead
  <2>2. [i \in 1 .. k |-> n - pre + i] \in Seq(Nat)
    <3>1. \A i \in 1 .. k : n - pre + i \in Nat
      BY DEF Reading
    <3> QED
      BY <2>1, <3>1
  <2>3. got' \in Seq(Nat)
    BY <2>1, <2>2 DEF Given
  <2>4. pc' = "serving" /\ choice' # "splice"
    BY <1>4 DEF PrefixRead
  <2> QED
    BY <2>3, <2>4 DEF Given
<1>5. CASE WriteHeader
  <2>1. pc = "dialed" /\ pc' \in {"header", "closed"} /\ UNCHANGED <<case, choice>> /\ got = << >>
    BY <1>5 DEF WriteHeader, Given
  <2>2. CASE UNCHANGED got
    BY <1>1, <2>1, <2>2 DEF Given
  <2>3. CASE WantsHeader /\ got' = Append(got, 0)
    BY <1>1, <2>1, <2>3 DEF Given
  <2> QED
    BY <1>5, <2>2, <2>3 DEF WriteHeader
<1>6. CASE Replay
  <2>1. pc' \in {"serving", "closed"} /\ UNCHANGED <<case, choice, n>>
    BY <1>6 DEF Replay
  <2>2. CASE UNCHANGED got
    BY <1>1, <2>1, <2>2 DEF Given
  <2>3. CASE got' = got \o Buffered
    <3>1. Buffered \in Seq(Nat) /\ (Buffered # << >> => Buffered[1] = 1)
      BY DEF Buffered, Reading
    <3>2. got' \in Seq(Nat)
      BY <2>3, <3>1 DEF Given
    <3>3. got' # << >> /\ got'[1] = 0 => got # << >> /\ got[1] = 0
      BY <2>3, <3>1, ConcatHead DEF Given
    <3> QED
      BY <1>1, <2>1, <3>2, <3>3 DEF Given
  <2> QED
    BY <1>6, <2>2, <2>3 DEF Replay
<1>7. CASE ReadOn
  <2>1. /\ pc = "serving" /\ UNCHANGED <<case, pc, choice>>
        /\ got' = Append(got, n + 1) /\ n + 1 \in Nat \ {0}
    BY <1>7 DEF ReadOn, Reading
  <2>2. got' \in Seq(Nat) /\ (got'[1] = 0 => got # << >> /\ got[1] = 0)
    BY <2>1 DEF Given
  <2> QED
    BY <1>1, <2>1, <2>2 DEF Given
<1> QED
  BY <1>2, <1>3, <1>4, <1>5, <1>6, <1>7 DEF Next

\* handleConn: whatever the ALPN, an adopter hostname is never terminated, a
\* quarantined enclave gets no byte of a splice, and one behind a tunnel no
\* PROXY header.
THEOREM RespectsRoute == Spec => []RouteRespected
<1>1. Reading /\ Given => RouteRespected
  <2> SUFFICES ASSUME Reading, Given PROVE RouteRespected
    OBVIOUS
  <2>1. choice \in {"terminate", "alert", "splice"} =>
          /\ route # NoRoute
          /\ choice = "terminate" => ~route.alias /\ route.mode # "direct"
          /\ choice = "splice" => ~route.quarantined
    BY DEF Reading, Choice, IsAlias, IsDirect
  <2> QED
    BY <2>1 DEF Given, RouteRespected, WantsHeader
<1> QED
  BY <1>1, InitReading, NextReading, InitGiven, NextGiven, PTL DEF Spec


-----------------------------------------------------------------------------
(* What has been passed on, and what is still in the buffer.               *)

Passed ==
  /\ StreamIntact
  /\ pc \in {"dialed", "header"} => choice = "splice"
  /\ pc = "header" => Len(got) = HeaderLen
  /\ pc = "serving" => Len(got) = HeaderLen + (IF choice = "splice" THEN n ELSE n - pre)

\* Nothing has been passed on at the start.
LEMMA InitPassed == Init => Passed
BY DEF Init, Passed, StreamIntact, HeaderLen

\* The elements of a concatenation.
LEMMA Concatenation ==
  ASSUME NEW s \in Seq(Nat), NEW t \in Seq(Nat)
  PROVE  /\ s \o t \in Seq(Nat) /\ Len(s \o t) = Len(s) + Len(t)
         /\ \A i \in 1 .. Len(s) + Len(t) :
              (s \o t)[i] = IF i <= Len(s) THEN s[i] ELSE t[i - Len(s)]
OBVIOUS

\* Numbers put behind a stream that is intact leave it so, if they go on
\* where it ends.
LEMMA Goes ==
  ASSUME NEW s \in Seq(Nat), NEW t \in Seq(Nat), NEW h \in Nat,
         \A i \in 1 .. Len(s) : i > h => s[i] = i - h, Len(s) >= h,
         \A i \in 1 .. Len(t) : t[i] = Len(s) - h + i
  PROVE  /\ s \o t \in Seq(Nat) /\ Len(s \o t) = Len(s) + Len(t)
         /\ \A i \in 1 .. Len(s) : (s \o t)[i] = s[i]
         /\ \A i \in 1 .. Len(s) + Len(t) : i > h => (s \o t)[i] = i - h
<1>1. /\ s \o t \in Seq(Nat) /\ Len(s \o t) = Len(s) + Len(t)
      /\ \A i \in 1 .. Len(s) + Len(t) :
           (s \o t)[i] = IF i <= Len(s) THEN s[i] ELSE t[i - Len(s)]
  BY Concatenation, Zenon
<1> DEFINE a == Len(s)
           b == Len(t)
<1>2. a \in Nat /\ b \in Nat
  OBVIOUS
<1> HIDE DEF a, b
<1>3. ASSUME NEW i \in 1 .. a + b, i > h PROVE (s \o t)[i] = i - h
  <2>1. CASE i <= a
    BY <1>1, <1>2, <1>3, <2>1 DEF a, b
  <2>2. CASE i > a
    <3>1. i - a \in 1 .. b
      BY <1>2, <2>2
    <3>2. (s \o t)[i] = a - h + (i - a)
      BY <1>1, <1>2, <2>2, <3>1 DEF a, b
    <3> QED
      BY <1>2, <3>2
  <2>3. i <= a \/ i > a
    BY <1>2
  <2> QED
    BY <2>1, <2>2, <2>3, Zenon
<1>4. ASSUME NEW i \in 1 .. a PROVE (s \o t)[i] = s[i]
  BY <1>1, <1>2 DEF a, b
<1> QED
  BY <1>1, <1>3, <1>4 DEF a, b

\* What Goes says, of the stream that has been passed on.
LEMMA GoesOn ==
  ASSUME Given, StreamIntact, NEW k \in Nat, UNCHANGED choice,
         got' = got \o [i \in 1 .. k |-> Len(got) - HeaderLen + i]
  PROVE  StreamIntact' /\ HeaderLen' = HeaderLen /\ Len(got') = Len(got) + k
<1> DEFINE h == HeaderLen
           t == [i \in 1 .. k |-> Len(got) - h + i]
<1>1. /\ got \in Seq(Nat) /\ h \in {0, 1} /\ Len(got) >= h
      /\ h = 0 => got = << >> \/ got[1] # 0
      /\ h = 1 => got[1] = 0
      /\ \A i \in 1 .. Len(got) : i > h => got[i] = i - h
  <2>1. got \in Seq(Nat)
    BY DEF Given
  <2>2. Len(got) \in Nat /\ DOMAIN got = 1 .. Len(got) /\ (got # << >> => Len(got) >= 1)
    BY <2>1
  <2>3. \/ h = 0 /\ (got = << >> \/ got[1] # 0)
        \/ h = 1 /\ got # << >> /\ got[1] = 0
    BY DEF HeaderLen
  <2>4. \A i \in 1 .. Len(got) : i > h => got[i] = i - h
    BY <2>2, Zenon DEF StreamIntact
  <2> HIDE DEF h
  <2> QED
    BY <2>1, <2>2, <2>3, <2>4
<1>2. got' = got \o t
  OBVIOUS
<1> HIDE DEF h
<1>3. t \in Seq(Nat) /\ Len(t) = k /\ \A i \in 1 .. k : t[i] = Len(got) - h + i
  <2>1. \A i \in 1 .. k : Len(got) - h + i \in Nat
    BY <1>1
  <2> QED
    BY <2>1
<1> HIDE DEF t
<1>4. /\ got' \in Seq(Nat) /\ Len(got') = Len(got) + k
      /\ \A i \in 1 .. Len(got) : got'[i] = got[i]
      /\ \A i \in 1 .. Len(got) + k : i > h => got'[i] = i - h
  <2>1. h \in Nat /\ \A i \in 1 .. Len(t) : t[i] = Len(got) - h + i
    BY <1>1, <1>3
  <2>2. /\ got \o t \in Seq(Nat) /\ Len(got \o t) = Len(got) + Len(t)
        /\ \A i \in 1 .. Len(got) : (got \o t)[i] = got[i]
        /\ \A i \in 1 .. Len(got) + Len(t) : i > h => (got \o t)[i] = i - h
    BY <1>1, <1>3, <2>1, Goes, Zenon
  <2> QED
    BY <1>2, <1>3, <2>2, Zenon
<1>5. HeaderLen' = h
  <2>1. CASE h = 1
    BY <1>1, <1>4, <2>1 DEF HeaderLen
  <2>2. CASE h = 0
    <3>1. got' # << >> => got'[1] = 1
      BY <1>1, <1>4, <2>2
    <3> QED
      BY <2>2, <3>1 DEF HeaderLen
  <2> QED
    BY <1>1, <2>1, <2>2
<1>6. HeaderLen' = HeaderLen /\ Len(got') = Len(got) + k
  BY <1>4, <1>5 DEF h
<1>7. \A i \in DOMAIN got' : i > HeaderLen' => got'[i] = i - HeaderLen'
  <2>1. DOMAIN got' = 1 .. Len(got')
    BY <1>4
  <2> QED
    BY <1>4, <1>5, <2>1, Zenon
<1> QED
  BY <1>6, <1>7 DEF StreamIntact

\* Every step passes on the bytes that follow those already passed on.
LEMMA NextPassed == Reading /\ Given /\ Passed /\ [Next]_vars => Passed'
<1> SUFFICES ASSUME Reading, Given, Passed, [Next]_vars PROVE Passed'
  OBVIOUS
<1>0. /\ arrived \in Nat /\ n \in Nat /\ pre \in 0 .. n /\ got \in Seq(Nat)
      /\ HeaderLen \in {0, 1} /\ (got = << >> => HeaderLen = 0)
  BY DEF Reading, Given, HeaderLen
<1>a. UNCHANGED <<got, choice>> => StreamIntact' /\ UNCHANGED HeaderLen
  BY DEF Passed, StreamIntact, HeaderLen
<1>1. CASE UNCHANGED vars
  BY <1>1, <1>a DEF vars, Passed
<1>2. CASE ClientSends
  BY <1>2, <1>a DEF ClientSends, Passed
<1>3. CASE ReadHello
  <2>1. pc = "reading" /\ pc' \in {"reading", "chosen", "closed"} /\ UNCHANGED got /\ got = << >>
    BY <1>3 DEF ReadHello, Given
  <2> QED
    BY <2>1 DEF Passed, StreamIntact, HeaderLen
<1>4. CASE ReadFails \/ Refuse \/ Dial
  <2>1. UNCHANGED <<got, choice>> /\ pc' \in {"dialed", "closed"} /\ (pc' = "dialed" => choice = "splice")
    BY <1>4 DEF ReadFails, Refuse, Dial
  <2> QED
    BY <1>a, <2>1 DEF Passed
<1>5. CASE HandOver
  <2>1. /\ UNCHANGED <<got, choice, n>> /\ pc' = "serving" /\ pre' = n
        /\ choice # "splice" /\ got = << >>
    BY <1>5 DEF HandOver, Given
  <2> QED
    BY <1>0, <1>a, <2>1 DEF Passed
<1>6. CASE PrefixRead
  <2>1. PICK k \in 1 .. pre : /\ got' = got \o [i \in 1 .. k |-> n - pre + i]
                              /\ pre' = pre - k
    BY <1>6 DEF PrefixRead
  <2>2. pc = "serving" /\ choice # "splice" /\ UNCHANGED <<n, pc, choice>>
    BY <1>6 DEF PrefixRead
  <2>3. HeaderLen = 0 /\ Len(got) = n - pre /\ k \in Nat
    BY <1>0, <2>2 DEF Passed, StreamIntact
  <2>4. got' = got \o [i \in 1 .. k |-> Len(got) - HeaderLen + i]
    BY <1>0, <2>1, <2>3
  <2>5. StreamIntact' /\ HeaderLen' = HeaderLen /\ Len(got') = Len(got) + k
    BY <2>2, <2>3, <2>4, GoesOn DEF Passed
  <2> QED
    BY <1>0, <2>1, <2>2, <2>3, <2>5 DEF Passed
<1>7. CASE WriteHeader
  <2>1. /\ pc = "dialed" /\ pc' \in {"header", "closed"} /\ UNCHANGED choice
        /\ got = << >> /\ choice = "splice"
        /\ got' = << >> \/ got' = <<0>>
    BY <1>7 DEF WriteHeader, Given, Passed
  <2>2. StreamIntact' /\ Len(got') = HeaderLen'
    BY <2>1 DEF StreamIntact, HeaderLen
  <2> QED
    BY <2>1, <2>2 DEF Passed
<1>8. CASE Replay
  <2>1. pc = "header" /\ UNCHANGED <<choice, n>> /\ choice = "splice" /\ Len(got) = HeaderLen
    BY <1>8 DEF Replay, Passed
  <2>2. CASE pc' = "closed" /\ UNCHANGED got
    BY <1>a, <2>1, <2>2 DEF Passed
  <2>3. CASE pc' = "serving" /\ got' = got \o Buffered
    <3>1. got' = got \o [i \in 1 .. n |-> Len(got) - HeaderLen + i]
      BY <1>0, <2>1, <2>3 DEF Buffered
    <3>2. StreamIntact' /\ HeaderLen' = HeaderLen /\ Len(got') = Len(got) + n
      BY <1>0, <2>1, <3>1, GoesOn DEF Passed
    <3> QED
      BY <2>1, <2>3, <3>2 DEF Passed
  <2> QED
    BY <1>8, <2>2, <2>3 DEF Replay
<1>9. CASE ReadOn
  <2>1. /\ pc = "serving" /\ UNCHANGED <<pc, choice, pre>>
        /\ n' = n + 1 /\ got' = Append(got, n + 1) /\ (choice = "splice" \/ pre = 0)
    BY <1>9 DEF ReadOn
  <2>2. Len(got) = HeaderLen + n
    BY <1>0, <2>1 DEF Passed
  <2>3. got' = got \o [i \in 1 .. 1 |-> Len(got) - HeaderLen + i]
    BY <1>0, <2>1, <2>2
  <2>4. StreamIntact' /\ HeaderLen' = HeaderLen /\ Len(got') = Len(got) + 1
    BY <1>0, <2>1, <2>3, GoesOn DEF Passed
  <2> QED
    BY <1>0, <2>1, <2>2, <2>4 DEF Passed
<1> QED
  BY <1>1, <1>2, <1>3, <1>4, <1>5, <1>6, <1>7, <1>8, <1>9 DEF Next

\* handleConn, prefixConn and the splice: whatever the segments and the size
\* of the buffer, what is given the connection gets the client's bytes from
\* the first on, once and in order, behind at most one PROXY header.
THEOREM BytesIntact == Spec => []StreamIntact
<1>1. Passed => StreamIntact
  BY DEF Passed
<1> QED
  BY <1>1, InitReading, NextReading, InitGiven, NextGiven, InitPassed, NextPassed, PTL DEF Spec

-----------------------------------------------------------------------------
(* Where the units of a direction are.                                     *)

Counters ==
  /\ sent \in [Directions -> Nat] /\ copied \in [Directions -> Nat]
  /\ held \in [Directions -> Nat]
  /\ written \in [Directions -> Nat] /\ consumed \in [Directions -> Nat]

Units(d) ==
  /\ copied[d] = written[d] + held[d]
  /\ consumed[d] <= written[d]
  /\ copied[d] <= sent[d] /\ sent[d] <= MaxSent
  /\ loop[d] = "read" => held[d] = 0

Counting == Counters /\ (loop \in [Directions -> {"read", "write", "ended", "done"}])
                     /\ \A d \in Directions : Units(d)

\* Every unit copied is written or held, and no step loses count.
LEMMA NextCounting == Counting /\ [SpliceNext]_spliceVars => Counting'
<1> SUFFICES ASSUME Counting, [SpliceNext]_spliceVars PROVE Counting'
  OBVIOUS
<1> USE SpliceAssumption DEF Counting, Counters, Units, peerVars, loopVars
<1>1. CASE UNCHANGED spliceVars
  BY <1>1 DEF spliceVars
<1>2. CASE CutSplice \/ Return
  BY <1>2 DEF CutSplice, Return
<1>3. ASSUME NEW d \in Directions, Send(d) PROVE Counting'
  BY <1>3 DEF Send
<1>4. ASSUME NEW d \in Directions, HalfClose(d) PROVE Counting'
  BY <1>4 DEF HalfClose
<1>5. ASSUME NEW d \in Directions, Consume(d) PROVE Counting'
  BY <1>5 DEF Consume
<1>6. ASSUME NEW d \in Directions, IdlePasses(d) PROVE Counting'
  BY <1>6 DEF IdlePasses
<1>7. ASSUME NEW d \in Directions, Read(d) PROVE Counting'
  BY <1>7 DEF Read
<1>8. ASSUME NEW d \in Directions, ReadEnds(d) PROVE Counting'
  BY <1>8 DEF ReadEnds, Break
<1>9. ASSUME NEW d \in Directions, Write(d) PROVE Counting'
  BY <1>9 DEF Write
<1>10. ASSUME NEW d \in Directions, WriteEnds(d) PROVE Counting'
  BY <1>10 DEF WriteEnds, Break, Flushed
<1>11. ASSUME NEW d \in Directions, CloseWrite(d) PROVE Counting'
  BY <1>11 DEF CloseWrite
<1> QED
  BY <1>1, <1>2, <1>3, <1>4, <1>5, <1>6, <1>7, <1>8, <1>9, <1>10, <1>11 DEF SpliceNext, Copy

-----------------------------------------------------------------------------
(* What the end of a loop means.                                           *)

Flags ==
  /\ fin \in [Directions -> BOOLEAN] /\ eof \in [Directions -> BOOLEAN]
  /\ finOut \in [Directions -> BOOLEAN] /\ quiet \in [Directions -> BOOLEAN]
  /\ loop \in [Directions -> {"read", "write", "ended", "done"}]
  /\ why \in [Directions -> {"", "eof", "idle", "error"}]
  /\ tunnelled \in BOOLEAN /\ cut \in BOOLEAN /\ returned \in BOOLEAN

Ends(d) ==
  /\ eof[d] => fin[d] /\ copied[d] = sent[d]
  /\ loop[d] = "read" => held[d] = 0 /\ ~eof[d]
  /\ loop[d] \in {"read", "write"} <=> why[d] = ""
  /\ why[d] = "eof" => held[d] = 0 /\ fin[d] /\ copied[d] = sent[d]
  /\ loop[d] = "done" => finOut[d] \/ cut \/ returned

Inv == Counting /\ Flags /\ \A d \in Directions : Ends(d)

\* Both loops start at a read with nothing in hand.
LEMMA InitInv == SpliceInit => Inv
<1> SUFFICES ASSUME SpliceInit PROVE Inv
  OBVIOUS
<1>1. Counting
  <2>1. Counters /\ loop \in [Directions -> {"read", "write", "ended", "done"}]
    BY DEF SpliceInit, Counters
  <2>2. \A d \in Directions : /\ sent[d] = 0 /\ copied[d] = 0 /\ held[d] = 0
                               /\ written[d] = 0 /\ consumed[d] = 0
    BY DEF SpliceInit
  <2>3. ASSUME NEW d \in Directions PROVE Units(d)
    BY <2>2, SpliceAssumption DEF Units
  <2> QED
    BY <2>1, <2>3 DEF Counting
<1>2. Flags
  BY DEF SpliceInit, Flags
<1>3. \A d \in Directions : Ends(d)
  BY DEF SpliceInit, Ends
<1> QED
  BY <1>1, <1>2, <1>3 DEF Inv

\* The flags of both directions keep their types.
LEMMA NextFlags == Flags /\ [SpliceNext]_spliceVars => Flags'
<1> SUFFICES ASSUME Flags, [SpliceNext]_spliceVars PROVE Flags'
  OBVIOUS
<1> USE DEF Flags, peerVars, loopVars
<1>1. CASE UNCHANGED spliceVars
  BY <1>1 DEF spliceVars
<1>2. CASE CutSplice \/ Return
  BY <1>2 DEF CutSplice, Return
<1>3. ASSUME NEW d \in Directions, Send(d) PROVE Flags'
  BY <1>3 DEF Send
<1>4. ASSUME NEW d \in Directions, HalfClose(d) PROVE Flags'
  BY <1>4 DEF HalfClose
<1>5. ASSUME NEW d \in Directions, Consume(d) PROVE Flags'
  BY <1>5 DEF Consume
<1>6. ASSUME NEW d \in Directions, IdlePasses(d) PROVE Flags'
  BY <1>6 DEF IdlePasses
<1>7. ASSUME NEW d \in Directions, Read(d) PROVE Flags'
  BY <1>7 DEF Read
<1>8. ASSUME NEW d \in Directions, ReadEnds(d) PROVE Flags'
  BY <1>8 DEF ReadEnds, Break
<1>9. ASSUME NEW d \in Directions, Write(d) PROVE Flags'
  BY <1>9 DEF Write
<1>10. ASSUME NEW d \in Directions, WriteEnds(d) PROVE Flags'
  BY <1>10 DEF WriteEnds, Break, Flushed
<1>11. ASSUME NEW d \in Directions, CloseWrite(d) PROVE Flags'
  BY <1>11 DEF CloseWrite
<1> QED
  BY <1>1, <1>2, <1>3, <1>4, <1>5, <1>6, <1>7, <1>8, <1>9, <1>10, <1>11 DEF SpliceNext, Copy

\* The ends, for a direction x while direction d takes a step.
LEMMA NextEnds == Inv /\ [SpliceNext]_spliceVars => \A x \in Directions : Ends(x)'
<1> SUFFICES ASSUME Counters, Flags, [SpliceNext]_spliceVars, NEW x \in Directions, Ends(x) PROVE Ends(x)'
  BY DEF Inv, Counting
<1> USE DEF Counters, Flags, Ends, SocketsClosed, peerVars, loopVars
<1>1. CASE UNCHANGED spliceVars
  BY <1>1 DEF spliceVars
<1>2. CASE CutSplice \/ Return
  BY <1>2 DEF CutSplice, Return
<1>3. ASSUME NEW d \in Directions, Send(d) PROVE Ends(x)'
  BY <1>3 DEF Send
<1>4. ASSUME NEW d \in Directions, HalfClose(d) PROVE Ends(x)'
  BY <1>4 DEF HalfClose
<1>5. ASSUME NEW d \in Directions, Consume(d) PROVE Ends(x)'
  BY <1>5 DEF Consume
<1>6. ASSUME NEW d \in Directions, IdlePasses(d) PROVE Ends(x)'
  BY <1>6 DEF IdlePasses
<1>7. ASSUME NEW d \in Directions, Read(d) PROVE Ends(x)'
  BY <1>7 DEF Read
<1>8. ASSUME NEW d \in Directions, ReadEnds(d) PROVE Ends(x)'
  <2>1. CASE x = d
    BY <1>8, <2>1 DEF ReadEnds, Break
  <2>2. CASE x # d
    BY <1>8, <2>2 DEF ReadEnds, Break
  <2> QED
    BY <2>1, <2>2
<1>9. ASSUME NEW d \in Directions, Write(d) PROVE Ends(x)'
  BY <1>9 DEF Write
<1>10. ASSUME NEW d \in Directions, WriteEnds(d) PROVE Ends(x)'
  <2>1. CASE x = d
    BY <1>10, <2>1 DEF WriteEnds, Break, Flushed
  <2>2. CASE x # d
    BY <1>10, <2>2 DEF WriteEnds, Break
  <2> QED
    BY <2>1, <2>2
<1>11. ASSUME NEW d \in Directions, CloseWrite(d) PROVE Ends(x)'
  BY <1>11 DEF CloseWrite
<1> QED
  BY <1>1, <1>2, <1>3, <1>4, <1>5, <1>6, <1>7, <1>8, <1>9, <1>10, <1>11 DEF SpliceNext, Copy

\* Counts, flags and the meaning of an ended loop hold together.
LEMMA InvHolds == SpliceSpec => []Inv
<1>1. Inv /\ [SpliceNext]_spliceVars => Inv'
  BY NextCounting, NextFlags, NextEnds DEF Inv
<1> QED
  BY <1>1, InitInv, PTL DEF SpliceSpec

\* copyWithIdleTimeout: whatever the chunks, a FIN for a source that ended
\* follows all its units, also when the end came together with data.
THEOREM FinFollows == SpliceSpec => [](SpliceTypeOK /\ FinFollowsAllData)
<1>1. Inv => SpliceTypeOK /\ FinFollowsAllData
  <2> SUFFICES ASSUME Inv PROVE SpliceTypeOK /\ FinFollowsAllData
    OBVIOUS
  <2>1. \A d \in Directions : {sent[d], copied[d], held[d], written[d], consumed[d]} \subseteq 0 .. MaxSent
    BY SpliceAssumption DEF Inv, Counting, Counters, Units
  <2>2. SpliceTypeOK
    BY <2>1 DEF Inv, Flags, SpliceTypeOK
  <2>3. ASSUME NEW d \in Directions, why[d] = "eof" PROVE written[d] = sent[d]
    <3>1. held[d] = 0 /\ copied[d] = sent[d]
      BY <2>3 DEF Inv, Ends
    <3>2. written[d] \in Nat /\ copied[d] = written[d] + held[d]
      BY DEF Inv, Counting, Counters, Units
    <3> QED
      BY <3>1, <3>2
  <2> QED
    BY <2>2, <2>3 DEF FinFollowsAllData
<1> QED
  BY <1>1, InvHolds, PTL

\* splice: it writes what it read, in order and once, and without a cut it
\* returns only after both directions ended and passed on their end.
THEOREM HalfCloseKeeps == SpliceSpec => HalfCloseKeepsOther
<1> DEFINE Step == \A d \in Directions :
             /\ written'[d] - written[d] \in {0, 1} /\ written'[d] <= copied[d]
             /\ returned' /\ ~returned /\ ~cut => finOut[d] /\ why[d] # ""
<1>1. Inv /\ [SpliceNext]_spliceVars => [Step]_spliceVars
  <2> SUFFICES ASSUME Inv, SpliceNext, NEW x \in Directions
               PROVE  /\ written'[x] - written[x] \in {0, 1} /\ written'[x] <= copied[x]
                      /\ returned' /\ ~returned /\ ~cut => finOut[x] /\ why[x] # ""
    OBVIOUS
  <2>0. Counters /\ Units(x) /\ Flags /\ Ends(x)
    BY DEF Inv, Counting
  <2>a. UNCHANGED written => written'[x] - written[x] \in {0, 1} /\ written'[x] <= copied[x]
    <3>1. written[x] \in Nat /\ written[x] <= copied[x]
      BY <2>0 DEF Counters, Units
    <3>2. written[x] - written[x] = 0
      BY <3>1
    <3> QED
      BY <3>1, <3>2
  <2> USE <2>0 DEF Counters, Units, peerVars, loopVars
  <2>1. CASE Return
    <3>1. ~cut => finOut[x] /\ why[x] # ""
      BY <2>1 DEF Return, AllDone, Flags, Ends
    <3>2. UNCHANGED written
      BY <2>1 DEF Return
    <3> QED
      BY <2>a, <3>1, <3>2
  <2>2. ASSUME NEW d \in Directions, Write(d)
        PROVE  UNCHANGED returned /\ written'[x] - written[x] \in {0, 1} /\ written'[x] <= copied[x]
    BY <2>2 DEF Write
  <2>3. CASE UNCHANGED <<written, returned>>
    BY <2>a, <2>3
  <2> QED
    BY <2>1, <2>2, <2>3 DEF SpliceNext, Copy, CutSplice, Send, HalfClose, Consume, IdlePasses, Read,
                            ReadEnds, WriteEnds, CloseWrite
<1> QED
  BY <1>1, InvHolds, PTL DEF SpliceSpec, HalfCloseKeepsOther

=============================================================================
