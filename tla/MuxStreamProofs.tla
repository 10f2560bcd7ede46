-------------------------- MODULE MuxStreamProofs --------------------------
(***************************************************************************)
(* Proofs about MuxStream, for any number of streams and keys, any frame   *)
(* sizes and any bounds.                                                   *)
(*                                                                         *)
(* Each property is strengthened on its own, and each strengthening is     *)
(* about pieces of state that few actions touch.  What every action does   *)
(* to them is stated once, per group of variables:                         *)
(*   Reachable   a registered, unfinished stream is in the map or in the   *)
(*               hands of who will finish it, from register on and not     *)
(*               only while it relays;                                     *)
(*   Cuttable    a tracked, unfinished stream stays with the tracker until *)
(*               a cut has it;                                             *)
(*   Counted     the counter is the bytes in the channel and in the pump's *)
(*               hand, less a frame readLoop has sent and not yet counted; *)
(*   Held        what the enclave will hold when it has read the frames in *)
(*               flight, and which stream answers for it.  It needs that a *)
(*               key is opened once, and never closed before it is opened  *)
(*               by anything but a cut.                                    *)
(***************************************************************************)
EXTENDS MuxStream, TLAPS

\* The map holds streams, and so does readLoop whenever it is not reading.
LoopType ==
  /\ streams \in [Keys -> Streams \cup {None}]
  /\ toGateway \in Seq(Frames)
  /\ rl \in [at : LoopPlaces, st : Streams \cup {None}, why : Codes, n : Nat]
  /\ rl.at # "read" => rl.st \in Streams
  /\ rl.at \in {"unregister", "finish"} => rl.why # "open"

\* The handler has registered its stream and not yet returned.
Registering(s) == pc[s] \in {"registered", "tracked", "opening", "relaying", "sendClose"}

Reachable ==
  /\ pc \in [Streams -> HandlerPcs] /\ code \in [Streams -> Codes]
  /\ killing # {} => killer = "finishing"
  /\ \A s \in Streams :
       Registering(s) /\ code[s] = "open" =>
         \/ streams[KeyOf[s]] = s
         \/ s \in killing
         \/ rl.at = "finish" /\ rl.st = s

Cuttable ==
  /\ pc \in [Streams -> HandlerPcs] /\ code \in [Streams -> Codes]
  /\ cutter \in [Streams -> {"none", "write", "finish", "done"}]
  /\ state \in {"active", "quarantined"}
  /\ hook => state = "quarantined"
  /\ \A s \in Streams :
       pc[s] \in {"tracked", "opening", "relaying", "sendClose"} /\ code[s] = "open"
         => s \in tracked \/ cutter[s] \in {"write", "finish"}
  /\ QuarantineCutsStreams

\* The frame readLoop has sent and not yet counted, and the pump's.
Uncounted(s) == IF rl.at = "add" /\ rl.st = s THEN rl.n ELSE 0
InHand(s) == IF hand[s] = NoFrame THEN 0 ELSE hand[s]

Counted ==
  /\ outbound \in [Streams -> 0 .. MaxQueue]
  /\ held \in [Streams -> 0 .. MaxBytes] /\ queued \in [Streams -> Int]
  /\ hand \in [Streams -> Nat \cup {NoFrame}]
  /\ \A s \in Streams : queued[s] + Uncounted(s) = held[s] + InHand(s)

USE KeyOfAssumption, BoundsAssumption, NoneAssumption, SizesAssumption

-----------------------------------------------------------------------------
(* readLoop and the map are of the right type.                             *)

\* readLoop starts out reading.
LEMMA InitLoop == Init => LoopType
BY DEF Init, LoopType, Reading, Codes, LoopPlaces

\* Every action keeps them so.
LEMMA NextLoop == LoopType /\ [Next]_vars => LoopType'
<1> SUFFICES ASSUME LoopType, [Next]_vars PROVE LoopType'
  OBVIOUS
<1> USE DEF LoopType, LoopPlaces, Codes
<1>1. CASE UNCHANGED vars
  BY <1>1 DEF vars, connVars, wireVars
<1>2. ASSUME NEW s \in Streams, Handler(s) PROVE LoopType'
  <2>1. toGateway' = toGateway /\ rl' = rl
    BY <1>2 DEF Handler, Open, Register, TrackStream, Recheck, WriteOpen, BrowserData, BrowserText,
                BrowserGone, SendClose, EndHandler, Return, TryFrame, WriteFrame, connVars, wireVars
  <2>2. streams' \in [Keys -> Streams \cup {None}]
    BY <1>2 DEF Handler, Open, Register, TrackStream, Recheck, WriteOpen, BrowserData, BrowserText,
                BrowserGone, SendClose, EndHandler, Return, Unregister, connVars
  <2> QED
    BY <2>1, <2>2
<1>3. ASSUME NEW s \in Streams,
             PumpTake(s) \/ PumpWrite(s) \/ CloseBrowser(s) \/ CutWrite(s) \/ CutFinish(s)
             \/ KillFinish(s)
      PROVE  LoopType'
  BY <1>3 DEF PumpTake, PumpWrite, CloseBrowser, CutWrite, CutFinish, KillFinish, TryFrame,
              WriteFrame, connVars, wireVars
<1>4. CASE Update \/ CutHost \/ BreakWire \/ EnclaveReceive
  BY <1>4 DEF Update, CutHost, BreakWire, EnclaveReceive, connVars, wireVars
<1>11. CASE KillMark
  BY <1>11 DEF KillMark
<1>12. CASE KillSnapshot
  BY <1>12 DEF KillSnapshot, wireVars
<1>5. ASSUME NEW k \in Keys, EnclaveSend(k) PROVE LoopType'
  <2>1. Frame("DATA", k) \in Frames /\ Frame("CLOSE", k) \in Frames
    BY DEF Frame, Frames
  <2>3. \A f \in Frames : Append(toGateway, f) \in Seq(Frames)
    OBVIOUS
  <2>2. toGateway' \in Seq(Frames)
    <3>1. \E f \in {Frame("DATA", k), Frame("CLOSE", k)} : toGateway' = Append(toGateway, f)
      BY <1>5, Zenon DEF EnclaveSend
    <3> HIDE DEF LoopType
    <3> QED
      BY <2>1, <2>3, <3>1, Zenon
  <2> QED
    BY <1>5, <2>2 DEF EnclaveSend, connVars
<1>6. CASE ReadFrame
  <2>1. Head(toGateway) \in Frames /\ Tail(toGateway) \in Seq(Frames)
    BY <1>6 DEF ReadFrame
  <2>2. streams[Head(toGateway).key] \in Streams \cup {None}
    BY <2>1 DEF Frames
  <2>3. \/ rl' = rl
        \/ rl' = Reading
        \/ \E st \in Streams, n \in Nat : \/ rl' = At("enqueue", st, "open", n)
                                        \/ rl' = At("unregister", st, "enclave", 0)
    BY <1>6, <2>2 DEF ReadFrame
  <2>4. /\ rl' \in [at : LoopPlaces, st : Streams \cup {None}, why : Codes, n : Nat]
        /\ rl'.at # "read" => rl'.st \in Streams
        /\ rl'.at \in {"unregister", "finish"} => rl'.why # "open"
    BY <2>3 DEF At, Reading
  <2> QED
    BY <1>6, <2>1, <2>4 DEF ReadFrame
<1>7. CASE Enqueue
  BY <1>7 DEF Enqueue, At, TryFrame, WriteFrame, wireVars
<1>8. CASE LoopAdd \/ LoopResume
  BY <1>8 DEF LoopAdd, LoopResume, Reading, wireVars
<1>9. CASE LoopUnregister
  BY <1>9 DEF LoopUnregister, Unregister, wireVars
<1>10. CASE LoopFinish
  BY <1>10 DEF LoopFinish, wireVars
<1> QED
  BY <1>1, <1>2, <1>3, <1>4, <1>5, <1>6, <1>7, <1>8, <1>9, <1>10, <1>11, <1>12 DEF Next, ReadLoop

-----------------------------------------------------------------------------
(* The map of streams.                                                     *)

\* No stream is registered at the start.
LEMMA InitReach == Init => Reachable
BY DEF Init, Reachable, Registering, HandlerPcs, Codes

\* kill, readLoop, register and unregister never lose a stream between them.
LEMMA NextReach == LoopType /\ Reachable /\ [Next]_vars => Reachable'
<1> SUFFICES ASSUME LoopType, Reachable, [Next]_vars PROVE Reachable'
  OBVIOUS
<1> USE DEF LoopType, Reachable, Registering, HandlerPcs, Codes
<1>1. CASE UNCHANGED vars
  BY <1>1 DEF vars, streamVars, connVars
<1>2. ASSUME NEW s \in Streams, Handler(s) PROVE Reachable'
  <2>1. CASE Open(s)
    BY <2>1 DEF Open, Goto, connVars
  <2>2. CASE Register(s)
    <3>1. CASE streams[KeyOf[s]] = None
      BY <2>2, <3>1 DEF Register, Goto
    <3>2. CASE streams[KeyOf[s]] # None
      <4>1. /\ pc' = [pc EXCEPT ![s] = "returning"]
            /\ code' = [code EXCEPT ![s] = IF @ = "open" THEN "normal" ELSE @]
            /\ UNCHANGED <<streams, killer, killing, rl>>
        BY <2>2, <3>2, Zenon DEF Register, Goto, Finish
      <4> QED
        BY <4>1
    <3> QED
      BY <3>1, <3>2
  <2>3. CASE TrackStream(s)
    BY <2>3 DEF TrackStream, Goto, connVars
  <2>4. ASSUME NEW why \in {"normal", "tryAgain"}, Return(s, why) PROVE Reachable'
    BY <2>4 DEF Return, Goto, Finish, Unregister
  <2>5. CASE Recheck(s)
    BY <2>5, <2>4 DEF Recheck, Goto, connVars
  <2>6. CASE WriteOpen(s)
    BY <2>6, <2>4 DEF WriteOpen, Goto, connVars
  <2>7. CASE BrowserData(s)
    BY <2>7, <2>4 DEF BrowserData, streamVars, connVars
  <2>8. CASE BrowserText(s)
    BY <2>8, <2>4 DEF BrowserText
  <2>9. CASE BrowserGone(s)
    BY <2>9, <2>4 DEF BrowserGone, Goto, connVars
  <2>10. CASE SendClose(s)
    BY <2>10, <2>4 DEF SendClose
  <2>11. CASE EndHandler(s)
    BY <2>11 DEF EndHandler, Goto, connVars
  <2> QED
    BY <1>2, <2>1, <2>2, <2>3, <2>5, <2>6, <2>7, <2>8, <2>9, <2>10, <2>11 DEF Handler
<1>3. ASSUME NEW s \in Streams,
             PumpTake(s) \/ PumpWrite(s) \/ CloseBrowser(s) \/ CutWrite(s) \/ CutFinish(s)
      PROVE  Reachable'
  BY <1>3 DEF PumpTake, PumpWrite, CloseBrowser, CutWrite, CutFinish, Finish, streamVars, connVars
<1>4. ASSUME NEW s \in Streams, KillFinish(s) PROVE Reachable'
  BY <1>4 DEF KillFinish, Finish
<1>5. CASE Update \/ CutHost \/ BreakWire \/ KillMark \/ EnclaveReceive
  BY <1>5 DEF Update, CutHost, BreakWire, KillMark, EnclaveReceive, streamVars, connVars
<1>6. CASE \E k \in Keys : EnclaveSend(k)
  BY <1>6 DEF EnclaveSend, streamVars, connVars
<1>7. CASE KillSnapshot
  <2>1. \A s \in Streams : streams[KeyOf[s]] = s => s \in Registered
    BY DEF Registered
  <2>2. killing = {}
    BY <1>7 DEF KillSnapshot
  <2> QED
    BY <1>7, <2>1, <2>2 DEF KillSnapshot, streamVars
<1>8. CASE LoopUnregister
  BY <1>8 DEF LoopUnregister, Unregister, streamVars
<1>9. CASE LoopFinish
  <2>1. code'[rl.st] # "open" /\ \A s \in Streams : code'[s] = "open" => code[s] = "open"
    BY <1>9 DEF LoopFinish, Finish
  <2> QED
    BY <1>9, <2>1 DEF LoopFinish, Finish
<1>10. CASE Enqueue \/ LoopAdd \/ LoopResume \/ ReadFrame
  <2>1. UNCHANGED <<pc, code, streams, killer, killing>> /\ rl.at # "finish"
    BY <1>10 DEF Enqueue, LoopAdd, LoopResume, ReadFrame, streamVars
  <2> QED
    BY <2>1
<1> QED
  BY <1>1, <1>2, <1>3, <1>4, <1>5, <1>6, <1>7, <1>8, <1>9, <1>10 DEF Next, ReadLoop

\* gwMuxConn: a stream that relays can always be found by readLoop or by who
\* ends it, for any number of streams, whoever kills the connection.
THEOREM LiveRelayHolds == Spec => []LiveRelayIsReachable
<1>1. Reachable => LiveRelayIsReachable
  BY DEF Reachable, Registering, LiveRelayIsReachable
<1> QED
  BY <1>1, InitLoop, NextLoop, InitReach, NextReach, PTL DEF Spec

-----------------------------------------------------------------------------
(* The tracker.                                                            *)

\* No stream is tracked and no cut is due at the start.
LEMMA InitCut == Init => Cuttable
BY DEF Init, Cuttable, QuarantineCutsStreams, HandlerPcs, Codes

\* Track, the second look, CutHost and the close functions leave no tracked
\* stream out.
LEMMA NextCut == LoopType /\ Cuttable /\ [Next]_vars => Cuttable'
<1> SUFFICES ASSUME LoopType, Cuttable, [Next]_vars PROVE Cuttable'
  OBVIOUS
<1> USE DEF Cuttable, QuarantineCutsStreams, HandlerPcs, Codes
<1>1. CASE UNCHANGED vars
  BY <1>1 DEF vars, streamVars, trackVars
<1>2. ASSUME NEW s \in Streams, Handler(s) PROVE Cuttable'
  <2>1. CASE Open(s)
    BY <2>1 DEF Open, Goto, trackVars
  <2>2. CASE Register(s)
    BY <2>2 DEF Register, Goto, Finish, trackVars
  <2>3. CASE TrackStream(s)
    BY <2>3 DEF TrackStream, Goto
  <2>4. ASSUME NEW why \in {"normal", "tryAgain"}, Return(s, why) PROVE Cuttable'
    BY <2>4 DEF Return, Goto, Finish
  <2>5. CASE Recheck(s)
    BY <2>5, <2>4 DEF Recheck, Quarantined, Goto, trackVars
  <2>6. CASE WriteOpen(s)
    BY <2>6, <2>4 DEF WriteOpen, Goto, trackVars
  <2>7. CASE BrowserData(s)
    BY <2>7, <2>4 DEF BrowserData, streamVars, trackVars
  <2>8. CASE BrowserText(s)
    BY <2>8, <2>4 DEF BrowserText
  <2>9. CASE BrowserGone(s)
    BY <2>9, <2>4 DEF BrowserGone, Goto, trackVars
  <2>10. CASE SendClose(s)
    BY <2>10, <2>4 DEF SendClose
  <2>11. CASE EndHandler(s)
    BY <2>11 DEF EndHandler, Goto, trackVars
  <2> QED
    BY <1>2, <2>1, <2>2, <2>3, <2>5, <2>6, <2>7, <2>8, <2>9, <2>10, <2>11 DEF Handler
<1>3. ASSUME NEW s \in Streams, PumpTake(s) \/ PumpWrite(s) \/ CloseBrowser(s) \/ KillFinish(s)
      PROVE  Cuttable'
  BY <1>3 DEF PumpTake, PumpWrite, CloseBrowser, KillFinish, Finish, trackVars
<1>4. ASSUME NEW s \in Streams, CutWrite(s) PROVE Cuttable'
  BY <1>4 DEF CutWrite, streamVars
<1>5. ASSUME NEW s \in Streams, CutFinish(s) PROVE Cuttable'
  BY <1>5 DEF CutFinish, Finish
<1>6. CASE Update
  BY <1>6, Zenon DEF Update, streamVars
<1>7. CASE CutHost
  BY <1>7 DEF CutHost, streamVars
<1>8. CASE BreakWire \/ KillMark \/ KillSnapshot \/ EnclaveReceive
  BY <1>8 DEF BreakWire, KillMark, KillSnapshot, EnclaveReceive, streamVars, trackVars
<1>9. ASSUME NEW k \in Keys, EnclaveSend(k) PROVE Cuttable'
  BY <1>9 DEF EnclaveSend, streamVars, trackVars
<1>10. CASE ReadFrame \/ Enqueue \/ LoopAdd \/ LoopUnregister \/ LoopResume
  BY <1>10 DEF ReadFrame, Enqueue, LoopAdd, LoopUnregister, LoopResume, streamVars, trackVars
<1>11. CASE LoopFinish
  BY <1>11 DEF LoopFinish, Finish, LoopType, trackVars
<1> HIDE DEF Cuttable, QuarantineCutsStreams
<1> QED
  BY <1>1, <1>2, <1>3, <1>4, <1>5, <1>6, <1>7, <1>8, <1>9, <1>10, <1>11 DEF Next, ReadLoop

\* serveSealedWSMux: the tracker protocol holds for sealed streams, any
\* number of them, once Update's hook has run.
THEOREM QuarantineCutsStreamsHolds == Spec => []QuarantineCutsStreams
<1>1. Cuttable => QuarantineCutsStreams
  BY DEF Cuttable
<1> QED
  BY <1>1, InitLoop, NextLoop, InitCut, NextCut, PTL DEF Spec

-----------------------------------------------------------------------------
(* The queue of a stream.                                                  *)

\* The queues start empty and counted as empty.
LEMMA InitCounted == Init => Counted
BY DEF Init, Counted, Uncounted, InHand, Reading, NoFrame

\* The counter and the channel part only while one of the two goroutines is
\* between its channel operation and its Add.
LEMMA NextCounted == LoopType /\ Counted /\ [Next]_vars => Counted'
<1> SUFFICES ASSUME LoopType, Counted, [Next]_vars PROVE Counted'
  OBVIOUS
<1>0. /\ rl \in [at : LoopPlaces, st : Streams \cup {None}, why : Codes, n : Nat]
      /\ rl.at # "read" => rl.st \in Streams
  BY DEF LoopType
<1>1. ASSUME UNCHANGED <<queueVars, rl>> PROVE Counted'
  BY <1>1 DEF Counted, Uncounted, InHand, queueVars
<1>2. CASE UNCHANGED vars
  BY <1>1, <1>2, Zenon DEF vars, streamVars, connVars
<1>3. ASSUME NEW s \in Streams, Handler(s) PROVE Counted'
  <2>1. UNCHANGED <<queueVars, rl>>
    BY <1>3 DEF Handler, Open, Register, TrackStream, Recheck, WriteOpen, BrowserData, BrowserText,
                BrowserGone, SendClose, EndHandler, Return, streamVars, connVars
  <2> QED
    BY <1>1, <2>1, Zenon
<1>6. ASSUME NEW s \in Streams, CloseBrowser(s) \/ CutWrite(s) \/ CutFinish(s) \/ KillFinish(s)
      PROVE  Counted'
  BY <1>1, <1>6, Zenon DEF CloseBrowser, CutWrite, CutFinish, KillFinish, streamVars, connVars
<1>7. CASE Update \/ CutHost \/ BreakWire \/ KillMark \/ KillSnapshot \/ EnclaveReceive
  <2>1. UNCHANGED <<queueVars, rl>>
    BY <1>7 DEF Update, CutHost, BreakWire, KillMark, KillSnapshot, EnclaveReceive, streamVars, connVars
  <2> QED
    BY <1>1, <2>1, Zenon
<1>8. ASSUME NEW k \in Keys, EnclaveSend(k) PROVE Counted'
  BY <1>1, <1>8, Zenon DEF EnclaveSend, streamVars, connVars
<1> USE <1>0 DEF Counted, Uncounted, InHand, NoFrame
<1>12. \A s \in Streams : /\ queued[s] \in Int /\ held[s] \in Nat
                          /\ InHand(s) \in Nat /\ Uncounted(s) \in Nat
                          /\ queued[s] + Uncounted(s) = held[s] + InHand(s)
  OBVIOUS
<1>4. ASSUME NEW s \in Streams, PumpTake(s) PROVE Counted'
  <2>1. PICK n \in 0 .. held[s] : /\ held' = [held EXCEPT ![s] = @ - n]
                                 /\ hand' = [hand EXCEPT ![s] = n]
    BY <1>4, Zenon DEF PumpTake
  <2>2. /\ outbound' = [outbound EXCEPT ![s] = @ - 1] /\ outbound[s] > 0
        /\ hand[s] = NoFrame /\ queued' = queued /\ rl' = rl
    BY <1>4 DEF PumpTake, connVars
  <2>3. held[s] \in 0 .. MaxBytes /\ n \in Nat /\ held[s] - n \in 0 .. MaxBytes
    OBVIOUS
  <2>4. outbound[s] - 1 \in 0 .. MaxQueue
    BY <2>2
  <2>5. outbound' \in [Streams -> 0 .. MaxQueue] /\ held' \in [Streams -> 0 .. MaxBytes]
    BY <2>1, <2>2, <2>3, <2>4
  <2>6. hand' \in [Streams -> Nat \cup {NoFrame}]
    BY <2>1, <2>3
  <2>7. ASSUME NEW t \in Streams PROVE (queued[t] + Uncounted(t) = held[t] + InHand(t))'
    <3>1. queued'[t] = queued[t] /\ Uncounted(t)' = Uncounted(t)
      BY <2>2
    <3>2. IF t = s THEN held'[t] = held[t] - n /\ InHand(t)' = n /\ InHand(t) = 0
                   ELSE held'[t] = held[t] /\ InHand(t)' = InHand(t)
      BY <2>1, <2>2, <2>3
    <3> HIDE DEF Counted, Uncounted, InHand, NoFrame
    <3> QED
      BY <1>12, <2>3, <3>1, <3>2
  <2> QED
    BY <2>2, <2>5, <2>6, <2>7, Zenon
<1>5. ASSUME NEW s \in Streams, PumpWrite(s) PROVE Counted'
  <2>1. /\ hand[s] \in Nat /\ queued' = [queued EXCEPT ![s] = @ - hand[s]]
        /\ hand' = [hand EXCEPT ![s] = NoFrame]
        /\ UNCHANGED <<outbound, held, rl>>
    BY <1>5 DEF PumpWrite, connVars
  <2>2. queued' \in [Streams -> Int] /\ hand' \in [Streams -> Nat \cup {NoFrame}]
    BY <2>1
  <2>3. ASSUME NEW t \in Streams PROVE (queued[t] + Uncounted(t) = held[t] + InHand(t))'
    <3>1. held'[t] = held[t] /\ Uncounted(t)' = Uncounted(t)
      BY <2>1
    <3>2. IF t = s THEN queued'[t] = queued[t] - InHand(t) /\ InHand(t)' = 0
                   ELSE queued'[t] = queued[t] /\ InHand(t)' = InHand(t)
      BY <2>1
    <3> HIDE DEF Counted, Uncounted, InHand, NoFrame
    <3>3. CASE t = s
      BY <1>12, <3>1, <3>2, <3>3
    <3>4. CASE t # s
      BY <1>12, <3>1, <3>2, <3>4
    <3> QED
      BY <3>3, <3>4
  <2> QED
    BY <2>1, <2>2, <2>3
<1>9. CASE ReadFrame \/ LoopUnregister \/ LoopFinish \/ LoopResume
  <2>1. UNCHANGED queueVars /\ rl.at # "add" /\ rl'.at # "add"
    BY <1>9 DEF ReadFrame, LoopUnregister, LoopFinish, LoopResume, At, Reading, streamVars
  <2> QED
    BY <2>1 DEF queueVars
<1>10. CASE Enqueue
  <2>1. CASE Fits(rl.st, rl.n)
    <3>1. /\ rl.st \in Streams /\ rl.n \in Nat /\ rl.at = "enqueue"
          /\ outbound' = [outbound EXCEPT ![rl.st] = @ + 1]
          /\ held' = [held EXCEPT ![rl.st] = @ + rl.n]
          /\ rl' = [rl EXCEPT !.at = "add"]
          /\ UNCHANGED <<queued, hand>>
      BY <1>10, <2>1 DEF Enqueue
    <3>2. held[rl.st] + rl.n <= queued[rl.st] + rl.n
      <4>1. Uncounted(rl.st) = 0
        BY <3>1
      <4> HIDE DEF Counted, Uncounted, InHand, NoFrame
      <4> QED
        BY <1>12, <3>1, <4>1
    <3>3. outbound[rl.st] + 1 \in 0 .. MaxQueue /\ held[rl.st] + rl.n \in 0 .. MaxBytes
      BY <2>1, <3>1, <3>2 DEF Fits
    <3>4. outbound' \in [Streams -> 0 .. MaxQueue] /\ held' \in [Streams -> 0 .. MaxBytes]
      BY <3>1, <3>3
    <3>5. ASSUME NEW t \in Streams PROVE (queued[t] + Uncounted(t) = held[t] + InHand(t))'
      <4>1. queued'[t] = queued[t] /\ InHand(t)' = InHand(t) /\ Uncounted(t) = 0
        BY <3>1
      <4>2. IF t = rl.st THEN held'[t] = held[t] + rl.n /\ Uncounted(t)' = rl.n
                         ELSE held'[t] = held[t] /\ Uncounted(t)' = 0
        BY <3>1
      <4> HIDE DEF Counted, Uncounted, InHand, NoFrame
      <4> QED
        BY <1>12, <3>1, <4>1, <4>2
    <3> QED
      BY <3>1, <3>4, <3>5
  <2>2. CASE ~Fits(rl.st, rl.n)
    BY <1>10, <2>2 DEF Enqueue, At
  <2> QED
    BY <2>1, <2>2
<1>11. CASE LoopAdd
  BY <1>11 DEF LoopAdd, CountFrame, Reading
<1> HIDE DEF Counted, Uncounted, InHand, NoFrame
<1> QED
  BY <1>2, <1>3, <1>4, <1>5, <1>6, <1>7, <1>8, <1>9, <1>10, <1>11 DEF Next, ReadLoop

\* readLoop and the pump: the bytes and the frames a stream holds stay within
\* the limits, for any frame sizes.
THEOREM QueueBoundedHolds == Spec => []QueueBounded
<1>1. Counted => QueueBounded
  <2> SUFFICES ASSUME Counted, NEW s \in Streams
               PROVE  held[s] <= MaxBytes /\ outbound[s] <= MaxQueue
    BY DEF QueueBounded
  <2>1. held[s] \in 0 .. MaxBytes /\ outbound[s] \in 0 .. MaxQueue
    BY DEF Counted
  <2> QED
    BY <2>1
<1> QED
  BY <1>1, InitLoop, NextLoop, InitCounted, NextCounted, PTL DEF Spec

\* readLoop closes a stream for overflow only when its browser is behind.
THEOREM OverflowMeansBehindHolds == Spec => OverflowMeansBehind
<1> DEFINE Behind ==
      rl.at = "enqueue" /\ rl'.at = "unregister" =>
        \/ held[rl.st] + (IF hand[rl.st] = NoFrame THEN 0 ELSE hand[rl.st]) + rl.n > MaxBytes
        \/ outbound[rl.st] = MaxQueue
<1>1. LoopType /\ Counted /\ [Next]_vars => [Behind]_vars
  <2> SUFFICES ASSUME LoopType, Counted, Next, rl.at = "enqueue", rl'.at = "unregister"
               PROVE  Behind
    BY DEF vars
  <2>1. ~Fits(rl.st, rl.n)
    <3>1. rl' # rl
      OBVIOUS
    <3>2. ASSUME NEW s \in Streams, Handler(s) PROVE FALSE
      BY <3>1, <3>2 DEF Handler, Open, Register, TrackStream, Recheck, WriteOpen, BrowserData,
                        BrowserText, BrowserGone, SendClose, EndHandler, Return, connVars
    <3>3. Enqueue
      BY <3>1, <3>2 DEF Next, ReadLoop, PumpTake, PumpWrite, CloseBrowser, CutWrite, CutFinish,
         KillFinish, Update, CutHost, ReadFrame, LoopAdd, LoopUnregister, LoopFinish, LoopResume,
         BreakWire, KillMark, KillSnapshot, EnclaveReceive, EnclaveSend, connVars
    <3>4. ~(rl' = [rl EXCEPT !.at = "add"])
      BY DEF LoopType
    <3> QED
      BY <3>3, <3>4 DEF Enqueue
  <2>2. queued[rl.st] = held[rl.st] + InHand(rl.st) /\ rl.st \in Streams /\ rl.n \in Nat
    BY DEF LoopType, Counted, Uncounted, InHand
  <2>3. held[rl.st] \in Nat /\ InHand(rl.st) \in Nat /\ outbound[rl.st] \in 0 .. MaxQueue
    BY <2>2 DEF Counted, InHand
  <2> QED
    BY <2>1, <2>2, <2>3 DEF Fits, InHand
<1> QED
  BY <1>1, InitLoop, NextLoop, InitCounted, NextCounted, PTL DEF Spec, OverflowMeansBehind

-----------------------------------------------------------------------------
(* What the enclave holds, when every stream has a key of its own.         *)

OwnKeys == \A s, t \in Streams : KeyOf[s] = KeyOf[t] => s = t

Has(q, f) == \E i \in 1 .. Len(q) : q[i] = f

\* When the enclave has read q it holds, or will hold, a stream for k.
Unclosed(q, e, k) ==
  \/ \E i \in 1 .. Len(q) : /\ q[i] = Frame("OPEN", k)
                            /\ \A j \in i + 1 .. Len(q) : q[j] # Frame("CLOSE", k)
  \/ k \in e /\ ~Has(q, Frame("CLOSE", k))

\* An OPEN in flight is the only one for its key, and not read yet.
Once(q, e, k) ==
  \A i \in 1 .. Len(q) : q[i] = Frame("OPEN", k) =>
    k \notin e /\ \A j \in 1 .. Len(q) : q[j] = Frame("OPEN", k) => j = i

\* The OPEN of the stream has not been written.
Unopened(s) == pc[s] \in {"new", "ready", "registered", "tracked", "opening"}

\* The stream has its relay, or ended in a way about which the handler is
\* silent, or its CLOSE comes next.
Silent == {"tryAgain", "pumpError"}
Relayed(s) ==
  (pc[s] = "relaying" /\ code[s] = "open") \/ code[s] \in Silent \/ pc[s] = "sendClose"

Shape ==
  /\ toEnclave \in Seq(Frames) /\ enclave \subseteq Keys
  /\ killer # "idle" => wire = "dead"
  /\ \A k \in Keys : streams[k] # None => KeyOf[streams[k]] = k

Held ==
  wire = "up" =>
    /\ \A s \in Streams : Unopened(s) =>
         /\ code[s] \in Silent \cup {"open"}
         /\ KeyOf[s] \notin enclave /\ ~Has(toEnclave, Frame("OPEN", KeyOf[s]))
         /\ \A f \in Frames : Has(toGateway, f) => f.key # KeyOf[s]
         /\ rl.at # "read" => rl.st # s
    /\ \A k \in Keys : Once(toEnclave, enclave, k)
    /\ \A k \in Keys : Has(toGateway, Frame("CLOSE", k)) => ~Unclosed(toEnclave, enclave, k)
    /\ rl.at \in {"unregister", "finish"} => ~Unclosed(toEnclave, enclave, KeyOf[rl.st])
    /\ \A k \in Keys : Unclosed(toEnclave, enclave, k)
                         => \E s \in Streams : KeyOf[s] = k /\ Relayed(s)

\* What a longer queue holds.
LEMMA Pushed ==
  ASSUME NEW q \in Seq(Frames), NEW f \in Frames
  PROVE  /\ Append(q, f) \in Seq(Frames) /\ Len(q) \in Nat /\ Len(Append(q, f)) = Len(q) + 1
         /\ Append(q, f)[Len(q) + 1] = f /\ \A i \in 1 .. Len(q) : Append(q, f)[i] = q[i]
         /\ \A g : Has(Append(q, f), g) <=> Has(q, g) \/ g = f
<1>1. /\ Append(q, f) \in Seq(Frames) /\ Len(q) \in Nat /\ Len(Append(q, f)) = Len(q) + 1
      /\ Append(q, f)[Len(q) + 1] = f /\ \A i \in 1 .. Len(q) : Append(q, f)[i] = q[i]
  OBVIOUS
<1>2. ASSUME NEW g PROVE Has(Append(q, f), g) <=> Has(q, g) \/ g = f
  <2> DEFINE u == Append(q, f)
  <2> HIDE DEF u
  <2>1. \A i \in 1 .. Len(u) : i \in 1 .. Len(q) \/ i = Len(q) + 1
    BY <1>1 DEF u
  <2>2. Len(q) + 1 \in 1 .. Len(u) /\ \A i \in 1 .. Len(q) : i \in 1 .. Len(u)
    BY <1>1 DEF u
  <2>3. u[Len(q) + 1] = f /\ \A i \in 1 .. Len(q) : u[i] = q[i]
    BY <1>1 DEF u
  <2> QED
    BY <2>1, <2>2, <2>3, Zenon DEF Has, u
<1> QED
  BY <1>1, <1>2

\* What is left of a queue.
LEMMA Pulled ==
  ASSUME NEW q \in Seq(Frames), q # <<>>
  PROVE  /\ Tail(q) \in Seq(Frames) /\ Len(q) \in Nat /\ Len(Tail(q)) = Len(q) - 1 /\ Len(q) > 0
         /\ Head(q) = q[1] /\ q[1] \in Frames
         /\ \A i \in 1 .. Len(q) - 1 : Tail(q)[i] = q[i + 1]
         /\ Has(q, Head(q)) /\ \A g : Has(Tail(q), g) => Has(q, g)
<1>1. /\ Tail(q) \in Seq(Frames) /\ Len(q) \in Nat /\ Len(Tail(q)) = Len(q) - 1 /\ Len(q) > 0
      /\ Head(q) = q[1] /\ q[1] \in Frames
      /\ \A i \in 1 .. Len(q) - 1 : Tail(q)[i] = q[i + 1]
  OBVIOUS
<1>2. Has(q, Head(q))
  BY <1>1 DEF Has
<1>3. ASSUME NEW g, Has(Tail(q), g) PROVE Has(q, g)
  <2>1. PICK i \in 1 .. Len(q) - 1 : Tail(q)[i] = g
    BY <1>1, <1>3 DEF Has
  <2>2. i + 1 \in 1 .. Len(q) /\ q[i + 1] = g
    BY <1>1, <2>1
  <2> QED
    BY <2>2 DEF Has
<1> QED
  BY <1>1, <1>2, <1>3

\* A frame that is no OPEN opens nothing, and a CLOSE closes.
LEMMA PushUnclosed ==
  ASSUME NEW q \in Seq(Frames), NEW f \in Frames, NEW e, NEW k,
         f # Frame("OPEN", k), Unclosed(Append(q, f), e, k)
  PROVE  Unclosed(q, e, k) /\ f # Frame("CLOSE", k)
<1> DEFINE u == Append(q, f)
<1>1. /\ Len(q) \in Nat /\ Len(u) = Len(q) + 1 /\ u[Len(q) + 1] = f
      /\ \A i \in 1 .. Len(q) : u[i] = q[i]
      /\ \A g : Has(u, g) <=> Has(q, g) \/ g = f
  BY Pushed
<1> HIDE DEF u
<1>2. CASE k \in e /\ ~Has(u, Frame("CLOSE", k))
  BY <1>1, <1>2, Zenon DEF Unclosed
<1>3. CASE \E i \in 1 .. Len(u) : /\ u[i] = Frame("OPEN", k)
                                  /\ \A j \in i + 1 .. Len(u) : u[j] # Frame("CLOSE", k)
  <2>1. PICK i \in 1 .. Len(u) : /\ u[i] = Frame("OPEN", k)
                                 /\ \A j \in i + 1 .. Len(u) : u[j] # Frame("CLOSE", k)
    BY <1>3
  <2>2. i \in 1 .. Len(q)
    BY <1>1, <2>1
  <2>3. Len(q) + 1 \in i + 1 .. Len(u) /\ \A j \in i + 1 .. Len(q) : j \in i + 1 .. Len(u)
    BY <1>1, <2>2
  <2>4. \A j \in i + 1 .. Len(q) : q[j] # Frame("CLOSE", k)
    BY <1>1, <2>1, <2>2, <2>3
  <2> QED
    BY <1>1, <2>1, <2>2, <2>3, <2>4, Zenon DEF Unclosed
<1> QED
  BY <1>2, <1>3, Zenon DEF Unclosed, u

\* It leaves an OPEN the only one.
LEMMA PushOnce ==
  ASSUME NEW q \in Seq(Frames), NEW f \in Frames, NEW e, NEW k, Once(q, e, k),
         f # Frame("OPEN", k) \/ (k \notin e /\ ~Has(q, f))
  PROVE  Once(Append(q, f), e, k)
<1> DEFINE u == Append(q, f)
<1>1. /\ Len(q) \in Nat /\ Len(u) = Len(q) + 1 /\ u[Len(q) + 1] = f
      /\ \A i \in 1 .. Len(q) : u[i] = q[i]
  BY Pushed
<1> HIDE DEF u
<1>2. \A i \in 1 .. Len(u) : i \in 1 .. Len(q) \/ i = Len(q) + 1
  BY <1>1
<1> SUFFICES ASSUME NEW i \in 1 .. Len(u), u[i] = Frame("OPEN", k)
             PROVE  k \notin e /\ \A j \in 1 .. Len(u) : u[j] = Frame("OPEN", k) => j = i
  BY DEF Once, u
<1>3. CASE f # Frame("OPEN", k)
  BY <1>1, <1>2, <1>3, Zenon DEF Once
<1>4. CASE f = Frame("OPEN", k) /\ k \notin e /\ ~Has(q, f)
  BY <1>1, <1>2, <1>4, Zenon DEF Has
<1> QED
  BY <1>3, <1>4

\* What the enclave makes of the first frame.
Received(e, f) == CASE f.type = "OPEN" -> e \cup {f.key}
                    [] f.type = "CLOSE" -> e \ {f.key}
                    [] OTHER -> e

\* Reading opens and closes nothing that was not on its way.
LEMMA PullUnclosed ==
  ASSUME NEW q \in Seq(Frames), q # <<>>, NEW e, NEW k,
         Unclosed(Tail(q), Received(e, Head(q)), k)
  PROVE  Unclosed(q, e, k)
<1> DEFINE u == Tail(q)
           d == Received(e, Head(q))
           c == Frame("CLOSE", k)
<1>1. /\ Len(q) \in Nat /\ Len(u) = Len(q) - 1 /\ Len(q) > 0 /\ Head(q) = q[1] /\ q[1] \in Frames
      /\ \A i \in 1 .. Len(q) - 1 : u[i] = q[i + 1]
  BY Pulled
<1>2. c.type = "CLOSE" /\ c.key = k
  BY DEF Frame
<1> HIDE DEF u, c
<1>3. CASE \E i \in 1 .. Len(u) : u[i] = Frame("OPEN", k) /\ \A j \in i + 1 .. Len(u) : u[j] # c
  <2>1. PICK i \in 1 .. Len(u) : u[i] = Frame("OPEN", k) /\ \A j \in i + 1 .. Len(u) : u[j] # c
    BY <1>3
  <2>2. i + 1 \in 1 .. Len(q) /\ q[i + 1] = Frame("OPEN", k)
    BY <1>1, <2>1
  <2>3. ASSUME NEW j \in (i + 1) + 1 .. Len(q) PROVE q[j] # c
    <3>1. j - 1 \in i + 1 .. Len(u) /\ j - 1 \in 1 .. Len(q) - 1 /\ (j - 1) + 1 = j
      BY <1>1, <2>1
    <3> QED
      BY <1>1, <2>1, <3>1
  <2> QED
    BY <2>2, <2>3, Zenon DEF Unclosed, c
<1>4. CASE k \in d /\ ~Has(u, c)
  <2>1. ASSUME NEW j \in 2 .. Len(q) PROVE q[j] # c
    <3>1. j - 1 \in 1 .. Len(u) /\ j - 1 \in 1 .. Len(q) - 1 /\ (j - 1) + 1 = j
      BY <1>1
    <3> QED
      BY <1>1, <1>4, <3>1 DEF Has
  <2>2. CASE q[1] = Frame("OPEN", k)
    <3>1. 1 \in 1 .. Len(q) /\ 1 + 1 = 2
      BY <1>1
    <3> QED
      BY <2>1, <2>2, <3>1, Zenon DEF Unclosed, c
  <2>3. CASE q[1] # Frame("OPEN", k)
    <3>1. k \in e /\ q[1] # c
      BY <1>1, <1>2, <1>4, <2>3 DEF Received, Frame, Frames
    <3>2. \A j \in 1 .. Len(q) : j = 1 \/ j \in 2 .. Len(q)
      BY <1>1
    <3>3. ~Has(q, c)
      BY <2>1, <3>1, <3>2, Zenon DEF Has
    <3> QED
      BY <3>1, <3>3 DEF Unclosed, c
  <2> QED
    BY <2>2, <2>3
<1> QED
  BY <1>3, <1>4, Zenon DEF Unclosed, u, c

\* And an OPEN in flight is still the only one.
LEMMA PullOnce ==
  ASSUME NEW q \in Seq(Frames), q # <<>>, NEW e, NEW k, Once(q, e, k)
  PROVE  Once(Tail(q), Received(e, Head(q)), k)
<1> DEFINE u == Tail(q)
           d == Received(e, Head(q))
<1>1. /\ Len(q) \in Nat /\ Len(u) = Len(q) - 1 /\ Len(q) > 0 /\ Head(q) = q[1] /\ q[1] \in Frames
      /\ \A i \in 1 .. Len(q) - 1 : u[i] = q[i + 1]
  BY Pulled
<1> HIDE DEF u
<1> SUFFICES ASSUME NEW i \in 1 .. Len(u), u[i] = Frame("OPEN", k)
             PROVE  k \notin d /\ \A j \in 1 .. Len(u) : u[j] = Frame("OPEN", k) => j = i
  BY DEF Once, u
<1>2. i + 1 \in 1 .. Len(q) /\ q[i + 1] = Frame("OPEN", k) /\ i + 1 # 1 /\ 1 \in 1 .. Len(q)
  BY <1>1
<1>3. k \notin e /\ q[1] # Frame("OPEN", k)
  BY <1>2, Zenon DEF Once
<1>4. k \notin d
  BY <1>1, <1>3 DEF Received, Frame, Frames
<1>5. ASSUME NEW j \in 1 .. Len(u), u[j] = Frame("OPEN", k) PROVE j = i
  <2>1. j + 1 \in 1 .. Len(q) /\ q[j + 1] = Frame("OPEN", k)
    BY <1>1, <1>5
  <2>2. j + 1 = i + 1
    BY <1>2, <2>1, Zenon DEF Once
  <2> QED
    BY <1>1, <2>2
<1> QED
  BY <1>4, <1>5

\* The frames the gateway writes.
LEMMA FrameType ==
  ASSUME NEW type \in {"OPEN", "DATA", "CLOSE"}, NEW k \in Keys
  PROVE  Frame(type, k) \in Frames /\ Frame(type, k).key = k /\ Frame(type, k).type = type
BY DEF Frame, Frames

\* What writing one does.
LEMMA Wrote ==
  ASSUME toEnclave \in Seq(Frames), NEW type \in {"OPEN", "DATA", "CLOSE"}, NEW k \in Keys,
         TryFrame(type, k) \/ WriteFrame(type, k)
  PROVE  /\ toEnclave' \in Seq(Frames) /\ UNCHANGED <<toGateway, enclave>>
         /\ wire = "up" => toEnclave' = Append(toEnclave, Frame(type, k))
<1>1. CASE toEnclave' = Append(toEnclave, Frame(type, k)) /\ UNCHANGED <<toGateway, enclave>>
  BY <1>1, FrameType
<1>2. CASE wire # "up" /\ UNCHANGED <<toEnclave, toGateway, enclave>>
  BY <1>2
<1> QED
  BY <1>1, <1>2 DEF TryFrame, WriteFrame, wireVars

\* Nothing is in flight at the start.
LEMMA InitShape == Init => Shape /\ Held
<1> SUFFICES ASSUME Init PROVE Shape /\ Held
  OBVIOUS
<1>1. /\ toEnclave = <<>> /\ toGateway = <<>> /\ enclave = {} /\ Len(<<>>) = 0
      /\ killer = "idle" /\ rl.at = "read"
      /\ \A k \in Keys : streams[k] = None
  BY DEF Init, Reading
<1>2. Shape
  BY <1>1 DEF Shape
<1>3. \A f : ~Has(<<>>, f)
  BY DEF Has
<1>4. \A k : ~Unclosed(<<>>, {}, k) /\ Once(<<>>, {}, k)
  BY DEF Unclosed, Once
<1>5. \A s \in Streams : code[s] = "open"
  BY DEF Init
<1> QED
  BY <1>1, <1>2, <1>3, <1>4, <1>5, Zenon DEF Held

\* The queues keep their type, and the map its keys.
LEMMA NextShape == LoopType /\ Shape /\ [Next]_vars => Shape'
<1> SUFFICES ASSUME LoopType, Shape, [Next]_vars PROVE Shape'
  OBVIOUS
<1>0. /\ toEnclave \in Seq(Frames) /\ enclave \subseteq Keys
      /\ streams \in [Keys -> Streams \cup {None}]
      /\ \A k \in Keys : streams[k] # None => KeyOf[streams[k]] = k
      /\ killer # "idle" => wire = "dead"
  BY DEF Shape, LoopType
<1> DEFINE Wires == toEnclave' \in Seq(Frames) /\ enclave' \subseteq Keys
           Map == \A k \in Keys : streams'[k] # None => KeyOf[streams'[k]] = k
           Kill == killer' # "idle" => wire' = "dead"
<1> SUFFICES Wires /\ Map /\ Kill
  BY DEF Shape
<1>1. CASE UNCHANGED vars
  BY <1>0, <1>1 DEF vars, connVars, wireVars
<1>2. ASSUME NEW s \in Streams, Handler(s) PROVE Wires /\ Map /\ Kill
  <2>1. KeyOf[s] \in Keys
    OBVIOUS
  <2>2. Kill
    BY <1>0, <1>2 DEF Handler, Open, Register, TrackStream, Recheck, WriteOpen, BrowserData,
       BrowserText, BrowserGone, SendClose, EndHandler, Return, connVars
  <2>3. Wires
    <3>1. \/ UNCHANGED <<toEnclave, enclave>>
          \/ \E type \in {"OPEN", "DATA", "CLOSE"} :
               TryFrame(type, KeyOf[s]) \/ WriteFrame(type, KeyOf[s])
      BY <1>2 DEF Handler, Open, Register, TrackStream, Recheck, WriteOpen, BrowserData,
         BrowserText, BrowserGone, SendClose, EndHandler, wireVars
    <3> QED
      BY <1>0, <2>1, <3>1, Wrote
  <2>4. Map
    <3>1. \/ UNCHANGED streams \/ Unregister(s)
          \/ streams' = [streams EXCEPT ![KeyOf[s]] = s]
      BY <1>2 DEF Handler, Open, Register, TrackStream, Recheck, WriteOpen, BrowserData,
         BrowserText, BrowserGone, SendClose, EndHandler, Return, connVars
    <3> QED
      BY <1>0, <2>1, <3>1 DEF Unregister
  <2> QED
    BY <2>2, <2>3, <2>4
<1>3. ASSUME NEW s \in Streams, PumpTake(s) \/ PumpWrite(s) \/ CloseBrowser(s) \/ CutFinish(s)
      PROVE  Wires /\ Map /\ Kill
  BY <1>0, <1>3 DEF PumpTake, PumpWrite, CloseBrowser, CutFinish, connVars, wireVars
<1>4. ASSUME NEW s \in Streams, CutWrite(s) PROVE Wires /\ Map /\ Kill
  <2>1. KeyOf[s] \in Keys /\ TryFrame("CLOSE", KeyOf[s]) /\ UNCHANGED <<streams, killer, wire>>
    BY <1>4 DEF CutWrite, connVars
  <2> QED
    BY <1>0, <2>1, Wrote
<1>5. ASSUME NEW s \in Streams, KillFinish(s) PROVE Wires /\ Map /\ Kill
  BY <1>0, <1>5 DEF KillFinish, wireVars
<1>6. CASE \/ Update \/ CutHost \/ BreakWire \/ LoopAdd \/ LoopFinish \/ LoopResume
  BY <1>0, <1>6 DEF Update, CutHost, BreakWire, LoopAdd, LoopFinish, LoopResume, connVars, wireVars
<1>7. CASE LoopUnregister
  <2>1. rl.st \in Streams /\ KeyOf[rl.st] \in Keys
    BY <1>7 DEF LoopUnregister, LoopType
  <2> QED
    BY <1>0, <1>7, <2>1 DEF LoopUnregister, Unregister, wireVars
<1>8. CASE KillMark
  <2>1. <<>> \in Seq(Frames)
    OBVIOUS
  <2> QED
    BY <1>0, <1>8, <2>1 DEF KillMark
<1>9. CASE KillSnapshot
  BY <1>0, <1>9 DEF KillSnapshot, wireVars
<1>10. CASE ReadFrame
  <2>1. Head(toGateway) \in Frames
    BY <1>10 DEF ReadFrame, LoopType
  <2>2. Frame("CLOSE", Head(toGateway).key) \in Frames
    BY <2>1, FrameType DEF Frames
  <2>3. \/ UNCHANGED toEnclave
        \/ toEnclave' = Append(toEnclave, Frame("CLOSE", Head(toGateway).key))
    BY <1>10 DEF ReadFrame
  <2>4. toEnclave' \in Seq(Frames)
    BY <1>0, <2>2, <2>3
  <2>5. UNCHANGED <<streams, wire, killer, enclave>>
    BY <1>10 DEF ReadFrame
  <2> QED
    BY <1>0, <2>4, <2>5
<1>11. CASE Enqueue
  <2>1. rl.st \in Streams /\ KeyOf[rl.st] \in Keys
    BY <1>11 DEF Enqueue, LoopType
  <2>2. /\ UNCHANGED <<toEnclave, enclave>> \/ TryFrame("CLOSE", KeyOf[rl.st])
        /\ UNCHANGED <<streams, killer, wire>>
    BY <1>11 DEF Enqueue, wireVars
  <2> QED
    BY <1>0, <2>1, <2>2, Wrote
<1>12. CASE EnclaveReceive
  <2>1. /\ Head(toEnclave) \in Frames /\ Tail(toEnclave) \in Seq(Frames)
        /\ toEnclave' = Tail(toEnclave) /\ enclave' = Received(enclave, Head(toEnclave))
    BY <1>0, <1>12 DEF EnclaveReceive, Received
  <2>2. enclave' \subseteq Keys
    BY <1>0, <2>1 DEF Received, Frames
  <2> QED
    BY <1>0, <1>12, <2>1, <2>2 DEF EnclaveReceive, connVars
<1>13. ASSUME NEW k \in Keys, EnclaveSend(k) PROVE Wires /\ Map /\ Kill
  BY <1>0, <1>13 DEF EnclaveSend, connVars
<1> QED
  BY <1>1, <1>2, <1>3, <1>4, <1>5, <1>6, <1>7, <1>8, <1>9, <1>10, <1>11, <1>12, <1>13
  DEF Next, ReadLoop

\* A connection that was lost stays lost.
LEMMA StaysLost == LoopType /\ [Next]_vars /\ wire' = "up" => wire = "up"
<1> SUFFICES ASSUME LoopType, [Next]_vars, wire # "up", wire' = "up" PROVE FALSE
  OBVIOUS
<1>1. ASSUME NEW s \in Streams, Handler(s) PROVE FALSE
  BY <1>1 DEF Handler, Open, Register, TrackStream, Recheck, WriteOpen, BrowserData, BrowserText,
              BrowserGone, SendClose, EndHandler, Return, connVars
<1>2. ASSUME NEW s \in Streams,
             PumpTake(s) \/ PumpWrite(s) \/ CloseBrowser(s) \/ CutWrite(s) \/ CutFinish(s)
             \/ KillFinish(s)
      PROVE  FALSE
  BY <1>2 DEF PumpTake, PumpWrite, CloseBrowser, CutWrite, CutFinish, KillFinish, connVars
<1> QED
  BY <1>1, <1>2 DEF Next, ReadLoop, Update, CutHost, ReadFrame, Enqueue, LoopAdd, LoopUnregister,
     LoopFinish, LoopResume, BreakWire, KillMark, KillSnapshot, EnclaveReceive, EnclaveSend, vars,
     connVars

\* What a step must establish, said of the values it leaves.
LEMMA HeldLater ==
  ASSUME wire' = "up" =>
    /\ \A s \in Streams : Unopened(s)' =>
         /\ code'[s] \in Silent \cup {"open"}
         /\ KeyOf[s] \notin enclave' /\ ~Has(toEnclave', Frame("OPEN", KeyOf[s]))
         /\ \A f \in Frames : Has(toGateway', f) => f.key # KeyOf[s]
         /\ rl'.at # "read" => rl'.st # s
    /\ \A k \in Keys : Once(toEnclave', enclave', k)
    /\ \A k \in Keys : Has(toGateway', Frame("CLOSE", k)) => ~Unclosed(toEnclave', enclave', k)
    /\ rl'.at \in {"unregister", "finish"} => ~Unclosed(toEnclave', enclave', KeyOf[rl'.st])
    /\ \A k \in Keys : Unclosed(toEnclave', enclave', k)
                         => \E s \in Streams : KeyOf[s] = k /\ Relayed(s)'
  PROVE  Held'
BY Zenon DEF Held, Has, Once, Unclosed

\* A step that opens nothing, takes no frame from the enclave and brings none.
LEMMA Carry ==
  ASSUME LoopType, Held, wire = "up",
         \A s \in Streams : Unopened(s)' => Unopened(s) /\ code'[s] \in Silent \cup {"open"},
         \A k \in Keys : k \in enclave' => k \in enclave \/ Has(toEnclave, Frame("OPEN", k)),
         \A k \in Keys : Has(toEnclave', Frame("OPEN", k)) => Has(toEnclave, Frame("OPEN", k)),
         \A f \in Frames : Has(toGateway', f) => Has(toGateway, f),
         rl'.at # "read" => rl.at # "read" /\ rl'.st = rl.st,
         \A k \in Keys : Once(toEnclave', enclave', k),
         \A k \in Keys : Unclosed(toEnclave', enclave', k) => Unclosed(toEnclave, enclave, k),
         \/ rl'.at \in {"unregister", "finish"} => rl.at \in {"unregister", "finish"}
         \/ ~Unclosed(toEnclave', enclave', KeyOf[rl.st]),
         \A s \in Streams : Relayed(s) /\ Unclosed(toEnclave', enclave', KeyOf[s]) => Relayed(s)'
  PROVE  Held'
<1>1. /\ \A s \in Streams : Unopened(s) =>
           /\ code[s] \in Silent \cup {"open"}
           /\ KeyOf[s] \notin enclave /\ ~Has(toEnclave, Frame("OPEN", KeyOf[s]))
           /\ \A f \in Frames : Has(toGateway, f) => f.key # KeyOf[s]
           /\ rl.at # "read" => rl.st # s
      /\ \A k \in Keys : Has(toGateway, Frame("CLOSE", k)) => ~Unclosed(toEnclave, enclave, k)
      /\ rl.at \in {"unregister", "finish"} => ~Unclosed(toEnclave, enclave, KeyOf[rl.st])
      /\ \A k \in Keys : Unclosed(toEnclave, enclave, k)
                           => \E s \in Streams : KeyOf[s] = k /\ Relayed(s)
  BY Zenon DEF Held
<1>2. \A s \in Streams : KeyOf[s] \in Keys
  OBVIOUS
<1>3. rl'.at \in {"unregister", "finish"} =>
        rl'.at # "read" /\ rl'.st = rl.st /\ KeyOf[rl.st] \in Keys
  BY <1>2 DEF LoopType
<1>4. \A s \in Streams : Unopened(s)' =>
         /\ code'[s] \in Silent \cup {"open"}
         /\ KeyOf[s] \notin enclave' /\ ~Has(toEnclave', Frame("OPEN", KeyOf[s]))
         /\ \A f \in Frames : Has(toGateway', f) => f.key # KeyOf[s]
         /\ rl'.at # "read" => rl'.st # s
  BY <1>1, <1>2, Zenon
<1>5. \A k \in Keys : Frame("CLOSE", k) \in Frames
  BY FrameType
<1>6. \A k \in Keys : Has(toGateway', Frame("CLOSE", k)) => ~Unclosed(toEnclave', enclave', k)
  BY <1>1, <1>5, Zenon
<1>7. rl'.at \in {"unregister", "finish"} => ~Unclosed(toEnclave', enclave', KeyOf[rl'.st])
  BY <1>1, <1>3, Zenon
<1>8. \A k \in Keys : Unclosed(toEnclave', enclave', k)
                        => \E s \in Streams : KeyOf[s] = k /\ Relayed(s)'
  <2> SUFFICES ASSUME NEW k \in Keys, Unclosed(toEnclave', enclave', k)
               PROVE  \E s \in Streams : KeyOf[s] = k /\ Relayed(s)'
    BY Zenon
  <2>1. PICK s \in Streams : KeyOf[s] = k /\ Relayed(s)
    BY <1>1, Zenon
  <2>2. Relayed(s)'
    <3>1. Unclosed(toEnclave', enclave', KeyOf[s])
      BY <2>1
    <3> QED
      BY <2>1, <3>1, Zenon
  <2> QED
    BY <2>1, <2>2, Zenon
<1> QED
  BY <1>4, <1>6, <1>7, <1>8, HeldLater, Zenon

\* A step that leaves what is in flight alone.
LEMMA Quiet ==
  ASSUME LoopType, Held, wire = "up", UNCHANGED <<toEnclave, enclave, toGateway>>,
         \A s \in Streams : Unopened(s)' => Unopened(s) /\ code'[s] \in Silent \cup {"open"},
         rl'.at # "read" => rl.at # "read" /\ rl'.st = rl.st,
         rl'.at \in {"unregister", "finish"} => rl.at \in {"unregister", "finish"},
         \A s \in Streams : Relayed(s) /\ Unclosed(toEnclave, enclave, KeyOf[s]) => Relayed(s)'
  PROVE  Held'
<1>1. \A k \in Keys : Once(toEnclave, enclave, k)
  BY Zenon DEF Held
<1>2. /\ \A k \in Keys : Once(toEnclave', enclave', k)
      /\ \A k \in Keys : Unclosed(toEnclave', enclave', k) => Unclosed(toEnclave, enclave, k)
      /\ \A k \in Keys : Has(toEnclave', Frame("OPEN", k)) => Has(toEnclave, Frame("OPEN", k))
      /\ \A f \in Frames : Has(toGateway', f) => Has(toGateway, f)
      /\ \A s \in Streams : Relayed(s) /\ Unclosed(toEnclave', enclave', KeyOf[s]) => Relayed(s)'
      /\ \A k \in Keys : k \in enclave' => k \in enclave
  BY <1>1
<1> QED
  BY <1>2, Carry, Zenon

\* A step that writes a frame that opens nothing, by a handler, a cut or
\* readLoop.
LEMMA Pushes ==
  ASSUME LoopType, Shape, Held, wire = "up", NEW f \in Frames, f.type # "OPEN",
         toEnclave' = Append(toEnclave, f), UNCHANGED enclave,
         \A g \in Frames : Has(toGateway', g) => Has(toGateway, g),
         \A s \in Streams : Unopened(s)' => Unopened(s) /\ code'[s] \in Silent \cup {"open"},
         rl'.at # "read" => rl.at # "read" /\ rl'.st = rl.st,
         \/ rl'.at \in {"unregister", "finish"} => rl.at \in {"unregister", "finish"}
         \/ f = Frame("CLOSE", KeyOf[rl.st]),
         \A s \in Streams : Relayed(s) /\ f # Frame("CLOSE", KeyOf[s]) => Relayed(s)'
  PROVE  Held'
<1>0. toEnclave \in Seq(Frames)
  BY DEF Shape
<1>1. \A k : f # Frame("OPEN", k)
  BY DEF Frame
<1>2. \A k \in Keys : Once(toEnclave, enclave, k)
  BY Zenon DEF Held
<1>3. \A k \in Keys : Once(toEnclave', enclave', k)
  BY <1>0, <1>1, <1>2, PushOnce
<1>4. \A k : Unclosed(toEnclave', enclave', k)
               => Unclosed(toEnclave, enclave, k) /\ f # Frame("CLOSE", k)
  BY <1>0, <1>1, PushUnclosed
<1>5. \A k \in Keys : Has(toEnclave', Frame("OPEN", k)) => Has(toEnclave, Frame("OPEN", k))
  <2>1. \A g : Has(Append(toEnclave, f), g) <=> Has(toEnclave, g) \/ g = f
    BY <1>0, Pushed, Zenon
  <2> QED
    BY <1>1, <2>1, Zenon
<1>6. /\ \A s \in Streams : Relayed(s) /\ Unclosed(toEnclave', enclave', KeyOf[s]) => Relayed(s)'
      /\ \A k \in Keys : Unclosed(toEnclave', enclave', k) => Unclosed(toEnclave, enclave, k)
      /\ \/ rl'.at \in {"unregister", "finish"} => rl.at \in {"unregister", "finish"}
         \/ ~Unclosed(toEnclave', enclave', KeyOf[rl.st])
  BY <1>4, Zenon
<1>7. \A k \in Keys : k \in enclave' => k \in enclave
  OBVIOUS
<1> QED
  BY <1>3, <1>5, <1>6, <1>7, Carry, Zenon

\* The handler returns: it keeps a reason the stream was finished with.
LEMMA Returned ==
  ASSUME Reachable, NEW s \in Streams, NEW why \in {"normal", "tryAgain"}, Return(s, why)
  PROVE  /\ UNCHANGED <<wire, rl>>
         /\ \A t \in Streams : Unopened(t)' => t # s /\ Unopened(t) /\ code'[t] = code[t]
         /\ \A t \in Streams :
              t # s \/ pc[s] = "tracked" \/ (pc[s] = "relaying" /\ code[s] # "open")
                => (Relayed(t) => Relayed(t)')
<1>1. pc \in [Streams -> HandlerPcs] /\ code \in [Streams -> Codes]
  BY DEF Reachable
<1>2. /\ pc' = [pc EXCEPT ![s] = "returning"] /\ UNCHANGED <<wire, rl>>
      /\ code' = [code EXCEPT ![s] = IF @ = "open" THEN why ELSE @]
  BY DEF Return, Goto, Finish
<1> QED
  BY <1>1, <1>2 DEF Unopened, Relayed, Silent

\* Every step keeps that, when every stream has its own key.
LEMMA NextHeld ==
  ASSUME OwnKeys
  PROVE  LoopType /\ Reachable /\ Shape /\ Held /\ [Next]_vars => Held'
<1> SUFFICES ASSUME LoopType, Reachable, Shape, Held, [Next]_vars, wire' = "up" PROVE Held'
  BY DEF Held
<1>a. wire = "up" /\ \A s \in Streams : KeyOf[s] \in Keys
  BY StaysLost
<1>b. /\ pc \in [Streams -> HandlerPcs] /\ code \in [Streams -> Codes]
      /\ toEnclave \in Seq(Frames) /\ toGateway \in Seq(Frames)
  BY DEF Reachable, Shape, LoopType
<1>c. /\ \A s \in Streams : Unopened(s) =>
           /\ code[s] \in Silent \cup {"open"}
           /\ KeyOf[s] \notin enclave /\ ~Has(toEnclave, Frame("OPEN", KeyOf[s]))
           /\ \A f \in Frames : Has(toGateway, f) => f.key # KeyOf[s]
           /\ rl.at # "read" => rl.st # s
      /\ \A k \in Keys : Once(toEnclave, enclave, k)
      /\ \A k \in Keys : Has(toGateway, Frame("CLOSE", k)) => ~Unclosed(toEnclave, enclave, k)
      /\ rl.at \in {"unregister", "finish"} => ~Unclosed(toEnclave, enclave, KeyOf[rl.st])
      /\ \A k \in Keys : Unclosed(toEnclave, enclave, k)
                           => \E s \in Streams : KeyOf[s] = k /\ Relayed(s)
  BY <1>a, Zenon DEF Held
<1>1. ASSUME UNCHANGED <<wireVars, pc, code, rl>> PROVE Held'
  BY <1>1, <1>a, <1>c, Quiet DEF wireVars, Unopened, Relayed
<1>2. CASE UNCHANGED vars \/ Update \/ CutHost
  BY <1>1, <1>2, Zenon DEF vars, Update, CutHost, streamVars, connVars
<1>3. ASSUME NEW s \in Streams, PumpTake(s) \/ CloseBrowser(s) PROVE Held'
  BY <1>1, <1>3, Zenon DEF PumpTake, CloseBrowser, connVars
<1>4. ASSUME NEW s \in Streams, NEW why \in Silent,
             UNCHANGED code \/ Finish(s, why), UNCHANGED <<wireVars, pc, rl>>
      PROVE  Held'
  <2>1. \A t \in Streams : code'[t] = code[t] \/ (code[t] = "open" /\ code'[t] \in Silent)
    BY <1>4, <1>b DEF Finish
  <2> QED
    BY <1>4, <2>1, <1>a, <1>c, Quiet DEF wireVars, Unopened, Relayed
<1>5. ASSUME NEW s \in Streams, PumpWrite(s) \/ CutFinish(s) PROVE Held'
  BY <1>4, <1>5 DEF PumpWrite, CutFinish, Silent, connVars
<1>6. ASSUME NEW s \in Streams, KillFinish(s) PROVE Held'
  BY <1>6, <1>a DEF KillFinish, Shape, Reachable
<1>7. CASE BreakWire \/ KillMark \/ KillSnapshot
  BY <1>7, <1>a DEF BreakWire, KillMark, KillSnapshot, Shape
<1>8. ASSUME NEW s \in Streams, CutWrite(s) PROVE Held'
  <2>1. TryFrame("CLOSE", KeyOf[s]) /\ UNCHANGED <<pc, code, rl>>
    BY <1>8 DEF CutWrite, streamVars, connVars
  <2>2. toEnclave' = Append(toEnclave, Frame("CLOSE", KeyOf[s])) /\ UNCHANGED <<toGateway, enclave>>
    BY <1>a, <1>b, <2>1, Wrote
  <2> QED
    BY <1>a, <1>c, <2>1, <2>2, Pushes, FrameType DEF Unopened, Relayed
<1>9. ASSUME NEW s \in Streams, Open(s) \/ TrackStream(s) \/ EndHandler(s) PROVE Held'
  <2>1. /\ UNCHANGED <<toEnclave, enclave, toGateway, code, rl>>
        /\ \/ pc[s] = "new" /\ pc' = [pc EXCEPT ![s] = "ready"]
           \/ pc[s] = "registered" /\ pc' = [pc EXCEPT ![s] = "tracked"]
           \/ pc[s] = "returning" /\ pc' = [pc EXCEPT ![s] = "ended"]
    BY <1>9 DEF Open, TrackStream, EndHandler, Goto, connVars, wireVars
  <2>2. \A t \in Streams : (Unopened(t)' => Unopened(t)) /\ (Relayed(t) => Relayed(t)')
    BY <1>b, <2>1 DEF Unopened, Relayed
  <2> QED
    BY <1>a, <1>c, <2>1, <2>2, Quiet
<1>10. ASSUME NEW s \in Streams, Register(s) PROVE Held'
  <2>1. /\ UNCHANGED <<toEnclave, enclave, toGateway, rl>> /\ pc[s] = "ready"
        /\ \/ pc' = [pc EXCEPT ![s] = "registered"] /\ UNCHANGED code
           \/ /\ pc' = [pc EXCEPT ![s] = "returning"]
              /\ code' = [code EXCEPT ![s] = IF @ = "open" THEN "normal" ELSE @]
    BY <1>10 DEF Register, Goto, Finish, wireVars
  <2>2. \A t \in Streams : /\ Unopened(t)' => Unopened(t) /\ code'[t] = code[t]
                           /\ Relayed(t) => Relayed(t)'
    BY <1>b, <2>1 DEF Unopened, Relayed, Silent
  <2> QED
    BY <1>a, <1>c, <2>1, <2>2, Quiet
<1>11. ASSUME NEW s \in Streams, Recheck(s) PROVE Held'
  <2>1. UNCHANGED <<toEnclave, enclave, toGateway>> /\ pc[s] = "tracked"
    BY <1>11 DEF Recheck, wireVars
  <2>2. CASE Return(s, "tryAgain")
    BY <1>a, <1>c, <2>1, <2>2, Returned, Quiet
  <2>3. CASE pc' = [pc EXCEPT ![s] = "opening"] /\ UNCHANGED <<code, rl>>
    <3>1. \A t \in Streams : (Unopened(t)' => Unopened(t)) /\ (Relayed(t) => Relayed(t)')
      BY <1>b, <2>1, <2>3 DEF Unopened, Relayed
    <3> QED
      BY <1>a, <1>c, <2>1, <2>3, <3>1, Quiet
  <2> QED
    BY <1>11, <2>2, <2>3 DEF Recheck, Goto, connVars
<1>12. ASSUME NEW s \in Streams, BrowserData(s) PROVE Held'
  <2>1. WriteFrame("DATA", KeyOf[s]) /\ UNCHANGED <<pc, code, rl>>
    BY <1>12, <1>a DEF BrowserData, streamVars, connVars
  <2>2. toEnclave' = Append(toEnclave, Frame("DATA", KeyOf[s])) /\ UNCHANGED <<toGateway, enclave>>
    BY <1>a, <1>b, <2>1, Wrote
  <2> QED
    BY <1>a, <1>c, <2>1, <2>2, Pushes, FrameType DEF Unopened, Relayed
<1>13. ASSUME NEW s \in Streams, BrowserText(s) \/ SendClose(s) PROVE Held'
  <2> DEFINE f == Frame("CLOSE", KeyOf[s])
  <2>1. TryFrame("CLOSE", KeyOf[s]) /\ Return(s, "normal")
    BY <1>13 DEF BrowserText, SendClose
  <2>2. toEnclave' = Append(toEnclave, f) /\ UNCHANGED <<toGateway, enclave>>
    BY <1>a, <1>b, <2>1, Wrote
  <2>3. f \in Frames /\ f.type # "OPEN" /\ f = Frame("CLOSE", KeyOf[s])
    BY <1>a, FrameType
  <2> HIDE DEF f
  <2>4. /\ UNCHANGED rl
        /\ \A t \in Streams : Unopened(t)' => Unopened(t) /\ code'[t] \in Silent \cup {"open"}
        /\ \A t \in Streams : t # s => (Relayed(t) => Relayed(t)')
    BY <1>c, <2>1, Returned
  <2>5. \A t \in Streams : Relayed(t) /\ f # Frame("CLOSE", KeyOf[t]) => Relayed(t)'
    BY <2>3, <2>4, Zenon
  <2> QED
    BY <1>a, <2>2, <2>3, <2>4, <2>5, Pushes
<1>14. ASSUME NEW s \in Streams, BrowserGone(s) PROVE Held'
  <2>1. UNCHANGED <<toEnclave, enclave, toGateway>> /\ pc[s] = "relaying"
    BY <1>14 DEF BrowserGone, wireVars
  <2>2. CASE code[s] # "open" /\ Return(s, "normal")
    BY <1>a, <1>c, <2>1, <2>2, Returned, Quiet
  <2>3. CASE pc' = [pc EXCEPT ![s] = "sendClose"] /\ UNCHANGED <<code, rl>>
    <3>1. \A t \in Streams : (Unopened(t)' => Unopened(t)) /\ (Relayed(t) => Relayed(t)')
      BY <1>b, <2>1, <2>3 DEF Unopened, Relayed
    <3> QED
      BY <1>a, <1>c, <2>1, <2>3, <3>1, Quiet
  <2> QED
    BY <1>14, <2>2, <2>3 DEF BrowserGone, Goto, connVars
<1>15. ASSUME NEW s \in Streams, WriteOpen(s) PROVE Held'
  <2> DEFINE f == Frame("OPEN", KeyOf[s])
  <2>1. /\ pc[s] = "opening" /\ WriteFrame("OPEN", KeyOf[s])
        /\ pc' = [pc EXCEPT ![s] = "relaying"] /\ UNCHANGED <<code, rl>>
    BY <1>15, <1>a DEF WriteOpen, Goto, connVars
  <2>2. toEnclave' = Append(toEnclave, f) /\ UNCHANGED <<toGateway, enclave>>
    BY <1>a, <1>b, <2>1, Wrote
  <2>3. f \in Frames /\ \A k : f = Frame("OPEN", k) => k = KeyOf[s]
    BY <1>a, FrameType DEF Frame
  <2>4. /\ Unopened(s) /\ Relayed(s)' /\ ~Unopened(s)'
        /\ \A t \in Streams : t # s => Unopened(t)' = Unopened(t)
        /\ \A t \in Streams : Relayed(t) => Relayed(t)'
    <3>1. code[s] \in Silent \cup {"open"} /\ Unopened(s)
      BY <1>c, <2>1 DEF Unopened
    <3> QED
      BY <1>b, <2>1, <3>1 DEF Unopened, Relayed
  <2>5. KeyOf[s] \notin enclave /\ ~Has(toEnclave, f)
    BY <1>c, <2>4, Zenon
  <2>6. /\ \A f2 \in Frames : Has(toGateway, f2) => f2.key # KeyOf[s]
        /\ rl.at # "read" => rl.st # s
    BY <1>c, <2>4, Zenon
  <2> HIDE DEF f
  <2>7. ASSUME NEW k \in Keys PROVE Once(toEnclave', enclave', k)
    <3>1. f # Frame("OPEN", k) \/ (k \notin enclave /\ ~Has(toEnclave, f))
      BY <2>3, <2>5
    <3> QED
      BY <1>b, <1>c, <2>2, <2>3, <3>1, PushOnce
  <2>8. \A k : k # KeyOf[s] /\ Unclosed(toEnclave', enclave', k) => Unclosed(toEnclave, enclave, k)
    BY <1>b, <2>2, <2>3, PushUnclosed
  <2>9. ASSUME NEW t \in Streams, Unopened(t)'
        PROVE  /\ code'[t] \in Silent \cup {"open"}
               /\ KeyOf[t] \notin enclave' /\ ~Has(toEnclave', Frame("OPEN", KeyOf[t]))
               /\ \A g \in Frames : Has(toGateway', g) => g.key # KeyOf[t]
               /\ rl'.at # "read" => rl'.st # t
    <3>1. t # s /\ Unopened(t)
      BY <2>4, <2>9
    <3>2. f # Frame("OPEN", KeyOf[t])
      BY <2>3, <3>1 DEF OwnKeys
    <3>3. ~Has(toEnclave', Frame("OPEN", KeyOf[t]))
      <4>1. ~Has(toEnclave, Frame("OPEN", KeyOf[t]))
        BY <1>c, <3>1, Zenon
      <4>2. \A g : Has(Append(toEnclave, f), g) <=> Has(toEnclave, g) \/ g = f
        BY <1>b, <2>3, Pushed, Zenon
      <4> QED
        BY <2>2, <3>2, <4>1, <4>2, Zenon
    <3> QED
      BY <1>c, <2>1, <2>2, <3>1, <3>3
  <2>10. ASSUME NEW k \in Keys, Has(toGateway', Frame("CLOSE", k))
         PROVE  ~Unclosed(toEnclave', enclave', k)
    <3>1. k # KeyOf[s]
      BY <2>2, <2>6, <2>10, FrameType
    <3> QED
      BY <1>c, <2>2, <2>8, <2>10, <3>1
  <2>11. rl'.at \in {"unregister", "finish"} => ~Unclosed(toEnclave', enclave', KeyOf[rl'.st])
    <3> SUFFICES ASSUME rl.at \in {"unregister", "finish"}
                 PROVE  ~Unclosed(toEnclave', enclave', KeyOf[rl.st])
      BY <2>1
    <3>1. rl.st \in Streams /\ rl.st # s
      BY <2>6 DEF LoopType
    <3>2. KeyOf[rl.st] # KeyOf[s]
      BY <3>1 DEF OwnKeys
    <3> QED
      BY <1>c, <2>8, <3>2
  <2>12. ASSUME NEW k \in Keys, Unclosed(toEnclave', enclave', k)
         PROVE  \E t \in Streams : KeyOf[t] = k /\ Relayed(t)'
    <3>1. CASE k = KeyOf[s]
      BY <2>4, <3>1
    <3>2. CASE k # KeyOf[s]
      <4>1. PICK t \in Streams : KeyOf[t] = k /\ Relayed(t)
        BY <1>c, <2>8, <2>12, <3>2, Zenon
      <4> QED
        BY <2>4, <4>1, Zenon
    <3> QED
      BY <3>1, <3>2
  <2> QED
    BY <2>7, <2>9, <2>10, <2>11, <2>12, HeldLater, Zenon
<1>16. CASE LoopAdd \/ LoopResume \/ LoopUnregister
  <2>1. UNCHANGED <<toEnclave, enclave, toGateway, pc, code>>
    BY <1>16 DEF LoopAdd, LoopResume, LoopUnregister, streamVars, wireVars
  <2>2. /\ rl'.at # "read" => rl.at # "read" /\ rl'.st = rl.st
        /\ rl'.at \in {"unregister", "finish"} => rl.at \in {"unregister", "finish"}
    BY <1>16 DEF LoopAdd, LoopResume, LoopUnregister, Reading, LoopType
  <2> QED
    BY <1>a, <1>c, <2>1, <2>2, Quiet DEF Unopened, Relayed
<1>17. CASE LoopFinish
  <2>1. /\ UNCHANGED <<toEnclave, enclave, toGateway, pc>> /\ rl.at = "finish"
        /\ rl.st \in Streams /\ rl'.st = rl.st /\ rl'.at = "wait"
        /\ code' = [code EXCEPT ![rl.st] = IF @ = "open" THEN rl.why ELSE @]
    BY <1>17 DEF LoopFinish, Finish, LoopType, wireVars
  <2>2. ~Unclosed(toEnclave, enclave, KeyOf[rl.st]) /\ ~Unopened(rl.st)
    BY <1>c, <2>1
  <2>3. \A t \in Streams : t # rl.st => code'[t] = code[t]
    BY <1>b, <2>1
  <2>4. /\ \A t \in Streams : Unopened(t)' => Unopened(t) /\ code'[t] \in Silent \cup {"open"}
        /\ \A t \in Streams : Relayed(t) /\ Unclosed(toEnclave, enclave, KeyOf[t]) => Relayed(t)'
    BY <1>c, <2>1, <2>2, <2>3 DEF Unopened, Relayed
  <2> QED
    BY <1>a, <2>1, <2>4, Quiet
<1>18. CASE Enqueue
  <2>1. UNCHANGED <<pc, code>> /\ rl.at = "enqueue" /\ rl.st \in Streams
    BY <1>18 DEF Enqueue, LoopType
  <2>2. CASE rl' = [rl EXCEPT !.at = "add"] /\ UNCHANGED wireVars
    <3>1. rl'.at = "add" /\ rl'.st = rl.st
      BY <2>2 DEF LoopType
    <3> QED
      BY <1>a, <1>c, <2>1, <2>2, <3>1, Quiet DEF Unopened, Relayed, wireVars
  <2>3. CASE TryFrame("CLOSE", KeyOf[rl.st]) /\ rl' = At("unregister", rl.st, "overflow", 0)
    <3>1. /\ toEnclave' = Append(toEnclave, Frame("CLOSE", KeyOf[rl.st]))
          /\ UNCHANGED <<toGateway, enclave>>
      BY <1>a, <1>b, <2>1, <2>3, Wrote
    <3>2. rl'.st = rl.st
      BY <2>3 DEF At
    <3> QED
      BY <1>a, <1>c, <2>1, <3>1, <3>2, Pushes, FrameType DEF Unopened, Relayed
  <2> QED
    BY <1>18, <2>2, <2>3 DEF Enqueue
<1>19. CASE ReadFrame
  <2> DEFINE f == Head(toGateway)
             st == streams[f.key]
  <2>1. /\ rl.at = "read" /\ toGateway # <<>> /\ toGateway' = Tail(toGateway)
        /\ UNCHANGED <<pc, code, enclave>>
    BY <1>19 DEF ReadFrame, streamVars
  <2>2. /\ f \in Frames /\ f.key \in Keys /\ Has(toGateway, f)
        /\ \A g : Has(toGateway', g) => Has(toGateway, g)
    BY <1>b, <2>1, Pulled DEF Frames
  <2>3. /\ st # None => st \in Streams /\ KeyOf[st] = f.key
    BY <2>2 DEF LoopType, Shape
  <2>4. \/ /\ toEnclave' = Append(toEnclave, Frame("CLOSE", f.key)) /\ UNCHANGED rl
        \/ /\ UNCHANGED toEnclave /\ rl' = Reading
        \/ /\ UNCHANGED toEnclave /\ st # None
           /\ rl'.st = st /\ rl'.at \in {"enqueue", "unregister"}
           /\ rl'.at = "unregister" => f.type = "CLOSE"
    <3>1. \/ /\ toEnclave' = Append(toEnclave, Frame("CLOSE", f.key)) /\ UNCHANGED rl
          \/ /\ UNCHANGED toEnclave /\ rl' = Reading
          \/ /\ UNCHANGED toEnclave /\ st # None /\ \E n \in Sizes : rl' = At("enqueue", st, "open", n)
          \/ /\ UNCHANGED toEnclave /\ st # None /\ f.type = "CLOSE"
             /\ rl' = At("unregister", st, "enclave", 0)
      BY <1>a, <1>19, Zenon DEF ReadFrame
    <3> HIDE DEF f, st
    <3>2. \A n : At("enqueue", st, "open", n).at = "enqueue" /\ At("enqueue", st, "open", n).st = st
      BY DEF At
    <3>3. At("unregister", st, "enclave", 0).at = "unregister" /\ At("unregister", st, "enclave", 0).st = st
      BY DEF At
    <3> QED
      BY <3>1, <3>2, <3>3
  <2> HIDE DEF f, st
  <2>5. CASE toEnclave' = Append(toEnclave, Frame("CLOSE", f.key)) /\ UNCHANGED rl
    BY <1>a, <1>c, <2>1, <2>2, <2>5, Pushes, FrameType DEF Unopened, Relayed
  <2>6. ASSUME UNCHANGED toEnclave,
               rl'.at # "read" => ~Unopened(rl'.st),
               rl'.at \in {"unregister", "finish"} => ~Unclosed(toEnclave, enclave, KeyOf[rl'.st])
        PROVE  Held'
    <3>1. \A s : Unopened(s)' = Unopened(s) /\ Relayed(s)' = Relayed(s)
      BY <2>1 DEF Unopened, Relayed
    <3>2. \A s \in Streams : Unopened(s)' =>
            /\ code'[s] \in Silent \cup {"open"}
            /\ KeyOf[s] \notin enclave' /\ ~Has(toEnclave', Frame("OPEN", KeyOf[s]))
            /\ \A g \in Frames : Has(toGateway', g) => g.key # KeyOf[s]
            /\ rl'.at # "read" => rl'.st # s
      BY <1>c, <2>1, <2>2, <2>6, <3>1
    <3>3. /\ \A k \in Keys : Once(toEnclave', enclave', k)
          /\ \A k \in Keys : Has(toGateway', Frame("CLOSE", k))
                               => ~Unclosed(toEnclave', enclave', k)
          /\ rl'.at \in {"unregister", "finish"} => ~Unclosed(toEnclave', enclave', KeyOf[rl'.st])
          /\ \A k \in Keys : Unclosed(toEnclave', enclave', k)
                               => \E s \in Streams : KeyOf[s] = k /\ Relayed(s)'
      BY <1>c, <2>1, <2>2, <2>6, <3>1
    <3> QED
      BY <3>2, <3>3, HeldLater, Zenon
  <2>7. CASE UNCHANGED toEnclave /\ rl' = Reading
    BY <2>6, <2>7 DEF Reading
  <2>8. CASE /\ UNCHANGED toEnclave /\ st # None
             /\ rl'.st = st /\ rl'.at \in {"enqueue", "unregister"}
             /\ rl'.at = "unregister" => f.type = "CLOSE"
    <3>1. ~Unopened(st)
      BY <1>c, <2>2, <2>3, <2>8
    <3>2. f.type = "CLOSE" => f = Frame("CLOSE", f.key)
      BY <2>2 DEF Frame, Frames
    <3>3. f.type = "CLOSE" => ~Unclosed(toEnclave, enclave, KeyOf[st])
      BY <1>c, <2>2, <2>3, <2>8, <3>2
    <3> QED
      BY <2>6, <2>8, <3>1, <3>3
  <2> QED
    BY <2>4, <2>5, <2>7, <2>8
<1>20. CASE EnclaveReceive
  <2> DEFINE f == Head(toEnclave)
  <2>1. /\ toEnclave # <<>> /\ toEnclave' = Tail(toEnclave) /\ enclave' = Received(enclave, f)
        /\ UNCHANGED <<toGateway, pc, code, rl>>
    BY <1>20 DEF EnclaveReceive, Received, streamVars, connVars
  <2>2. f \in Frames /\ Has(toEnclave, f) /\ \A g : Has(toEnclave', g) => Has(toEnclave, g)
    BY <1>b, <2>1, Pulled
  <2>3. \A k \in Keys : Once(toEnclave', enclave', k)
    BY <1>b, <1>c, <2>1, PullOnce
  <2>4. \A k : Unclosed(toEnclave', enclave', k) => Unclosed(toEnclave, enclave, k)
    BY <1>b, <2>1, PullUnclosed
  <2> HIDE DEF f
  <2>5. \A k \in Keys : k \in enclave' => k \in enclave \/ Has(toEnclave, Frame("OPEN", k))
    <3>1. f.type = "OPEN" => f = Frame("OPEN", f.key)
      BY <2>2 DEF Frame, Frames
    <3>2. \A k \in Keys : k \in enclave' => k \in enclave \/ (f.type = "OPEN" /\ k = f.key)
      BY <2>1 DEF Received
    <3> QED
      BY <2>2, <3>1, <3>2, Zenon
  <2> QED
    BY <1>a, <1>c, <2>1, <2>2, <2>3, <2>4, <2>5, Carry DEF Unopened, Relayed
<1>21. ASSUME NEW k \in Keys, EnclaveSend(k) PROVE Held'
  <2>1. /\ k \in enclave /\ UNCHANGED <<toEnclave, pc, code, rl>>
        /\ \/ toGateway' = Append(toGateway, Frame("DATA", k)) /\ UNCHANGED enclave
           \/ toGateway' = Append(toGateway, Frame("CLOSE", k)) /\ enclave' = enclave \ {k}
    BY <1>21 DEF EnclaveSend, streamVars, connVars
  <2>2. PICK f \in {Frame("DATA", k), Frame("CLOSE", k)} : toGateway' = Append(toGateway, f)
    BY <2>1
  <2>3. f \in Frames /\ f.key = k /\ \A g : Has(toGateway', g) <=> Has(toGateway, g) \/ g = f
    <3>1. f \in Frames /\ f.key = k
      BY FrameType
    <3>2. \A g : Has(Append(toGateway, f), g) <=> Has(toGateway, g) \/ g = f
      BY <1>b, <3>1, Pushed, Zenon
    <3> QED
      BY <2>2, <3>1, <3>2, Zenon
  <2>4. enclave' \subseteq enclave
    BY <2>1
  <2>5. \A s \in Streams : Unopened(s)' = Unopened(s) /\ Relayed(s)' = Relayed(s)
    BY <2>1 DEF Unopened, Relayed
  <2>6. ASSUME NEW s \in Streams, Unopened(s)'
        PROVE  /\ code'[s] \in Silent \cup {"open"}
               /\ KeyOf[s] \notin enclave' /\ ~Has(toEnclave', Frame("OPEN", KeyOf[s]))
               /\ \A g \in Frames : Has(toGateway', g) => g.key # KeyOf[s]
               /\ rl'.at # "read" => rl'.st # s
    <3>1. Unopened(s) /\ k # KeyOf[s]
      BY <1>c, <2>1, <2>5, <2>6
    <3> QED
      BY <1>c, <2>1, <2>3, <2>4, <3>1
  <2>7. \A l : Unclosed(toEnclave, enclave', l) => Unclosed(toEnclave, enclave, l)
    BY <2>4 DEF Unclosed
  <2>8. ASSUME NEW l \in Keys PROVE Once(toEnclave', enclave', l)
    BY <1>c, <2>1, <2>4 DEF Once
  <2>9. ASSUME NEW l \in Keys, Has(toGateway', Frame("CLOSE", l))
        PROVE  ~Unclosed(toEnclave', enclave', l)
    <3>1. CASE Has(toGateway, Frame("CLOSE", l))
      BY <1>c, <2>1, <2>7, <3>1
    <3>2. CASE f = Frame("CLOSE", l)
      <4>1. l = k /\ enclave' = enclave \ {k}
        <5>1. f.type = "CLOSE" /\ l = k
          BY <2>3, <3>2, FrameType
        <5>2. Frame("DATA", k).type = "DATA" /\ Frame("DATA", k) \in Frames
          BY FrameType
        <5>3. ~(toGateway' = Append(toGateway, Frame("DATA", k)))
          <6>1. Append(toGateway, f)[Len(toGateway) + 1] = f
            BY <1>b, <2>3, Pushed
          <6>2. Append(toGateway, Frame("DATA", k))[Len(toGateway) + 1] = Frame("DATA", k)
            BY <1>b, <5>2, Pushed
          <6> QED
            BY <2>2, <5>1, <5>2, <6>1, <6>2
        <5> QED
          BY <2>1, <5>1, <5>3
      <4>2. \A i \in 1 .. Len(toEnclave) : toEnclave[i] # Frame("OPEN", k)
        BY <1>c, <2>1, Zenon DEF Once
      <4> QED
        BY <2>1, <4>1, <4>2 DEF Unclosed
    <3> QED
      BY <2>3, <2>9, <3>1, <3>2
  <2>10. rl'.at \in {"unregister", "finish"} => ~Unclosed(toEnclave', enclave', KeyOf[rl'.st])
    BY <1>c, <2>1, <2>7
  <2>11. ASSUME NEW l \in Keys, Unclosed(toEnclave', enclave', l)
         PROVE  \E s \in Streams : KeyOf[s] = l /\ Relayed(s)'
    BY <1>c, <2>1, <2>5, <2>7, <2>11
  <2> QED
    BY <2>6, <2>8, <2>9, <2>10, <2>11, HeldLater, Zenon
<1> QED
  BY <1>2, <1>3, <1>5, <1>6, <1>7, <1>8, <1>9, <1>10, <1>11, <1>12, <1>13, <1>14, <1>15, <1>16,
     <1>17, <1>18, <1>19, <1>20, <1>21 DEF Next, Handler, ReadLoop

\* wsmux.go: with a key per stream, any number of streams, the enclave keeps
\* no stream behind the gateway's back: it has its relay, a CLOSE on its way,
\* or ended in one of the two ways about which the handler is silent.
THEOREM EnclaveHasRelay ==
  ASSUME OwnKeys
  PROVE  Spec => []EnclaveStreamHasRelay
<1>1. Shape /\ Held => EnclaveStreamHasRelay
  <2> SUFFICES ASSUME Shape, Held, wire = "up", NEW k \in enclave,
                      ~CloseOnItsWay(k)
               PROVE  \E s \in Streams : /\ KeyOf[s] = k
                                         /\ \/ pc[s] = "relaying" /\ code[s] = "open"
                                            \/ code[s] \in {"tryAgain", "pumpError"}
    BY DEF EnclaveStreamHasRelay
  <2>1. k \in Keys /\ ~Has(toEnclave, Frame("CLOSE", k))
    BY DEF Shape, CloseOnItsWay, Has
  <2>2. PICK s \in Streams : KeyOf[s] = k /\ Relayed(s)
    BY <2>1 DEF Held, Unclosed
  <2>3. pc[s] # "sendClose"
    BY <2>2 DEF CloseOnItsWay
  <2> QED
    BY <2>2, <2>3 DEF Relayed, Silent
<1>2. Init => Shape /\ Held
  BY InitShape
<1>3. LoopType /\ Reachable /\ Shape /\ Held /\ [Next]_vars => Held'
  BY NextHeld
<1> QED
  BY <1>1, <1>2, <1>3, InitLoop, NextLoop, InitReach, NextReach, NextShape, PTL DEF Spec

=============================================================================
