------------------------ MODULE QuarantineCutProofs ------------------------
(***************************************************************************)
(* Proofs about QuarantineCut, for any sets of hosts and connections and   *)
(* any bound on the tracker's counter.                                     *)
(*                                                                         *)
(* QuarantineCutsOpenTraffic is not inductive: it says nothing of handlers *)
(* that have registered and not yet looked the route up again, nor that an *)
(* id taken out of the tracker was taken by a cut and not by another       *)
(* handler's release.  IInv adds both.                                     *)
(***************************************************************************)
EXTENDS QuarantineCut, TLAPS

\* Ids are given out once: no two handlers hold the same one, and none is
\* ahead of the counter.
IdsUnique ==
  /\ \A c \in Conns : entry[c] <= next
  /\ \A c, d \in Conns : entry[c] # 0 /\ entry[c] = entry[d] => c = d

\* A handler holds an id exactly between Track and its release.
HeldWhileTracked == \A c \in Conns : pc[c] \in TrackedPcs <=> entry[c] # 0

\* A registered id is held by a handler of that host.
RegisteredIsHeld ==
  \A h \in Hosts : \A id \in hosts[h] :
    \E c \in Conns : entry[c] = id /\ host[c] = h

\* A held id is registered unless a cut took it.
HeldIsKnown ==
  \A c \in Conns :
    pc[c] \in TrackedPcs => entry[c] \in hosts[host[c]] \cup closing \cup cut

\* A handler that passed its second lookup and is still registered while its
\* host is quarantined waits for a hook Update has yet to call.
RegisteredIsNext ==
  \A c \in Conns :
    /\ pc[c] \in ForwardingPcs
    /\ Quarantined(c)
    /\ host[c] \in announced
    /\ entry[c] \in hosts[host[c]]
    => host[c] \in toCut

IInv ==
  /\ TypeOK
  /\ IdsUnique
  /\ HeldWhileTracked
  /\ RegisteredIsHeld
  /\ HeldIsKnown
  /\ RegisteredIsNext

USE DEF Ids

-----------------------------------------------------------------------------
\* The initial state, with an empty table and no connection, satisfies the
\* inductive invariant.
LEMMA InitIInv == Init => IInv
BY MaxTrackedAssumption
   DEF Init, IInv, TypeOK, IdsUnique, HeldWhileTracked, RegisteredIsHeld,
       HeldIsKnown, RegisteredIsNext, RouteStates, Pcs, SplicePcs, RequestPcs,
       TrackedPcs, ForwardingPcs

\* Steps that only move one handler between two places on the same side of
\* Track, and not past the second lookup of a quarantined host.
LEMMA StepIInv ==
  ASSUME IInv, NEW c \in Conns, NEW from \in Pcs, NEW to \in Pcs,
         Step(c, from, to),
         from \in TrackedPcs <=> to \in TrackedPcs,
         to \in ForwardingPcs => from \in ForwardingPcs \/ ~Quarantined(c)
  PROVE  IInv'
<1> USE DEF Step, Goto, tableVars, trackerVars
<1>1. TypeOK'
  BY DEF IInv, TypeOK
<1>2. IdsUnique'
  BY DEF IInv, IdsUnique
<1>3. HeldWhileTracked'
  BY DEF IInv, TypeOK, HeldWhileTracked
<1>4. RegisteredIsHeld'
  BY DEF IInv, RegisteredIsHeld
<1>5. HeldIsKnown'
  BY DEF IInv, TypeOK, HeldIsKnown
<1>6. RegisteredIsNext'
  BY DEF IInv, TypeOK, RegisteredIsNext, Quarantined
<1> QED BY <1>1, <1>2, <1>3, <1>4, <1>5, <1>6 DEF IInv

\* Track registers a fresh id, so it disturbs no other handler.
LEMMA TrackIInv ==
  ASSUME IInv, NEW c \in Conns, NEW to \in TrackedPcs \ ForwardingPcs,
         pc[c] \notin TrackedPcs, Track(c), Goto(c, to),
         UNCHANGED <<tableVars, host, route>>
  PROVE  IInv'
<1> USE MaxTrackedAssumption DEF Track, Goto, tableVars
<1>1. TypeOK'
  BY DEF IInv, TypeOK, TrackedPcs, Pcs, SplicePcs, RequestPcs
<1>2. IdsUnique'
  BY DEF IInv, TypeOK, IdsUnique
<1>3. HeldWhileTracked'
  BY DEF IInv, TypeOK, HeldWhileTracked
<1>4. RegisteredIsHeld'
  <2>1. entry[c] = 0
    BY DEF IInv, HeldWhileTracked
  <2>2. SUFFICES ASSUME NEW h \in Hosts, NEW id \in hosts'[h]
                 PROVE  \E d \in Conns : entry'[d] = id /\ host'[d] = h
    BY DEF RegisteredIsHeld
  <2>3. CASE id \in hosts[h]
    <3>1. PICK d \in Conns : entry[d] = id /\ host[d] = h
      BY <2>3 DEF IInv, RegisteredIsHeld
    <3>2. d # c
      BY <2>1, <2>3, <3>1 DEF IInv, TypeOK
    <3> QED BY <3>1, <3>2 DEF IInv, TypeOK
  <2>4. CASE id \notin hosts[h]
    BY <2>2, <2>4 DEF IInv, TypeOK
  <2> QED BY <2>3, <2>4
<1>5. HeldIsKnown'
  BY DEF IInv, TypeOK, HeldIsKnown, IdsUnique
<1>6. RegisteredIsNext'
  <2>1. SUFFICES ASSUME NEW d \in Conns,
                        (pc[d] \in ForwardingPcs)', Quarantined(d)',
                        (host[d] \in announced)', (entry[d] \in hosts[host[d]])'
                 PROVE  (host[d] \in toCut)'
    BY DEF RegisteredIsNext
  <2>2. d # c
    BY <2>1 DEF IInv, TypeOK
  <2>3. entry[d] \in hosts[host[d]]
    BY <2>1, <2>2 DEF IInv, TypeOK, IdsUnique
  <2> QED BY <2>1, <2>2, <2>3 DEF IInv, TypeOK, RegisteredIsNext, Quarantined
<1> QED BY <1>1, <1>2, <1>3, <1>4, <1>5, <1>6 DEF IInv

\* A release removes the handler's own id, of its own host, and no other:
\* also when a cut has already taken it.
LEMMA ReleaseIInv ==
  ASSUME IInv, NEW c \in Conns, NEW to \in Pcs \ TrackedPcs,
         pc[c] \in TrackedPcs, Release(c), Goto(c, to),
         UNCHANGED <<tableVars, host, route>>
  PROVE  IInv'
<1> USE MaxTrackedAssumption DEF Release, Goto, tableVars
<1>1. TypeOK'
  BY DEF IInv, TypeOK
<1>2. IdsUnique'
  BY DEF IInv, TypeOK, IdsUnique
<1>3. HeldWhileTracked'
  BY DEF IInv, TypeOK, HeldWhileTracked
<1>4. RegisteredIsHeld'
  <2>1. SUFFICES ASSUME NEW h \in Hosts, NEW id \in hosts'[h]
                 PROVE  \E d \in Conns : entry'[d] = id /\ host'[d] = h
    BY DEF RegisteredIsHeld
  <2>2. id \in hosts[h] /\ (h = host[c] => id # entry[c])
    BY <2>1 DEF IInv, TypeOK
  <2>3. PICK d \in Conns : entry[d] = id /\ host[d] = h
    BY <2>2 DEF IInv, RegisteredIsHeld
  <2>4. d # c
    BY <2>2, <2>3
  <2> QED BY <2>3, <2>4 DEF IInv, TypeOK
<1>5. HeldIsKnown'
  <2>1. SUFFICES ASSUME NEW d \in Conns, pc'[d] \in TrackedPcs
                 PROVE  entry'[d] \in hosts'[host'[d]] \cup closing' \cup cut'
    BY DEF HeldIsKnown
  <2>2. d # c /\ pc[d] \in TrackedPcs
    BY <2>1 DEF IInv, TypeOK
  <2>3. entry[d] # entry[c]
    BY <2>2 DEF IInv, IdsUnique, HeldWhileTracked
  <2> QED BY <2>2, <2>3 DEF IInv, TypeOK, HeldIsKnown
<1>6. RegisteredIsNext'
  <2>1. SUFFICES ASSUME NEW d \in Conns,
                        (pc[d] \in ForwardingPcs)', Quarantined(d)',
                        (host[d] \in announced)', (entry[d] \in hosts[host[d]])'
                 PROVE  (host[d] \in toCut)'
    BY DEF RegisteredIsNext
  <2>2. d # c
    BY <2>1 DEF IInv, TypeOK, ForwardingPcs, TrackedPcs
  <2>3. entry[d] \in hosts[host[d]]
    BY <2>1, <2>2 DEF IInv, TypeOK
  <2> QED BY <2>1, <2>2, <2>3 DEF IInv, TypeOK, RegisteredIsNext, Quarantined
<1> QED BY <1>1, <1>2, <1>3, <1>4, <1>5, <1>6 DEF IInv

-----------------------------------------------------------------------------
\* Update swaps the table only when every hook of the last one has run, so a
\* host that stays quarantined has no forwarding handler left to remember.
LEMMA UpdateIInv ==
  ASSUME IInv, NEW new \in [Hosts -> RouteStates], Update(new)
  PROVE  IInv'
<1> USE DEF Update, trackerVars, handlerVars
<1>1. TypeOK'
  BY DEF IInv, TypeOK, NewlyQuarantined
<1>2. IdsUnique' /\ HeldWhileTracked' /\ RegisteredIsHeld' /\ HeldIsKnown'
  BY DEF IInv, IdsUnique, HeldWhileTracked, RegisteredIsHeld, HeldIsKnown
<1>3. RegisteredIsNext'
  <2>1. SUFFICES ASSUME NEW c \in Conns,
                        pc[c] \in ForwardingPcs, new[host[c]] = "quarantined",
                        host[c] \in announced', entry[c] \in hosts[host[c]]
                 PROVE  host[c] \in toCut'
    BY DEF RegisteredIsNext, Quarantined
  <2>2. host[c] \in Hosts
    BY DEF IInv, TypeOK
  <2>3. table[host[c]] = "active"
    BY <2>1 DEF IInv, RegisteredIsNext, Quarantined
  <2> QED BY <2>1, <2>2, <2>3 DEF NewlyQuarantined
<1> QED BY <1>1, <1>2, <1>3 DEF IInv

\* CutHost moves the ids of one host from the tracker to the goroutines.
LEMMA CutHostIInv ==
  ASSUME IInv, NEW h \in Hosts, CutHost(h)
  PROVE  IInv'
<1> USE DEF CutHost, StartCloses, handlerVars
<1>1. TypeOK'
  BY DEF IInv, TypeOK
<1>2. IdsUnique' /\ HeldWhileTracked'
  BY DEF IInv, IdsUnique, HeldWhileTracked
<1>3. RegisteredIsHeld'
  BY DEF IInv, TypeOK, RegisteredIsHeld
<1>4. HeldIsKnown'
  BY DEF IInv, TypeOK, HeldIsKnown
<1>5. RegisteredIsNext'
  BY DEF IInv, TypeOK, RegisteredIsNext, Quarantined
<1> QED BY <1>1, <1>2, <1>3, <1>4, <1>5 DEF IInv

\* A close function only moves its id from closing to cut.
LEMMA CloseEntryIInv ==
  ASSUME IInv, NEW id \in Ids, CloseEntry(id)
  PROVE  IInv'
<1> USE DEF CloseEntry, tableVars, handlerVars
<1>1. TypeOK'
  BY DEF IInv, TypeOK
<1>2. IdsUnique' /\ HeldWhileTracked' /\ RegisteredIsHeld'
  BY DEF IInv, IdsUnique, HeldWhileTracked, RegisteredIsHeld
<1>3. HeldIsKnown'
  BY DEF IInv, HeldIsKnown
<1>4. RegisteredIsNext'
  BY DEF IInv, RegisteredIsNext, Quarantined
<1> QED BY <1>1, <1>2, <1>3, <1>4 DEF IInv

\* A new connection takes a free slot, which holds no id.
LEMMA AcceptIInv ==
  ASSUME IInv, NEW c \in Conns, NEW h \in Hosts, Accept(c, h)
  PROVE  IInv'
<1> USE DEF Accept, Goto, tableVars, trackerVars
<1>0. entry[c] = 0
  BY DEF IInv, HeldWhileTracked, TrackedPcs
<1>1. TypeOK'
  BY DEF IInv, TypeOK, Pcs, SplicePcs, RequestPcs
<1>2. IdsUnique'
  BY DEF IInv, IdsUnique
<1>3. HeldWhileTracked'
  BY DEF IInv, TypeOK, HeldWhileTracked, TrackedPcs
<1>4. RegisteredIsHeld'
  <2>1. SUFFICES ASSUME NEW g \in Hosts, NEW id \in hosts[g]
                 PROVE  \E d \in Conns : entry[d] = id /\ host'[d] = g
    BY DEF RegisteredIsHeld
  <2>2. PICK d \in Conns : entry[d] = id /\ host[d] = g
    BY DEF IInv, RegisteredIsHeld
  <2>3. d # c
    BY <1>0, <2>2 DEF IInv, TypeOK
  <2> QED BY <2>2, <2>3 DEF IInv, TypeOK
<1>5. HeldIsKnown'
  BY DEF IInv, TypeOK, HeldIsKnown, TrackedPcs
<1>6. RegisteredIsNext'
  BY DEF IInv, TypeOK, RegisteredIsNext, Quarantined, ForwardingPcs
<1> QED BY <1>1, <1>2, <1>3, <1>4, <1>5, <1>6 DEF IInv

-----------------------------------------------------------------------------
\* Every step of a handler keeps the inductive invariant.
LEMMA HandlerIInv ==
  ASSUME IInv, NEW c \in Conns, Handler(c)
  PROVE  IInv'
<1> USE DEF Pcs, SplicePcs, RequestPcs, TrackedPcs, ForwardingPcs
<1>1. CASE \E h \in Hosts : Accept(c, h)
  BY <1>1, AcceptIInv
<1>2. CASE DialUpstream(c)
  BY <1>2, StepIInv DEF DialUpstream
<1>3. CASE TrackSplice(c)
  BY <1>3, TrackIInv DEF TrackSplice
<1>4. CASE RecheckSplice(c)
  <2>1. CASE Quarantined(c) /\ Return(c)
    BY <1>4, <2>1, ReleaseIInv DEF RecheckSplice, Return
  <2>2. CASE ~Quarantined(c) /\ Step(c, "tracked", "preface")
    BY <2>2, StepIInv
  <2> QED BY <1>4, <2>1, <2>2 DEF RecheckSplice
<1>5. CASE WritePreface(c)
  <2>1. CASE Step(c, "preface", "splicing")
    BY <2>1, StepIInv
  <2>2. CASE pc[c] = "preface" /\ Return(c)
    BY <2>2, ReleaseIInv DEF Return
  <2> QED BY <1>5, <2>1, <2>2 DEF WritePreface
<1>6. CASE EndSplice(c)
  BY <1>6, ReleaseIInv DEF EndSplice, Return
<1>7. CASE Handshake(c)
  BY <1>7, StepIInv DEF Handshake
<1>8. CASE ReadRequest(c)
  BY <1>8, StepIInv DEF ReadRequest
<1>9. CASE TrackRequest(c)
  BY <1>9, TrackIInv DEF TrackRequest
<1>10. CASE RecheckRequest(c)
  <2>1. CASE RequestRefused(c) /\ Return(c)
    BY <1>10, <2>1, ReleaseIInv DEF RecheckRequest, Return
  <2>2. CASE ~RequestRefused(c) /\ Step(c, "reqTracked", "proxying")
    BY <2>2, StepIInv DEF RequestRefused
  <2> QED BY <1>10, <2>1, <2>2 DEF RecheckRequest
<1>11. CASE EndRequest(c)
  BY <1>11, ReleaseIInv DEF EndRequest
<1> QED BY <1>1, <1>2, <1>3, <1>4, <1>5, <1>6, <1>7, <1>8, <1>9, <1>10, <1>11
           DEF Handler

\* IInv is an invariant of the gateway's quarantine protocol.
THEOREM InductiveInvariant == Spec => []IInv
<1>1. IInv /\ [Next]_vars => IInv'
  <2> SUFFICES ASSUME IInv, [Next]_vars PROVE IInv'
    OBVIOUS
  <2>1. ASSUME NEW new \in [Hosts -> RouteStates], Update(new) PROVE IInv'
    BY <2>1, UpdateIInv
  <2>2. ASSUME NEW h \in Hosts, CutHost(h) PROVE IInv'
    BY <2>2, CutHostIInv
  <2>3. ASSUME NEW id \in Ids, CloseEntry(id) PROVE IInv'
    BY <2>3, CloseEntryIInv
  <2>4. ASSUME NEW c \in Conns, Handler(c) PROVE IInv'
    BY <2>4, HandlerIInv
  <2>5. CASE UNCHANGED vars
    BY <2>5 DEF vars, IInv, TypeOK, IdsUnique, HeldWhileTracked,
       RegisteredIsHeld, HeldIsKnown, RegisteredIsNext, Quarantined
  <2> QED BY <2>1, <2>2, <2>3, <2>4, <2>5 DEF Next
<1> QED BY <1>1, InitIInv, PTL DEF Spec

\* The variables keep their types in every reachable state.
THEOREM TypeCorrect == Spec => []TypeOK
BY InductiveInvariant, PTL DEF IInv

\* Whatever can still reach the enclave of a host quarantined from active is
\* about to be cut: the register-then-look-up-again protocol of tracker.go is
\* correct for any number of hosts and connections.
THEOREM CutsOpenTraffic == Spec => []QuarantineCutsOpenTraffic
<1>1. IInv => QuarantineCutsOpenTraffic
  BY DEF IInv, QuarantineCutsOpenTraffic, Reaching, CutPending, HeldIsKnown,
         RegisteredIsNext, TrackedPcs, ForwardingPcs
<1> QED BY <1>1, InductiveInvariant, PTL

\* The tracker holds ids of open traffic only, each of one handler: nothing
\* is left behind by a cut, a refusal or a finished request.
THEOREM TrackerBalanced == Spec => []TrackerHoldsOnlyOpenTraffic
<1>1. IInv => TrackerHoldsOnlyOpenTraffic
  <2>1. SUFFICES ASSUME IInv, NEW h \in Hosts, NEW id \in hosts[h]
                 PROVE  \E c \in Conns :
                          /\ entry[c] = id /\ host[c] = h /\ pc[c] \in TrackedPcs
                          /\ \A d \in Conns : entry[d] = id => d = c
    BY DEF TrackerHoldsOnlyOpenTraffic
  <2>2. PICK c \in Conns : entry[c] = id /\ host[c] = h
    BY <2>1 DEF IInv, RegisteredIsHeld
  <2>3. id # 0
    BY <2>1 DEF IInv, TypeOK
  <2> QED BY <2>1, <2>2, <2>3 DEF IInv, IdsUnique, HeldWhileTracked
<1> QED BY <1>1, InductiveInvariant, PTL

=============================================================================
