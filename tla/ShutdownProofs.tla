--------------------------- MODULE ShutdownProofs ---------------------------
(***************************************************************************)
(* Proof that a clean exit leaves no connection behind, for any finite set *)
(* of connections.  CleanExitDrains is not inductive: Run returns because  *)
(* wg is zero, so wg must count the running handlers, and because its loop *)
(* is not holding a connection it has accepted and not yet counted, of     *)
(* which there is one at most.                                             *)
(***************************************************************************)
EXTENDS Shutdown, FiniteSetTheorems, TLAPS

Running == {c \in Conns : handler[c] = "running"}

IInv ==
  /\ TypeOK
  /\ wg = Cardinality(Running)
  /\ \A c, d \in Conns :
       handler[c] = "accepted" => run = "got" /\ (handler[d] = "accepted" => d = c)
  /\ CleanExitDrains

\* The connections being served are finitely many.
LEMMA RunningFinite ==
  IsFiniteSet(Running) /\ Cardinality(Running) \in Nat
BY ConnsAssumption, FS_Subset, FS_CardinalityType DEF Running

\* The process starts with no connection.
LEMMA InitIInv == Init => IInv
<1> SUFFICES ASSUME Init PROVE IInv
  OBVIOUS
<1>1. TypeOK
  BY DEF Init, TypeOK
<1>2. Running = {}
  BY DEF Init, Running
<1>3. wg = Cardinality(Running)
  BY <1>2, FS_EmptySet DEF Init
<1> QED
  BY <1>1, <1>3 DEF Init, IInv, CleanExitDrains

\* Steps that touch no connection and do not let Run return.
LEMMA QuietStep ==
  ASSUME IInv, TypeOK', UNCHANGED connVars,
         run = "got" => run' = "got", exit' = "clean" => exit = "clean"
  PROVE  IInv'
<1>1. Running' = Running
  BY DEF Running, connVars
<1> QED
  BY <1>1 DEF IInv, connVars, CleanExitDrains

\* Every step of the process keeps the count right.
LEMMA NextIInv == IInv /\ [Next]_vars => IInv'
<1> SUFFICES ASSUME IInv, [Next]_vars PROVE IInv'
  OBVIOUS
<1> USE DEF IInv
<1>1. CASE UNCHANGED vars
  <2>1. TypeOK'
    BY <1>1 DEF TypeOK, vars, sigVars, syncVars, runVars, connVars
  <2> QED
    BY <1>1, <2>1, QuietStep DEF vars, runVars, connVars
<1>2. CASE Signal \/ Cancel \/ StopHealth \/ DrainClose \/ DrainWait
  <2>1. TypeOK'
    BY <1>2 DEF TypeOK, Signal, Cancel, StopHealth, DrainClose, DrainWait, SigStep,
                syncVars, runVars, connVars
  <2> QED
    BY <1>2, <2>1, QuietStep DEF Signal, Cancel, StopHealth, DrainClose, DrainWait, runVars
<1>3. CASE Publish \/ StartFetch \/ FetchDone \/ FetchFails \/ StopSync
  <2>1. TypeOK'
    BY <1>3 DEF TypeOK, Publish, StartFetch, FetchDone, FetchFails, StopSync,
                sigVars, runVars, connVars
  <2> QED
    BY <1>3, <2>1, QuietStep DEF Publish, StartFetch, FetchDone, FetchFails, StopSync, runVars
<1>4. CASE Listen \/ WatchContext \/ WatchClose \/ AcceptFails
  <2>1. TypeOK'
    BY <1>4 DEF TypeOK, Listen, WatchContext, WatchClose, AcceptFails, CloseListener,
                sigVars, syncVars, connVars
  <2> QED
    BY <1>4, <2>1, QuietStep DEF Listen, WatchContext, WatchClose, AcceptFails
<1>5. CASE RunWait
  <2>1. TypeOK'
    BY <1>5 DEF TypeOK, RunWait, sigVars, syncVars, connVars
  <2>2. Running' = Running
    BY <1>5 DEF RunWait, Running, connVars
  <2>3. Running = {}
    BY <1>5, RunningFinite, FS_EmptySet DEF RunWait, Drained
  <2>4. \A c \in Conns : handler[c] = "free"
    BY <1>5, <2>3 DEF RunWait, Running, TypeOK
  <2> QED
    BY <1>5, <2>1, <2>2, <2>4 DEF RunWait, CleanExitDrains, connVars
<1>6. ASSUME NEW c \in Conns, Accept(c) PROVE IInv'
  <2>1. TypeOK'
    BY <1>6 DEF TypeOK, Accept, sigVars, syncVars
  <2>2. Running' = Running
    BY <1>6 DEF Accept, Running, TypeOK
  <2> QED
    BY <1>6, <2>1, <2>2 DEF Accept, CleanExitDrains, Alive
<1>7. ASSUME NEW c \in Conns, Serve(c) PROVE IInv'
  <2>1. TypeOK'
    BY <1>7 DEF TypeOK, Serve, sigVars, syncVars
  <2>2. Running' = Running \cup {c} /\ c \notin Running
    BY <1>7 DEF Serve, Running, TypeOK
  <2>3. wg' = Cardinality(Running')
    BY <1>7, <2>2, RunningFinite, FS_AddElement DEF Serve
  <2>4. \A d \in Conns : handler'[d] # "accepted"
    <3> SUFFICES ASSUME NEW d \in Conns, handler'[d] = "accepted" PROVE FALSE
      OBVIOUS
    <3> QED
      BY <1>7 DEF Serve, TypeOK
  <2> QED
    BY <1>7, <2>1, <2>3, <2>4 DEF Serve, CleanExitDrains, Alive
<1>8. ASSUME NEW c \in Conns, Finish(c) PROVE IInv'
  <2>1. Running' = Running \ {c} /\ c \in Running
    BY <1>8 DEF Finish, Running, TypeOK
  <2>2. Cardinality(Running') = Cardinality(Running) - 1
    BY <2>1, RunningFinite, FS_RemoveElement
  <2>3. Cardinality(Running') \in Nat
    BY <2>1, RunningFinite, FS_RemoveElement, FS_CardinalityType
  <2>4. wg' = Cardinality(Running')
    BY <1>8, <2>2 DEF Finish
  <2>5. TypeOK'
    BY <1>8, <2>3, <2>4 DEF TypeOK, Finish, sigVars, syncVars, runVars
  <2> QED
    BY <1>8, <2>4, <2>5 DEF Finish, CleanExitDrains, Alive, runVars
<1> QED
  BY <1>1, <1>2, <1>3, <1>4, <1>5, <1>6, <1>7, <1>8 DEF Next

\* Gateway.Run and main: a clean exit has served every accepted connection
\* to its end, however accepts, ends, the signal and the syncs interleave.
THEOREM CleanExitDrainsHolds == Spec => [](TypeOK /\ CleanExitDrains)
<1>1. IInv => TypeOK /\ CleanExitDrains
  BY DEF IInv
<1> QED
  BY <1>1, InitIInv, NextIInv, PTL DEF Spec

=============================================================================
