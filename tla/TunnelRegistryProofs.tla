------------------------ MODULE TunnelRegistryProofs ------------------------
(***************************************************************************)
(* Proofs about TunnelRegistry, for any enclaves, sessions and dials.      *)
(*                                                                         *)
(* The registry and the dials are proved apart, since neither reads what   *)
(* the other writes but for closed and the list pick looks through:        *)
(*   Registered  the types of what Handle and Register touch, and that the *)
(*               lists hold the serving sessions;                          *)
(*   Opening     the types of what Open touches, and which goroutine still *)
(*               reads the channel of a dial.                              *)
(***************************************************************************)
EXTENDS TunnelRegistry, TLAPS

USE ClockAssumption, NoneAssumption

HandlePcs == {"free", "auth", "upgraded", "stamped", "serving"}

RegisterType ==
  /\ clock \in 0 .. MaxClock
  /\ hpc \in [Sessions -> HandlePcs]
  /\ id \in [Sessions -> Enclaves \cup {None}]
  /\ at \in [Sessions -> 0 .. MaxClock]
  /\ closed \in [Sessions -> BOOLEAN]
  /\ sessions \in [Enclaves -> Seq(Sessions)]
  /\ \A s \in Sessions : hpc[s] \in {"upgraded", "stamped", "serving"} => id[s] \in Enclaves

Registered == RegisterType /\ RegistryHoldsServingSessions

\* A goroutine waits for the result of OpenStream whenever there will be one.
Opening ==
  /\ dpc \in [Dials -> {"free", "waiting", "preamble", "using"}]
  /\ target \in [Dials -> Enclaves \cup {None}]
  /\ sess \in [Dials -> Sessions \cup {None}]
  /\ stream \in [Dials -> {"none", "open", "closed"}]
  /\ opener \in [Dials -> {"idle", "opening", "sent", "failed"}]
  /\ reaper \in [Dials -> BOOLEAN]
  /\ \A d \in Dials : /\ opener[d] # "idle" => dpc[d] = "waiting" \/ reaper[d]
                      /\ reaper[d] => dpc[d] = "free"
  /\ NoOrphanStream

-----------------------------------------------------------------------------
(* Lists.                                                                  *)

\* append puts a session that is not in the list behind it.
LEMMA AppendNew ==
  ASSUME NEW list \in Seq(Sessions), NEW s \in Sessions, IsInjective(list), s \notin Range(list)
  PROVE  /\ Append(list, s) \in Seq(Sessions)
         /\ IsInjective(Append(list, s))
         /\ Range(Append(list, s)) = Range(list) \cup {s}
<1> DEFINE l == Append(list, s)
<1>1. /\ l \in Seq(Sessions) /\ Len(l) = Len(list) + 1
      /\ \A i \in 1 .. Len(list) : l[i] = list[i]
      /\ l[Len(list) + 1] = s
  OBVIOUS
<1>2. DOMAIN list = 1 .. Len(list) /\ DOMAIN l = 1 .. Len(list) + 1 /\ Len(list) \in Nat
  BY <1>1
<1>3. \A i \in DOMAIN list : list[i] # s
  BY DEF Range
<1> HIDE DEF l
<1>4. IsInjective(l)
  <2> SUFFICES ASSUME NEW a \in DOMAIN l, NEW b \in DOMAIN l, l[a] = l[b] PROVE a = b
    BY DEF IsInjective
  <2>1. CASE a \in DOMAIN list /\ b \in DOMAIN list
    BY <1>1, <1>2, <2>1 DEF IsInjective
  <2>2. CASE a = Len(list) + 1 \/ b = Len(list) + 1
    BY <1>1, <1>2, <1>3, <2>2
  <2> QED
    BY <1>2, <2>1, <2>2
<1>5. Range(l) = Range(list) \cup {s}
  BY <1>1, <1>2 DEF Range
<1> QED
  BY <1>1, <1>4, <1>5 DEF l

\* The elements of two lists joined.
LEMMA Concatenation ==
  ASSUME NEW a \in Seq(Sessions), NEW b \in Seq(Sessions)
  PROVE  /\ a \o b \in Seq(Sessions) /\ Len(a \o b) = Len(a) + Len(b)
         /\ \A k \in 1 .. Len(a) + Len(b) :
              (a \o b)[k] = IF k <= Len(a) THEN a[k] ELSE b[k - Len(a)]
OBVIOUS

\* The removal function Register returns takes one session out.
LEMMA WithoutOne ==
  ASSUME NEW list \in Seq(Sessions), NEW s \in Sessions, IsInjective(list)
  PROVE  /\ Without(list, s) \in Seq(Sessions)
         /\ IsInjective(Without(list, s))
         /\ Range(Without(list, s)) = Range(list) \ {s}
<1> DEFINE first == {i \in DOMAIN list : list[i] = s /\ \A j \in 1 .. i - 1 : list[j] # s}
<1>1. DOMAIN list = 1 .. Len(list) /\ Len(list) \in Nat
  OBVIOUS
<1>2. CASE first = {}
  <2>1. s \notin Range(list)
    <3> SUFFICES ASSUME NEW i \in DOMAIN list, list[i] = s PROVE FALSE
      BY DEF Range
    <3>1. \A j \in 1 .. i - 1 : j \in DOMAIN list /\ j # i
      BY <1>1
    <3> QED
      BY <1>2, <3>1 DEF IsInjective
  <2> QED
    BY <1>2, <2>1 DEF Without
<1>3. CASE first # {}
  <2>1. PICK i \in DOMAIN list : list[i] = s /\ Without(list, s) = SubSeq(list, 1, i - 1) \o SubSeq(list, i + 1, Len(list))
    BY <1>3, Zenon DEF Without
  <2> DEFINE a == SubSeq(list, 1, i - 1)
             b == SubSeq(list, i + 1, Len(list))
             l == a \o b
  <2>2. /\ a \in Seq(Sessions) /\ Len(a) = i - 1
        /\ \A k \in 1 .. i - 1 : a[k] = list[k]
    <3>1. i \in Int /\ \A k \in 1 .. i - 1 : list[k] \in Sessions
      BY <1>1
    <3> QED
      BY <1>1, <3>1
  <2>3. /\ b \in Seq(Sessions) /\ Len(b) = Len(list) - i
        /\ \A k \in 1 .. Len(list) - i : b[k] = list[i + k]
    <3>1. PICK m \in Int : m = i + 1
      BY <1>1
    <3>2. Len(list) \in Int /\ \A k \in m .. Len(list) : list[k] \in Sessions
      BY <1>1, <3>1
    <3>3. /\ SubSeq(list, m, Len(list)) \in Seq(Sessions)
          /\ Len(SubSeq(list, m, Len(list))) = IF m <= Len(list) THEN Len(list) - m + 1 ELSE 0
          /\ \A k \in 1 .. Len(list) - m + 1 : SubSeq(list, m, Len(list))[k] = list[m + k - 1]
      BY <3>2
    <3>4. b = SubSeq(list, m, Len(list))
      BY <3>1
    <3> HIDE DEF b
    <3>5. ASSUME NEW k \in 1 .. Len(list) - i PROVE b[k] = list[i + k]
      <4>1. k \in 1 .. Len(list) - m + 1 /\ m + k - 1 = i + k
        BY <1>1, <3>1
      <4> QED
        BY <3>3, <3>4, <4>1
    <3> QED
      BY <1>1, <3>1, <3>3, <3>4, <3>5
  <2> HIDE DEF a, b
  <2>4. /\ l \in Seq(Sessions) /\ Len(l) = Len(list) - 1
        /\ \A k \in 1 .. Len(list) - 1 : l[k] = IF k < i THEN list[k] ELSE list[k + 1]
    <3>1. /\ l \in Seq(Sessions) /\ Len(l) = Len(a) + Len(b)
          /\ \A k \in 1 .. Len(a) + Len(b) : l[k] = IF k <= Len(a) THEN a[k] ELSE b[k - Len(a)]
      BY <2>2, <2>3, Concatenation, Zenon
    <3> HIDE DEF l
    <3>2. ASSUME NEW k \in 1 .. Len(list) - 1
          PROVE  l[k] = IF k < i THEN list[k] ELSE list[k + 1]
      <4>3. Len(a) = i - 1 /\ k \in 1 .. Len(a) + Len(b) /\ i \in Nat
        BY <1>1, <2>2, <2>3
      <4>4. l[k] = IF k <= Len(a) THEN a[k] ELSE b[k - Len(a)]
        BY <3>1, <4>3, Zenon
      <4>1. CASE k < i
        <5>1. k \in 1 .. i - 1 /\ k <= Len(a)
          BY <4>1, <4>3
        <5>2. a[k] = list[k]
          BY <2>2, <5>1, Zenon
        <5> QED
          BY <4>1, <4>4, <5>1, <5>2, Zenon
      <4>2. CASE ~(k < i)
        <5>1. k - (i - 1) \in 1 .. Len(list) - i /\ i + (k - (i - 1)) = k + 1
          BY <1>1, <4>2
        <5>2. l[k] = b[k - (i - 1)]
          BY <4>2, <4>3, <4>4
        <5>3. b[k - (i - 1)] = list[i + (k - (i - 1))]
          BY <2>3, <5>1, Zenon
        <5> QED
          BY <4>2, <5>1, <5>2, <5>3
      <4> QED
        BY <4>1, <4>2
    <3> QED
      BY <1>1, <2>2, <2>3, <3>1, <3>2
  <2>5. Without(list, s) = l
    BY <2>1 DEF a, b
  <2> HIDE DEF l
  <2>6. DOMAIN l = 1 .. Len(list) - 1
    BY <2>4
  <2>7. IsInjective(l)
    <3> SUFFICES ASSUME NEW p \in DOMAIN l, NEW q \in DOMAIN l, l[p] = l[q] PROVE p = q
      BY DEF IsInjective
    <3> DEFINE up(k) == IF k < i THEN k ELSE k + 1
    <3>1. up(p) \in DOMAIN list /\ up(q) \in DOMAIN list /\ list[up(p)] = list[up(q)]
      BY <1>1, <2>4, <2>6
    <3>2. up(p) = up(q)
      BY <3>1 DEF IsInjective
    <3> QED
      BY <1>1, <2>6, <3>2
  <2>8. Range(l) = Range(list) \ {s}
    <3>1. ASSUME NEW x \in Range(l) PROVE x \in Range(list) /\ x # s
      <4>1. PICK k \in DOMAIN l : x = l[k]
        BY DEF Range
      <4>2. PICK m \in DOMAIN list : x = list[m] /\ m # i
        <5>1. CASE k < i
          <6>1. k \in DOMAIN list /\ k # i /\ l[k] = list[k]
            BY <1>1, <2>4, <2>6, <5>1
          <6> QED
            BY <4>1, <6>1, Zenon
        <5>2. CASE ~(k < i)
          <6>1. k + 1 \in DOMAIN list /\ k + 1 # i /\ l[k] = list[k + 1]
            BY <1>1, <2>4, <2>6, <5>2
          <6> QED
            BY <4>1, <6>1, Zenon
        <5> QED
          BY <5>1, <5>2, Zenon
      <4> QED
        BY <2>1, <4>2 DEF Range, IsInjective
    <3>2. ASSUME NEW x \in Range(list), x # s PROVE x \in Range(l)
      <4>1. PICK m \in DOMAIN list : x = list[m]
        BY DEF Range
      <4>2. m # i
        BY <2>1, <3>2, <4>1
      <4>3. CASE m < i
        <5>1. m \in DOMAIN l /\ l[m] = x
          BY <1>1, <2>4, <2>6, <4>1, <4>3
        <5> QED
          BY <5>1 DEF Range
      <4>4. CASE m > i
        <5>1. m - 1 \in DOMAIN l /\ l[m - 1] = x
          BY <1>1, <2>4, <2>6, <4>1, <4>4
        <5> QED
          BY <5>1 DEF Range
      <4> QED
        BY <1>1, <4>2, <4>3, <4>4
    <3> QED
      BY <3>1, <3>2
  <2> QED
    BY <2>4, <2>5, <2>7, <2>8
<1> QED
  BY <1>2, <1>3

-----------------------------------------------------------------------------
(* The registry.                                                           *)

\* The registry starts empty, with no session served.
LEMMA InitRegistered == Init => Registered
<1> SUFFICES ASSUME Init PROVE Registered
  OBVIOUS
<1>1. RegisterType
  BY DEF Init, RegisterType, HandlePcs
<1>2. \A e \in Enclaves : sessions[e] = << >>
  BY DEF Init
<1>3. DOMAIN << >> = {}
  OBVIOUS
<1>4. RegistryHoldsServingSessions
  BY <1>2, <1>3 DEF Init, RegistryHoldsServingSessions, IsInjective, Range
<1> QED
  BY <1>1, <1>4 DEF Registered

\* Handle, Register and the function it returns keep the lists in step with
\* the sessions that serve.
LEMMA NextRegistered == Registered /\ [Next]_vars => Registered'
<1> SUFFICES ASSUME Registered, [Next]_vars PROVE Registered'
  OBVIOUS
<1> USE DEF Registered, RegisterType, HandlePcs
<1>0. ASSUME UNCHANGED <<clock, handleVars, sessions>> PROVE Registered'
  BY <1>0 DEF handleVars, RegistryHoldsServingSessions
<1>1. ASSUME UNCHANGED sessions, RegisterType',
             \A s \in Sessions : (hpc'[s] = "serving" <=> hpc[s] = "serving")
                                /\ (hpc[s] = "serving" => id'[s] = id[s])
      PROVE  Registered'
  BY <1>1 DEF RegistryHoldsServingSessions
<1>2. CASE UNCHANGED vars
  BY <1>0, <1>2 DEF vars
<1>3. CASE Tick
  <2>1. RegisterType'
    BY <1>3 DEF Tick, handleVars
  <2> QED
    BY <1>1, <1>3, <2>1 DEF Tick, handleVars
<1>4. ASSUME NEW d \in Dials, Dial(d) PROVE Registered'
  BY <1>0, <1>4 DEF Dial, Open, OpenStream, TakeResult, Timeout, Reap, WritePreamble, CallerCloses
<1>5. ASSUME NEW s \in Sessions, ReadRequest(s) \/ Authorize(s) \/ Stamp(s) \/ SessionDies(s)
      PROVE  Registered'
  <2>1. CASE ReadRequest(s)
    <3>1. RegisterType'
      BY <2>1 DEF ReadRequest
    <3> QED
      BY <1>1, <2>1, <3>1 DEF ReadRequest
  <2>2. CASE Authorize(s)
    <3>1. hpc' \in [Sessions -> HandlePcs] /\ id' \in [Sessions -> Enclaves \cup {None}]
      <4>1. CASE UNCHANGED id /\ hpc' = [hpc EXCEPT ![s] = "free"]
        BY <4>1
      <4>2. CASE \E e \in Enclaves : /\ id' = [id EXCEPT ![s] = e]
                                      /\ hpc' = [hpc EXCEPT ![s] = "upgraded"]
        BY <4>2
      <4> QED
        BY <2>2, <4>1, <4>2 DEF Authorize
    <3>2. closed' \in [Sessions -> BOOLEAN] /\ UNCHANGED <<clock, at, sessions>>
      BY <2>2 DEF Authorize
    <3>3. \A x \in Sessions : hpc'[x] \in {"upgraded", "stamped", "serving"} => id'[x] \in Enclaves
      BY <2>2 DEF Authorize
    <3>4. RegisterType'
      BY <3>1, <3>2, <3>3
    <3> QED
      BY <1>1, <2>2, <3>4 DEF Authorize
  <2>3. CASE Stamp(s)
    <3>1. RegisterType'
      BY <2>3 DEF Stamp
    <3> QED
      BY <1>1, <2>3, <3>1 DEF Stamp
  <2>4. CASE SessionDies(s)
    <3>1. RegisterType'
      BY <2>4 DEF SessionDies
    <3> QED
      BY <1>1, <2>4, <3>1 DEF SessionDies
  <2> QED
    BY <1>5, <2>1, <2>2, <2>3, <2>4
<1>6. ASSUME NEW s \in Sessions, Register(s) PROVE Registered'
  <2>1. id[s] \in Enclaves /\ hpc[s] = "stamped"
    BY <1>6 DEF Register
  <2>2. /\ IsInjective(sessions[id[s]]) /\ s \notin Range(sessions[id[s]])
        /\ sessions[id[s]] \in Seq(Sessions)
    BY <2>1 DEF RegistryHoldsServingSessions
  <2>3. /\ Append(sessions[id[s]], s) \in Seq(Sessions)
        /\ IsInjective(Append(sessions[id[s]], s))
        /\ Range(Append(sessions[id[s]], s)) = Range(sessions[id[s]]) \cup {s}
    BY <2>2, AppendNew
  <2>4. RegisterType'
    BY <1>6, <2>1, <2>3 DEF Register
  <2>5. ASSUME NEW e \in Enclaves
        PROVE  /\ IsInjective(sessions'[e])
               /\ Range(sessions'[e]) = {x \in Sessions : hpc'[x] = "serving" /\ id'[x] = e}
    <3>1. CASE e = id[s]
      BY <1>6, <2>1, <2>3, <3>1 DEF Register, RegistryHoldsServingSessions
    <3>2. CASE e # id[s]
      BY <1>6, <2>1, <3>2 DEF Register, RegistryHoldsServingSessions
    <3> QED
      BY <3>1, <3>2
  <2> QED
    BY <2>4, <2>5 DEF RegistryHoldsServingSessions
<1>7. ASSUME NEW s \in Sessions, Unregister(s) PROVE Registered'
  <2>1. id[s] \in Enclaves /\ hpc[s] = "serving"
    BY <1>7 DEF Unregister
  <2>2. IsInjective(sessions[id[s]]) /\ sessions[id[s]] \in Seq(Sessions)
    BY <2>1 DEF RegistryHoldsServingSessions
  <2>3. /\ Without(sessions[id[s]], s) \in Seq(Sessions)
        /\ IsInjective(Without(sessions[id[s]], s))
        /\ Range(Without(sessions[id[s]], s)) = Range(sessions[id[s]]) \ {s}
    BY <2>2, WithoutOne
  <2>4. RegisterType'
    BY <1>7, <2>1, <2>3 DEF Unregister
  <2>5. ASSUME NEW e \in Enclaves
        PROVE  /\ IsInjective(sessions'[e])
               /\ Range(sessions'[e]) = {x \in Sessions : hpc'[x] = "serving" /\ id'[x] = e}
    <3>1. CASE e = id[s]
      BY <1>7, <2>1, <2>3, <3>1 DEF Unregister, RegistryHoldsServingSessions
    <3>2. CASE e # id[s]
      BY <1>7, <2>1, <3>2 DEF Unregister, RegistryHoldsServingSessions
    <3> QED
      BY <3>1, <3>2
  <2> QED
    BY <2>4, <2>5 DEF RegistryHoldsServingSessions
<1> QED
  BY <1>2, <1>3, <1>4, <1>5, <1>6, <1>7 DEF Next, Handle

\* Register and its removal function: the list of an enclave holds each of its
\* serving sessions exactly once and nothing else, however many reconnect.
THEOREM RegistryHolds == Spec => []RegistryHoldsServingSessions
<1>1. Registered => RegistryHoldsServingSessions
  BY DEF Registered
<1> QED
  BY <1>1, InitRegistered, NextRegistered, PTL DEF Spec

-----------------------------------------------------------------------------
(* pick.                                                                   *)
INSTANCE WellFoundedInduction

\* A set of numbers has a least one.
LEMMA LeastNat ==
  ASSUME NEW T, T \subseteq Nat, T # {}
  PROVE  \E x \in T : \A y \in T : x <= y
<1> DEFINE R == OpToRel(<, Nat)
<1>1. IsWellFoundedOn(R, Nat)
  BY NatLessThanWellFounded, Zenon
<1> HIDE DEF R
<1>2. PICK x \in T : \A y \in T : ~(<<y, x>> \in R)
  BY <1>1, WFMin, Zenon
<1>3. \A y \in T : ~(y < x)
  BY <1>2, Zenon DEF R, OpToRel
<1> QED
  BY <1>3

\* The loop of pick has a best entry as soon as one is live.
LEMMA BestExists ==
  ASSUME RegisterType, NEW e \in Enclaves, Live(e) # {}
  PROVE  \E i \in Live(e) : \A j \in Live(e) : Better(e, i, j)
<1> DEFINE time(i) == at[sessions[e][i]]
           ages == {MaxClock - time(i) : i \in Live(e)}
<1>1. \A i \in Live(e) : /\ i \in Nat /\ sessions[e][i] \in Sessions
                          /\ time(i) \in 0 .. MaxClock
  BY DEF RegisterType, Live
<1>2. ages \subseteq Nat /\ ages # {}
  BY <1>1
<1> HIDE DEF ages
<1>3. PICK a \in ages : \A b \in ages : a <= b
  BY <1>2, LeastNat, Zenon
<1> DEFINE latest == {i \in Live(e) : MaxClock - time(i) = a}
<1>4. latest \subseteq Nat /\ latest # {}
  BY <1>1, <1>3 DEF ages
<1> HIDE DEF latest
<1>5. PICK i \in latest : \A j \in latest : i <= j
  BY <1>4, LeastNat, Zenon
<1>6. i \in Live(e) /\ MaxClock - time(i) = a
  BY <1>5 DEF latest
<1>7. ASSUME NEW j \in Live(e) PROVE Better(e, i, j)
  <2>1. a <= MaxClock - time(j)
    BY <1>3 DEF ages
  <2>2. CASE time(j) = time(i)
    <3>1. j \in latest
      BY <1>6, <2>2 DEF latest
    <3> QED
      BY <1>5, <2>2, <3>1 DEF Better
  <2>3. CASE time(j) # time(i)
    <3>1. time(j) < time(i)
      BY <1>1, <1>6, <2>1, <2>3
    <3> QED
      BY <3>1 DEF Better
  <2> QED
    BY <2>2, <2>3
<1> QED
  BY <1>6, <1>7

\* What pick returns is in the list, open, and no later entry is.
LEMMA PickBest ==
  ASSUME RegisterType, NEW e \in Enclaves, Pick(e) # None
  PROVE  \E i \in Live(e) : /\ Pick(e) = sessions[e][i] /\ Pick(e) \in Sessions
                            /\ \A j \in Live(e) : Better(e, i, j)
<1>1. Live(e) # {}
  BY DEF Pick
<1> DEFINE i == CHOOSE k \in Live(e) : \A j \in Live(e) : Better(e, k, j)
<1>2. i \in Live(e) /\ \A j \in Live(e) : Better(e, i, j)
  BY <1>1, BestExists
<1>3. Pick(e) = sessions[e][i]
  BY <1>1 DEF Pick
<1> HIDE DEF i
<1>4. sessions[e][i] \in Sessions
  BY <1>2 DEF Live, RegisterType
<1> QED
  BY <1>2, <1>3, <1>4

-----------------------------------------------------------------------------
(* Dials.                                                                  *)

\* No dial is under way at the start.
LEMMA InitOpening == Init => Opening
BY DEF Init, Opening, NoOrphanStream

\* A dial that gives up leaves its channel to the late-result goroutine.
LEMMA NextOpening == Registered /\ Opening /\ [Next]_vars => Opening'
<1> SUFFICES ASSUME Registered, Opening, [Next]_vars PROVE Opening'
  OBVIOUS
<1> USE DEF Opening, NoOrphanStream
<1>1. ASSUME UNCHANGED dialVars PROVE Opening'
  BY <1>1 DEF dialVars
<1>2. CASE UNCHANGED vars \/ Tick
  BY <1>1, <1>2 DEF vars, Tick
<1>3. ASSUME NEW s \in Sessions, Handle(s) PROVE Opening'
  BY <1>1, <1>3 DEF Handle, ReadRequest, Authorize, Stamp, Register, Unregister
<1>4. ASSUME NEW s \in Sessions, SessionDies(s) PROVE Opening'
  BY <1>4 DEF SessionDies
<1>5. ASSUME NEW d \in Dials, NEW e \in Enclaves, Open(d, e) PROVE Opening'
  <2>1. Pick(e) \in Sessions
    BY <1>5, PickBest DEF Open, Registered
  <2> QED
    BY <1>5, <2>1 DEF Open
<1>6. ASSUME NEW d \in Dials, OpenStream(d) PROVE Opening'
  BY <1>6 DEF OpenStream
<1>7. ASSUME NEW d \in Dials, TakeResult(d) PROVE Opening'
  BY <1>7 DEF TakeResult, Finished
<1>8. ASSUME NEW d \in Dials, Timeout(d) PROVE Opening'
  BY <1>8 DEF Timeout, StartReaper
<1>9. ASSUME NEW d \in Dials, Reap(d) PROVE Opening'
  BY <1>9 DEF Reap, CloseLate, Finished
<1>10. ASSUME NEW d \in Dials, WritePreamble(d) \/ CallerCloses(d) PROVE Opening'
  BY <1>10 DEF WritePreamble, CallerCloses, Finished
<1> HIDE DEF Opening, NoOrphanStream
<1> QED
  BY <1>2, <1>3, <1>4, <1>5, <1>6, <1>7, <1>8, <1>9, <1>10 DEF Next, Dial

\* Registry.Open: a stream is never left behind, whenever its dial times out.
THEOREM NoOrphan == Spec => [](TypeOK /\ NoOrphanStream)
<1>1. Registered /\ Opening => TypeOK /\ NoOrphanStream
  BY DEF Registered, RegisterType, HandlePcs, Opening, TypeOK
<1> QED
  BY <1>1, InitRegistered, NextRegistered, InitOpening, NextOpening, PTL DEF Spec

\* pick: a new dial rides the newest registered session of its enclave that is
\* open, for any number of sessions and any clock.
THEOREM DialsNewest == Spec => DialsNewestSession
<1> DEFINE Newest ==
      \A d \in Dials : \A s \in Sessions :
        dpc[d] = "free" /\ dpc'[d] = "waiting" =>
          /\ hpc[sess'[d]] = "serving" /\ id[sess'[d]] = target'[d] /\ ~closed[sess'[d]]
          /\ hpc[s] = "serving" /\ ~closed[s] /\ id[s] = target'[d] => at[s] <= at[sess'[d]]
<1>1. Registered /\ Opening /\ [Next]_vars => [Newest]_vars
  <2> SUFFICES ASSUME Registered, Opening, Next, NEW d \in Dials,
                      dpc[d] = "free", dpc'[d] = "waiting"
               PROVE  \A s \in Sessions :
          /\ hpc[sess'[d]] = "serving" /\ id[sess'[d]] = target'[d] /\ ~closed[sess'[d]]
          /\ hpc[s] = "serving" /\ ~closed[s] /\ id[s] = target'[d] => at[s] <= at[sess'[d]]
    OBVIOUS
  <2>1. PICK e \in Enclaves : Open(d, e)
    <3>1. PICK c \in Dials : Dial(c)
      BY DEF Next, Tick, Handle, ReadRequest, Authorize, Stamp, Register, Unregister, SessionDies,
             dialVars
    <3>2. ~(OpenStream(c) \/ TakeResult(c) \/ Timeout(c) \/ Reap(c) \/ WritePreamble(c)
            \/ CallerCloses(c))
      BY DEF Opening, OpenStream, TakeResult, Timeout, Reap, WritePreamble, CallerCloses
    <3>3. PICK e \in Enclaves : Open(c, e)
      BY <3>1, <3>2 DEF Dial
    <3>4. c = d
      BY <3>3 DEF Open, Opening
    <3> QED
      BY <3>3, <3>4
  <2>2. Pick(e) # None /\ sess'[d] = Pick(e) /\ target'[d] = e
    BY <2>1 DEF Open, Opening
  <2>3. PICK i \in Live(e) : /\ Pick(e) = sessions[e][i] /\ Pick(e) \in Sessions
                             /\ \A j \in Live(e) : Better(e, i, j)
    BY <2>2, PickBest DEF Registered
  <2>4. \A s \in Sessions : hpc[s] = "serving" /\ id[s] = e <=> \E j \in DOMAIN sessions[e] : s = sessions[e][j]
    BY DEF Registered, RegistryHoldsServingSessions, Range
  <2>5. hpc[Pick(e)] = "serving" /\ id[Pick(e)] = e /\ ~closed[Pick(e)]
    BY <2>3, <2>4 DEF Live
  <2>6. ASSUME NEW s \in Sessions, hpc[s] = "serving", ~closed[s], id[s] = e
        PROVE  at[s] <= at[Pick(e)]
    <3>1. PICK j \in Live(e) : s = sessions[e][j]
      BY <2>4, <2>6 DEF Live
    <3>2. at[s] \in Nat /\ at[Pick(e)] \in Nat
      BY <2>3 DEF Registered, RegisterType
    <3> QED
      BY <2>3, <3>1, <3>2 DEF Better
  <2> QED
    BY <2>2, <2>5, <2>6
<1> QED
  BY <1>1, InitRegistered, NextRegistered, InitOpening, NextOpening, PTL DEF Spec, DialsNewestSession

=============================================================================
