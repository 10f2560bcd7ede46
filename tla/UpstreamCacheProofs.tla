------------------------ MODULE UpstreamCacheProofs ------------------------
(* The caches of the terminator for any apps, handlers, pools and tables.  *)
EXTENDS UpstreamCache, TLAPS

PoolPcs == {"pooled", "dialing", "joining", "riding"}
ConnPcs == {"dialing", "joining", "riding"}

\* What a handler holds at each point.
HandlerType ==
  /\ table \in [Hosts -> Routes \cup {None}]
  /\ pc \in [Handlers -> {"idle", "routed", "ready", "pooling", "pooled",
                          "dialing", "joining", "riding"}]
  /\ route \in [Handlers -> Routes \cup {None}]
  /\ host \in [Handlers -> Hosts \cup {None}]
  /\ pool \in [Handlers -> Pools \cup {None}]
  /\ conn \in [Handlers -> Conns \cup {None}]
  /\ muxPools \subseteq Pools
  /\ members \in [Pools -> SUBSET Conns]
  /\ \A c \in Handlers : /\ pc[c] # "idle" => route[c] \in Routes /\ host[c] \in Hosts
                         /\ pool[c] # None <=> pc[c] \in PoolPcs
                         /\ conn[c] # None => pc[c] \in ConnPcs
                         /\ pc[c] \in {"joining", "riding"} => conn[c] # None

\* A handler that has looked up a route has a key.
LEMMA KeyType ==
  ASSUME HandlerType, NEW c \in Handlers, pc[c] # "idle"
  PROVE  Key(c) \in AppKeys /\ Key(c) # None
BY NoneAssumption DEF HandlerType, Key, KeyOf, AppKeys, Routes

\* Handlers start idle and hold nothing.
LEMMA InitHandlers == Init => HandlerType
BY DEF Init, HandlerType, PoolPcs, ConnPcs

\* What get returns is a member of the pool, or nothing.
LEMMA BestMember ==
  ASSUME NEW p, NEW m \in Best(p), m # None
  PROVE  m \in members[p]
BY DEF Best, LeastLoaded, Live

\* At each point a handler holds what the code there uses, and nothing else.
LEMMA NextHandlers == Cardinality({}) = 0 /\ HandlerType /\ [Next]_vars => HandlerType'
<1> SUFFICES ASSUME Cardinality({}) = 0, HandlerType, [Next]_vars PROVE HandlerType'
  OBVIOUS
<1> USE NoneAssumption DEF HandlerType, PoolPcs, ConnPcs, handlerVars, poolVars, Goto
<1>1. CASE UNCHANGED vars
  BY <1>1 DEF vars
<1>2. ASSUME NEW new \in Tables, NEW others \in SUBSET Hosts, Update(new, others) PROVE HandlerType'
  BY <1>2, TablesAssumption DEF Update, Routes
<1>3. CASE ForgetStep
  <2>1. UNCHANGED <<table, handlerVars>> /\ muxPools' \subseteq muxPools
        /\ members' \in [Pools -> SUBSET Conns]
    BY <1>3 DEF ForgetStep, ForgetProxies, LockForget, ForgetPools, ReplacePools
  <2> QED
    BY <2>1
<1>4. ASSUME NEW m \in Conns, LoseConn(m) PROVE HandlerType'
  BY <1>4, Zenon DEF LoseConn
<1>5. ASSUME NEW c \in Handlers, NEW h \in Hosts, Lookup(c, h) PROVE HandlerType'
  BY <1>5 DEF Lookup
<1>6. ASSUME NEW c \in Handlers, pc[c] # "idle", End(c), UNCHANGED <<table, muxPools>>,
             members' \in [Pools -> SUBSET Conns]
      PROVE  HandlerType'
  BY <1>6, Zenon DEF End
<1>7. ASSUME NEW c \in Handlers, ProxyFor(c) PROVE HandlerType'
  BY <1>6, <1>7 DEF ProxyFor
<1>8. ASSUME NEW c \in Handlers, LockPools(c) PROVE HandlerType'
  BY <1>8, Zenon DEF LockPools
<1>9. ASSUME NEW c \in Handlers, MuxPoolFor(c) PROVE HandlerType'
  <2>1. PICK p \in Pools : pool' = [pool EXCEPT ![c] = p]
    BY <1>9, Zenon DEF MuxPoolFor, CachedPool
  <2>2. muxPools' \subseteq Pools /\ members' \in [Pools -> SUBSET Conns]
    BY <1>9 DEF MuxPoolFor, ReplacePools
  <2>3. /\ pc[c] = "pooling" /\ pc' = [pc EXCEPT ![c] = "pooled"]
        /\ UNCHANGED <<table, route, host, conn>>
    BY <1>9, Zenon DEF MuxPoolFor
  <2> QED
    BY <2>1, <2>2, <2>3, Zenon
<1>10. ASSUME NEW c \in Handlers, Get(c) PROVE HandlerType'
  <2>1. /\ pc[c] = "pooled" /\ pool[c] \in Pools
        /\ members' = [members EXCEPT ![pool[c]] = Live(pool[c])]
        /\ UNCHANGED <<table, muxPools, route, host, pool>>
    BY <1>10, Zenon DEF Get
  <2>2. members' \in [Pools -> SUBSET Conns]
    BY <2>1 DEF Live
  <2>3. PICK m \in Best(pool[c]) : conn' = [conn EXCEPT ![c] = m]
    BY <1>10, Zenon DEF Get
  <2>4. m \in Conns \cup {None}
    BY <2>1, <2>3, BestMember, Zenon
  <2>5. CASE pc' = [pc EXCEPT ![c] = "dialing"]
    BY <2>1, <2>2, <2>3, <2>4, <2>5, Zenon
  <2>6. CASE ~NeedsDial(pool[c]) /\ pc' = [pc EXCEPT ![c] = "joining"]
    <3>1. m # None
      <4>1. Live(pool[c]) # {}
        <5> SUFFICES ASSUME Live(pool[c]) = {} PROVE NeedsDial(pool[c])
          BY <2>6, Zenon
        <5>1. Cardinality(Live(pool[c])) = 0
          BY Zenon
        <5> QED
          BY <5>1 DEF NeedsDial, gwMuxPoolSize
      <4> QED
        BY <2>1, <2>3, <4>1, Zenon DEF Best, LeastLoaded, Live
    <3> QED
      BY <2>1, <2>2, <2>3, <2>4, <2>6, <3>1, Zenon
  <2> QED
    BY <1>10, <2>5, <2>6, Zenon DEF Get
<1>11. ASSUME NEW c \in Handlers, DialDone(c) PROVE HandlerType'
  <2>1. pc[c] = "dialing" /\ pool[c] \in Pools /\ UNCHANGED <<table, muxPools>>
    BY <1>11, Zenon DEF DialDone
  <2>2. CASE \E m \in Conns : /\ members' = [members EXCEPT ![pool[c]] = @ \cup {m}]
                              /\ conn' = [conn EXCEPT ![c] = m]
                              /\ pc' = [pc EXCEPT ![c] = "joining"]
                              /\ UNCHANGED <<route, host, pool>>
    BY <2>1, <2>2
  <2>3. CASE /\ conn[c] # None /\ pc' = [pc EXCEPT ![c] = "joining"]
             /\ UNCHANGED <<members, route, host, pool, conn>>
    BY <2>1, <2>3, Zenon
  <2>4. CASE End(c) /\ UNCHANGED members
    BY <2>1, <2>4, <1>6, Zenon
  <2> QED
    BY <1>11, <2>2, <2>3, <2>4, Zenon DEF DialDone
<1>12. ASSUME NEW c \in Handlers, Join(c) PROVE HandlerType'
  BY <1>6, <1>12 DEF Join
<1>13. ASSUME NEW c \in Handlers, Leave(c) PROVE HandlerType'
  BY <1>6, <1>13, Zenon DEF Leave
<1> HIDE DEF HandlerType, handlerVars, poolVars, Goto
<1> QED
  BY <1>1, <1>2, <1>3, <1>4, <1>5, <1>7, <1>8, <1>9, <1>10, <1>11, <1>12, <1>13, Zenon
     DEF Next, Handler

-----------------------------------------------------------------------------
(* Every pool a handler or the map refers to was built for one key, and so *)
(* was each of its members.                                                *)

Verified ==
  /\ poolKey \in [Pools -> AppKeys \cup {None}]
  /\ dialed \in [Conns -> AppKeys \cup {None}]
  /\ \A p \in muxPools : poolKey[p] \in AppKeys
  /\ \A c \in Handlers : pool[c] # None => poolKey[pool[c]] = Key(c)
  /\ \A c \in Handlers : conn[c] # None => dialed[conn[c]] = Key(c)
  /\ \A p \in Pools : ~FreePool(p) => \A m \in members[p] : dialed[m] = poolKey[p]

\* There are no pools and no connections at the start.
LEMMA InitVerified == Init => Verified
BY Zenon DEF Init, Verified, FreePool

\* Steps that build no pool and dial nothing: what is referred to may shrink.
LEMMA KeepsVerified ==
  ASSUME HandlerType, Verified, UNCHANGED <<poolKey, dialed>>,
         muxPools' \subseteq muxPools, \A p \in Pools : members'[p] \subseteq members[p],
         \A c \in Handlers : \/ pool'[c] = None /\ conn'[c] = None
                             \/ UNCHANGED <<pool[c], conn[c], route[c], host[c]>>
  PROVE  Verified'
<1> USE DEF HandlerType, Verified
<1>1. \A p \in Pools : FreePool(p) => FreePool(p)'
  BY NoneAssumption DEF FreePool
<1>2. \A c \in Handlers : pool'[c] # None => poolKey'[pool'[c]] = Key(c)'
  BY DEF Key, KeyOf
<1>3. \A c \in Handlers : conn'[c] # None => dialed'[conn'[c]] = Key(c)'
  BY DEF Key, KeyOf
<1>4. \A p \in Pools : ~FreePool(p)' => \A m \in members'[p] : dialed'[m] = poolKey'[p]
  BY <1>1, Zenon
<1> QED
  BY <1>2, <1>3, <1>4, Zenon

\* A pool's members are dialed with the pool's own key, and a handler is
\* given pools and members of its own key only.
LEMMA NextVerified == HandlerType /\ Verified /\ [Next]_vars => Verified'
<1> SUFFICES ASSUME HandlerType, Verified, [Next]_vars PROVE Verified'
  OBVIOUS
<1> USE DEF handlerVars, poolVars, Goto
<1>1. CASE UNCHANGED vars
  BY <1>1, KeepsVerified, Zenon DEF vars
<1>2. ASSUME NEW new \in Tables, NEW others \in SUBSET Hosts, Update(new, others) PROVE Verified'
  BY <1>2, KeepsVerified, Zenon DEF Update
<1>3. CASE ForgetStep
  <2>1. UNCHANGED <<poolKey, dialed, handlerVars>> /\ muxPools' \subseteq muxPools
        /\ \A p \in Pools : members'[p] \subseteq members[p]
    BY <1>3, Zenon DEF ForgetStep, ForgetProxies, LockForget, ForgetPools, ReplacePools, HandlerType
  <2> QED
    BY <2>1, KeepsVerified, Zenon
<1>4. ASSUME NEW m \in Conns, LoseConn(m) PROVE Verified'
  BY <1>4, KeepsVerified, Zenon DEF LoseConn
<1>5. ASSUME NEW c \in Handlers, NEW h \in Hosts, Lookup(c, h) PROVE Verified'
  <2>1. pool[c] = None /\ conn[c] = None
    BY <1>5, Zenon DEF Lookup, HandlerType, PoolPcs, ConnPcs
  <2>2. \A d \in Handlers : d # c => UNCHANGED <<route[d], host[d]>>
    BY <1>5, Zenon DEF Lookup, HandlerType
  <2> QED
    BY <1>5, <2>1, <2>2, KeepsVerified, Zenon DEF Lookup
<1>6. ASSUME NEW c \in Handlers, End(c), UNCHANGED <<poolKey, dialed, muxPools, members>>
      PROVE  Verified'
  <2>1. \A d \in Handlers : \/ pool'[d] = None /\ conn'[d] = None
                            \/ UNCHANGED <<pool[d], conn[d], route[d], host[d]>>
    BY <1>6, Zenon DEF End, HandlerType
  <2> QED
    BY <1>6, <2>1, KeepsVerified, Zenon
<1>7. ASSUME NEW c \in Handlers, ProxyFor(c) \/ LockPools(c) \/ Join(c) \/ Leave(c) PROVE Verified'
  <2>1. UNCHANGED <<poolKey, dialed, muxPools, members>>
    BY <1>7, Zenon DEF ProxyFor, LockPools, Join, Leave
  <2>2. End(c) \/ UNCHANGED <<route, host, pool, conn>>
    BY <1>7, Zenon DEF ProxyFor, LockPools, Join, Leave
  <2>3. CASE UNCHANGED <<route, host, pool, conn>>
    BY <2>1, <2>3, KeepsVerified, Zenon
  <2> QED
    BY <1>6, <2>1, <2>2, <2>3
<1>8. ASSUME NEW c \in Handlers, MuxPoolFor(c) PROVE Verified'
  <2>1. /\ pc[c] = "pooling" /\ pool[c] = None /\ conn[c] = None
        /\ UNCHANGED <<dialed, route, host, conn>>
    BY <1>8, Zenon DEF MuxPoolFor, HandlerType, PoolPcs, ConnPcs
  <2>2. Key(c) \in AppKeys /\ \A d \in Handlers : Key(d)' = Key(d)
    BY <2>1, KeyType, Zenon DEF Key, KeyOf
  <2>3. CASE \E p \in CachedPool(c) : pool' = [pool EXCEPT ![c] = p]
                                     /\ UNCHANGED <<muxPools, poolKey, members>>
    <3>1. PICK p \in muxPools : poolKey[p] = Key(c) /\ pool' = [pool EXCEPT ![c] = p]
      BY <2>3, Zenon DEF CachedPool
    <3>2. \A q \in Pools : FreePool(q) => FreePool(q)'
      BY <2>3, <3>1 DEF FreePool, HandlerType
    <3> QED
      BY <2>1, <2>2, <2>3, <3>1, <3>2 DEF Verified, HandlerType
  <2>4. CASE \E p \in Pools : /\ FreePool(p)
                              /\ ReplacePools(AppPools(route[c].up, host[c]), {p})
                              /\ poolKey' = [poolKey EXCEPT ![p] = Key(c)]
                              /\ pool' = [pool EXCEPT ![c] = p]
    <3>1. PICK p \in Pools : /\ FreePool(p)
                             /\ ReplacePools(AppPools(route[c].up, host[c]), {p})
                             /\ poolKey' = [poolKey EXCEPT ![p] = Key(c)]
                             /\ pool' = [pool EXCEPT ![c] = p]
      BY <2>4, Zenon
    <3>2. muxPools' \subseteq muxPools \cup {p} /\ members'[p] = {}
          /\ \A q \in Pools : members'[q] \subseteq members[q]
      BY <3>1, Zenon DEF ReplacePools, HandlerType
    <3>3. \A q \in Pools \ {p} : poolKey'[q] = poolKey[q] /\ (FreePool(q) => FreePool(q)')
      BY <3>1, <3>2, Zenon DEF FreePool, HandlerType, Verified
    <3>4. poolKey'[p] = Key(c) /\ pool'[c] = p /\ \A d \in Handlers \ {c} : pool'[d] = pool[d]
      BY <3>1, Zenon DEF HandlerType, Verified
    <3>5. poolKey' \in [Pools -> AppKeys \cup {None}]
      BY <2>2, <3>1, Zenon DEF Verified
    <3>6. \A d \in Handlers : pool'[d] # None => poolKey'[pool'[d]] = Key(d)'
      BY <2>2, <3>1, <3>3, <3>4 DEF FreePool, Verified, HandlerType
    <3>7. \A q \in Pools : ~FreePool(q)' => \A m \in members'[q] : dialed'[m] = poolKey'[q]
      BY <2>1, <3>2, <3>3, Zenon DEF Verified
    <3>8. \A q \in muxPools' : poolKey'[q] \in AppKeys
      BY <2>2, <3>1, <3>2, <3>3, <3>4 DEF Verified, HandlerType
    <3> QED
      BY <2>1, <2>2, <3>5, <3>6, <3>7, <3>8 DEF Verified
  <2> QED
    BY <1>8, <2>3, <2>4, Zenon DEF MuxPoolFor
<1>9. ASSUME NEW c \in Handlers, Get(c) PROVE Verified'
  <2>1. PICK m \in Best(pool[c]) : conn' = [conn EXCEPT ![c] = m]
    BY <1>9, Zenon DEF Get
  <2>2. /\ pc[c] = "pooled" /\ pool[c] \in Pools /\ poolKey[pool[c]] = Key(c)
        /\ members' = [members EXCEPT ![pool[c]] = Live(pool[c])]
        /\ UNCHANGED <<muxPools, poolKey, dialed, route, host, pool>>
    BY <1>9 DEF Get, HandlerType, Verified, PoolPcs
  <2>3. \A p \in Pools : members'[p] \subseteq members[p] /\ FreePool(p)' = FreePool(p)
    BY <2>2 DEF Live, FreePool, HandlerType
  <2>4. m # None => dialed[m] = Key(c)
    BY <2>1, <2>2, BestMember DEF Verified, FreePool
  <2>5. \A d \in Handlers : conn'[d] # None => dialed'[conn'[d]] = Key(d)'
    BY <2>1, <2>2, <2>4 DEF Verified, HandlerType, Key
  <2>6. \A d \in Handlers : pool'[d] # None => poolKey'[pool'[d]] = Key(d)'
    BY <2>2 DEF Verified, Key
  <2> QED
    BY <2>2, <2>3, <2>5, <2>6, Zenon DEF Verified
<1>10. ASSUME NEW c \in Handlers, DialDone(c) PROVE Verified'
  <2>1. /\ pc[c] = "dialing" /\ pool[c] \in Pools /\ poolKey[pool[c]] = Key(c) /\ Key(c) \in AppKeys
        /\ UNCHANGED <<muxPools, poolKey>>
    BY <1>10, KeyType, Zenon DEF DialDone, HandlerType, Verified, PoolPcs
  <2>2. CASE UNCHANGED <<dialed, members, route, host, pool, conn>>
    BY <2>1, <2>2, KeepsVerified, Zenon
  <2>3. CASE End(c) /\ UNCHANGED <<dialed, members>>
    BY <2>1, <2>3, <1>6, Zenon
  <2>4. CASE \E m \in Conns : /\ FreeConn(m)
                              /\ dialed' = [dialed EXCEPT ![m] = poolKey[pool[c]]]
                              /\ members' = [members EXCEPT ![pool[c]] = @ \cup {m}]
                              /\ conn' = [conn EXCEPT ![c] = m]
                              /\ UNCHANGED <<route, host, pool>>
    <3>1. PICK m \in Conns : /\ FreeConn(m)
                             /\ dialed' = [dialed EXCEPT ![m] = poolKey[pool[c]]]
                             /\ members' = [members EXCEPT ![pool[c]] = @ \cup {m}]
                             /\ conn' = [conn EXCEPT ![c] = m]
                             /\ UNCHANGED <<route, host, pool>>
      BY <2>4, Zenon
    <3>2. \A d \in Handlers : Key(d)' = Key(d) /\ (conn[d] # None => Key(d) # None)
      BY <3>1, KeyType, Zenon DEF Key, HandlerType, ConnPcs
    <3>3. \A d \in Handlers : conn[d] # m
      BY <3>1, <3>2, NoneAssumption DEF FreeConn, Verified
    <3>4. \A p \in Pools : ~FreePool(p) => poolKey[p] # None
      BY KeyType, NoneAssumption DEF FreePool, Verified, HandlerType, PoolPcs
    <3>5. \A p \in Pools : ~FreePool(p) => m \notin members[p]
      BY <3>1, <3>4, Zenon DEF FreeConn, Verified
    <3>6. \A p \in Pools : FreePool(p)' = FreePool(p)
      BY <2>1, <3>1 DEF FreePool
    <3>7. dialed'[m] = Key(c) /\ \A n \in Conns \ {m} : dialed'[n] = dialed[n]
      BY <2>1, <3>1, Zenon DEF Verified
    <3>8. \A d \in Handlers : conn'[d] # None => dialed'[conn'[d]] = Key(d)'
      BY <3>1, <3>2, <3>3, <3>7 DEF Verified, HandlerType
    <3>9. \A p \in Pools : ~FreePool(p)' => \A n \in members'[p] : dialed'[n] = poolKey'[p]
      <4> SUFFICES ASSUME NEW p \in Pools, ~FreePool(p), NEW n \in members'[p]
                   PROVE  dialed'[n] = poolKey[p]
        BY <2>1, <3>6
      <4>1. CASE n \in members[p]
        BY <3>5, <3>7, <4>1, Zenon DEF Verified, HandlerType
      <4>2. CASE n \notin members[p]
        <5>1. p = pool[c] /\ n = m
          BY <2>1, <3>1, <4>2 DEF HandlerType
        <5> QED
          BY <2>1, <3>7, <5>1, Zenon
      <4> QED
        BY <4>1, <4>2
    <3>10. dialed' \in [Conns -> AppKeys \cup {None}]
      BY <2>1, <3>1, Zenon DEF Verified
    <3>11. \A d \in Handlers : pool'[d] # None => poolKey'[pool'[d]] = Key(d)'
      BY <2>1, <3>1, <3>2, Zenon DEF Verified
    <3> QED
      BY <2>1, <3>8, <3>9, <3>10, <3>11, Zenon DEF Verified
  <2> QED
    BY <1>10, <2>2, <2>3, <2>4, Zenon DEF DialDone
<1> QED
  BY <1>1, <1>2, <1>3, <1>4, <1>5, <1>7, <1>8, <1>9, <1>10 DEF Next, Handler

-----------------------------------------------------------------------------
(* The locks.                                                              *)

Locks ==
  /\ poolMu \in [Pools -> Handlers \cup {None}]
  /\ muxMu \in Handlers \cup {Updater, None}
  /\ \A c \in Handlers : pc[c] = "pooling" <=> muxMu = c
  /\ NoLockIsStranded

\* No lock is held at the start.
LEMMA InitLocks == Init => Locks
BY UpdaterAssumption DEF Init, Locks, NoLockIsStranded

\* Each lock is taken at one place and released at the next step of its
\* holder.
LEMMA NextLocks == HandlerType /\ Locks /\ [Next]_vars => Locks'
<1> SUFFICES ASSUME HandlerType, Locks, [Next]_vars PROVE Locks'
  OBVIOUS
<1>0. /\ pc \in [Handlers -> {"idle", "routed", "ready", "pooling", "pooled",
                               "dialing", "joining", "riding"}]
      /\ pool \in [Handlers -> Pools \cup {None}] /\ muxPools \subseteq Pools
      /\ \A c \in Handlers : pool[c] # None <=> pc[c] \in PoolPcs
  BY DEF HandlerType
<1> USE <1>0, UpdaterAssumption, NoneAssumption
    DEF PoolPcs, Locks, NoLockIsStranded, handlerVars, poolVars, Goto
<1>1. CASE UNCHANGED vars
  BY <1>1 DEF vars
<1>2. ASSUME NEW new \in Tables, NEW others \in SUBSET Hosts, Update(new, others) PROVE Locks'
  BY <1>2 DEF Update
<1>3. ASSUME NEW app \in Hosts \X Upstreams, ForgetProxies(app) PROVE Locks'
  <2>1. muxMu # Updater
    BY <1>3, Zenon DEF ForgetProxies
  <2> QED
    BY <1>3, <2>1 DEF ForgetProxies
<1>4. CASE LockForget
  BY <1>4 DEF LockForget
<1>5. CASE ForgetPools
  BY <1>5 DEF ForgetPools, ReplacePools
<1>6. ASSUME NEW m \in Conns, LoseConn(m) PROVE Locks'
  BY <1>6, Zenon DEF LoseConn
<1>7. ASSUME NEW c \in Handlers, pc[c] \notin {"pooling", "dialing"}, pc'[c] \notin {"pooling"},
             \A d \in Handlers \ {c} : pc'[d] = pc[d] /\ pool'[d] = pool[d],
             UNCHANGED <<muxMu, poolMu, forgetting>>
      PROVE  Locks'
  BY <1>7
<1>8. ASSUME NEW c \in Handlers, (\E h \in Hosts : Lookup(c, h)) \/ ProxyFor(c) \/ Join(c) \/ Leave(c)
      PROVE  Locks'
  <2>1. pc[c] \notin {"pooling", "dialing"} /\ UNCHANGED <<muxMu, poolMu, forgetting>>
    BY <1>8, Zenon DEF Lookup, ProxyFor, Join, Leave
  <2>2. /\ \E q \in {"routed", "ready", "riding", "idle"} : pc' = [pc EXCEPT ![c] = q]
        /\ pool' = pool \/ pool' = [pool EXCEPT ![c] = None]
    <3>1. CASE \E h \in Hosts : Lookup(c, h)
      BY <3>1, Zenon DEF Lookup
    <3>2. CASE ProxyFor(c)
      BY <3>2, Zenon DEF ProxyFor, End
    <3>3. CASE Join(c) \/ Leave(c)
      BY <3>3, Zenon DEF Join, Leave, End
    <3> QED
      BY <1>8, <3>1, <3>2, <3>3, Zenon
  <2>3. /\ pc'[c] \notin {"pooling"}
        /\ \A d \in Handlers \ {c} : pc'[d] = pc[d] /\ pool'[d] = pool[d]
    BY <2>2
  <2> QED
    BY <1>7, <2>1, <2>3, Zenon
<1>9. ASSUME NEW c \in Handlers, LockPools(c) PROVE Locks'
  BY <1>9 DEF LockPools
<1>10. ASSUME NEW c \in Handlers, MuxPoolFor(c) PROVE Locks'
  <2>1. \A d \in Handlers \ {c} : pc'[d] = pc[d] /\ pool'[d] = pool[d]
    <3>1. PICK p \in Pools : pool' = [pool EXCEPT ![c] = p]
      BY <1>10, Zenon DEF MuxPoolFor, CachedPool
    <3>2. pc' = [pc EXCEPT ![c] = "pooled"]
      BY <1>10, Zenon DEF MuxPoolFor
    <3> QED
      BY <3>1, <3>2
  <2>2. /\ pc[c] = "pooling" /\ pc'[c] = "pooled"
        /\ muxMu' = None /\ UNCHANGED <<poolMu, forgetting>>
    BY <1>10 DEF MuxPoolFor
  <2> QED
    BY <2>1, <2>2
<1>11. ASSUME NEW c \in Handlers, Get(c) PROVE Locks'
  BY <1>11 DEF Get
<1>12. ASSUME NEW c \in Handlers, DialDone(c) PROVE Locks'
  <2>1. /\ \A d \in Handlers \ {c} : pc'[d] = pc[d] /\ pool'[d] = pool[d]
        /\ pc[c] = "dialing" /\ pc'[c] # "pooling"
    <3>1. pc[c] = "dialing"
      BY <1>12, Zenon DEF DialDone
    <3>2. \/ pc' = [pc EXCEPT ![c] = "joining"] /\ pool' = pool
          \/ pc' = [pc EXCEPT ![c] = "idle"] /\ pool' = [pool EXCEPT ![c] = None]
      BY <1>12, Zenon DEF DialDone, End
    <3> QED
      BY <3>1, <3>2
  <2>2. /\ poolMu' = [poolMu EXCEPT ![pool[c]] = None]
        /\ UNCHANGED <<muxMu, forgetting>>
    BY <1>12, Zenon DEF DialDone, UnlockPool
  <2>3. \A p \in Pools : poolMu'[p] # None => poolMu'[p] = poolMu[p] /\ poolMu[p] # c
    BY <2>2
  <2> QED
    BY <2>1, <2>2, <2>3
<1> HIDE DEF Locks, NoLockIsStranded, handlerVars, poolVars, Goto
<1> QED
  BY <1>1, <1>2, <1>3, <1>4, <1>5, <1>6, <1>8, <1>9, <1>10, <1>11, <1>12, Zenon
     DEF Next, Handler, ForgetStep

\* A step that takes a pool out of the map, with the lock held.
DropsOwnPools ==
  \A p \in muxPools \ muxPools' :
    \/ muxMu = Updater /\ IsApp(poolKey[p], forgetting)
    \/ muxMu \in Handlers /\ SameApp(poolKey[p], Key(muxMu))

\* Only ForgetPools and MuxPoolFor take pools out, under muxMu.
LEMMA NextDrops == Locks /\ [Next]_vars => [DropsOwnPools]_vars
<1> SUFFICES ASSUME Locks, Next PROVE DropsOwnPools
  OBVIOUS
<1> USE DEF poolVars, DropsOwnPools
<1>1. CASE ForgetPools
  BY <1>1, Zenon DEF ForgetPools, ReplacePools, AppPools, IsApp
<1>2. ASSUME NEW c \in Handlers, MuxPoolFor(c) PROVE DropsOwnPools
  <2>1. muxMu = c
    BY <1>2, Zenon DEF MuxPoolFor, Locks
  <2>2. muxPools \ muxPools' \subseteq AppPools(route[c].up, host[c])
    BY <1>2, Zenon DEF MuxPoolFor, ReplacePools
  <2> QED
    BY <2>1, <2>2, Zenon DEF AppPools, SameApp, Key, KeyOf
<1>3. CASE UNCHANGED muxPools
  BY <1>3
<1>4. (\E new \in Tables, others \in SUBSET Hosts : Update(new, others))
        \/ (\E m \in Conns : LoseConn(m)) \/ LockForget => UNCHANGED muxPools
  BY Zenon DEF Update, LoseConn, LockForget
<1>5. ASSUME NEW app \in Hosts \X Upstreams, ForgetProxies(app) PROVE UNCHANGED muxPools
  BY <1>5 DEF ForgetProxies
<1>6. ASSUME NEW c \in Handlers, Handler(c), ~MuxPoolFor(c) PROVE UNCHANGED muxPools
  BY <1>6, Zenon DEF Handler, Lookup, ProxyFor, LockPools, Get, DialDone, Join, Leave
<1> QED
  BY <1>1, <1>2, <1>3, <1>4, <1>5, <1>6, Zenon DEF Next, ForgetStep

-----------------------------------------------------------------------------
(* The entries of the two caches.                                          *)

Entries ==
  /\ muxPools \subseteq Pools /\ poolKey \in [Pools -> AppKeys \cup {None}]
  /\ OneEntryPerApp
  /\ \A k \in proxies : Parses(k)
  /\ \A p \in muxPools : Parses(poolKey[p])
  /\ \A c \in Handlers : pc[c] \notin {"idle", "routed"} => Parses(Key(c))

\* The caches start empty.
LEMMA InitEntries == Init => Entries
BY DEF Init, Entries, OneEntryPerApp

\* A new entry replaces the app's others, and none is made for a policy
\* that does not parse.
LEMMA NextEntries == HandlerType /\ Entries /\ [Next]_vars => Entries'
<1> SUFFICES ASSUME HandlerType, Entries, [Next]_vars PROVE Entries'
  OBVIOUS
<1> USE DEF handlerVars, poolVars, Goto
<1>1. ASSUME UNCHANGED poolKey, proxies' \subseteq proxies, muxPools' \subseteq muxPools,
             \A c \in Handlers : \/ pc'[c] \in {"idle", "routed"}
                                 \/ /\ UNCHANGED <<route[c], host[c]>>
                                    /\ pc[c] \notin {"idle", "routed"}
      PROVE  Entries'
  BY <1>1, Zenon DEF Entries, OneEntryPerApp, Parses, Key, KeyOf
<1>2. CASE UNCHANGED vars
  BY <1>1, <1>2 DEF vars
<1>3. ASSUME NEW new \in Tables, NEW others \in SUBSET Hosts, Update(new, others) PROVE Entries'
  BY <1>1, <1>3, Zenon DEF Update
<1>4. CASE ForgetStep
  <2>1. UNCHANGED <<poolKey, handlerVars>> /\ proxies' \subseteq proxies /\ muxPools' \subseteq muxPools
    BY <1>4, Zenon DEF ForgetStep, ForgetProxies, LockForget, ForgetPools, ReplacePools
  <2> QED
    BY <1>1, <2>1, Zenon
<1>5. ASSUME NEW m \in Conns, LoseConn(m) PROVE Entries'
  BY <1>1, <1>5 DEF LoseConn
<1>6. ASSUME NEW c \in Handlers, NEW h \in Hosts, Lookup(c, h) PROVE Entries'
  BY <1>1, <1>6, Zenon DEF Lookup, HandlerType
<1>7. ASSUME NEW c \in Handlers, LockPools(c) \/ Get(c) \/ DialDone(c) \/ Join(c) \/ Leave(c)
      PROVE  Entries'
  <2>1. UNCHANGED <<poolKey, proxies, muxPools>> /\ pc[c] \notin {"idle", "routed"}
    BY <1>7, Zenon DEF LockPools, Get, DialDone, Join, Leave
  <2>2. pc'[c] = "idle" \/ UNCHANGED <<route, host>>
    BY <1>7, Zenon DEF LockPools, Get, DialDone, Join, Leave, End, HandlerType
  <2>3. \A d \in Handlers \ {c} : UNCHANGED <<pc[d], route[d], host[d]>>
    BY <1>7 DEF LockPools, Get, DialDone, Join, Leave, End, HandlerType
  <2> QED
    BY <1>1, <2>1, <2>2, <2>3
<1>8. ASSUME NEW c \in Handlers, ProxyFor(c) PROVE Entries'
  <2>1. /\ UNCHANGED <<poolKey, muxPools>> /\ pc[c] = "routed"
        /\ \A d \in Handlers \ {c} : UNCHANGED <<pc[d], route[d], host[d]>>
    BY <1>8, Zenon DEF ProxyFor, End, HandlerType
  <2>2. \A k, l \in proxies' : SameApp(k, l) => k = l
    BY <1>8, Zenon DEF ProxyFor, Kept, SameApp, Entries, OneEntryPerApp
  <2>3. \A k \in proxies' : Parses(k)
    BY <1>8, Zenon DEF ProxyFor, Kept, Entries
  <2>4. pc'[c] = "idle" \/ (Parses(Key(c)) /\ UNCHANGED <<route[c], host[c]>>)
    <3>1. CASE Key(c) \in proxies /\ UNCHANGED <<route, host>>
      BY <3>1 DEF Entries
    <3>2. CASE Parses(Key(c)) /\ UNCHANGED <<route, host>>
      BY <3>2
    <3>3. CASE End(c)
      <4>1. pc' = [pc EXCEPT ![c] = "idle"]
        BY <3>3, Zenon DEF End
      <4> QED
        BY <4>1, Zenon DEF HandlerType
    <3> QED
      BY <1>8, <3>1, <3>2, <3>3, Zenon DEF ProxyFor
  <2>5. \A d \in Handlers : pc'[d] \notin {"idle", "routed"} => Parses(Key(d))'
    BY <2>1, <2>4, Zenon DEF Entries, Parses, Key, KeyOf
  <2> QED
    BY <2>1, <2>2, <2>3, <2>5, Zenon DEF Entries, OneEntryPerApp, Parses
<1>9. ASSUME NEW c \in Handlers, MuxPoolFor(c) PROVE Entries'
  <2>1. /\ pc[c] = "pooling" /\ UNCHANGED <<proxies, route, host>>
        /\ \A d \in Handlers \ {c} : pc'[d] = pc[d]
    BY <1>9, Zenon DEF MuxPoolFor, HandlerType
  <2>2. \A d \in Handlers : pc'[d] \notin {"idle", "routed"} => Parses(Key(d))'
    BY <2>1 DEF Entries, Parses, Key
  <2>3. CASE UNCHANGED <<muxPools, poolKey>>
    BY <2>1, <2>2, <2>3, Zenon DEF Entries, OneEntryPerApp, Parses
  <2>4. CASE \E p \in Pools : /\ FreePool(p)
                              /\ ReplacePools(AppPools(route[c].up, host[c]), {p})
                              /\ poolKey' = [poolKey EXCEPT ![p] = Key(c)]
    <3>1. PICK p \in Pools : /\ FreePool(p)
                             /\ ReplacePools(AppPools(route[c].up, host[c]), {p})
                             /\ poolKey' = [poolKey EXCEPT ![p] = Key(c)]
      BY <2>4, Zenon
    <3>2. muxPools' = (muxPools \ AppPools(route[c].up, host[c])) \cup {p}
      BY <3>1, Zenon DEF ReplacePools
    <3>3. p \notin muxPools /\ poolKey'[p] = Key(c) /\ \A q \in Pools \ {p} : poolKey'[q] = poolKey[q]
      BY <3>1, Zenon DEF FreePool, Entries
    <3>4. \A q \in muxPools' \ {p} : q \in muxPools /\ ~SameApp(poolKey[q], Key(c))
      BY <3>2, Zenon DEF AppPools, SameApp, Key, KeyOf
    <3>5. \A q, r \in muxPools' : SameApp(poolKey'[q], poolKey'[r]) => q = r
      <4>1. \A q \in muxPools' \ {p} : ~SameApp(poolKey'[q], poolKey'[p])
        BY <3>2, <3>3, <3>4 DEF Entries
      <4>2. \A q \in muxPools' \ {p} : ~SameApp(poolKey'[p], poolKey'[q])
        BY <4>1 DEF SameApp
      <4>3. \A q, r \in muxPools' \ {p} : SameApp(poolKey'[q], poolKey'[r]) => q = r
        BY <3>2, <3>3, <3>4, Zenon DEF Entries, OneEntryPerApp
      <4> QED
        BY <4>1, <4>2, <4>3, Zenon
    <3>6. \A q \in muxPools' : Parses(poolKey'[q])
      BY <2>1, <3>2, <3>3, <3>4 DEF Entries
    <3>7. poolKey' \in [Pools -> AppKeys \cup {None}] /\ muxPools' \subseteq Pools
      BY <2>1, <3>1, <3>2, KeyType, Zenon DEF Entries
    <3> QED
      BY <2>1, <2>2, <3>5, <3>6, <3>7, Zenon DEF Entries, OneEntryPerApp, Parses
  <2> QED
    BY <1>9, <2>3, <2>4, Zenon DEF MuxPoolFor
<1> QED
  BY <1>2, <1>3, <1>4, <1>5, <1>6, <1>7, <1>8, <1>9, Zenon DEF Next, Handler

-----------------------------------------------------------------------------
(* The results.  That a pool with no live member is under size is the only *)
(* fact about cardinalities they need.                                     *)
INSTANCE FiniteSetTheorems

\* At each point of a behavior a handler holds what the code there uses.
LEMMA HandlersHold == Spec => []HandlerType
<1>1. Cardinality({}) = 0
  BY FS_EmptySet, Zenon
<1>2. HandlerType /\ [Next]_vars => HandlerType'
  BY <1>1, NextHandlers, Zenon
<1> QED
  BY <1>2, InitHandlers, PTL DEF Spec

\* muxPoolFor and get: a browser socket rides a connection dialed and verified
\* for its own route, however pools and connections are replaced meanwhile.
THEOREM RidesVerified == Spec => []RidesVerifiedConn
<1>1. HandlerType /\ Verified => RidesVerifiedConn
  BY Zenon DEF HandlerType, Verified, RidesVerifiedConn
<1> QED
  BY <1>1, HandlersHold, InitVerified, NextVerified, PTL DEF Spec

\* h.muxMu and p.mu: who holds a lock is in the section that gives it back.
THEOREM NoLockStranded == Spec => []NoLockIsStranded
<1>1. Locks => NoLockIsStranded
  BY Zenon DEF Locks
<1> QED
  BY <1>1, HandlersHold, InitLocks, NextLocks, PTL DEF Spec

\* Forget and muxPoolFor: a pool leaves the map on behalf of its own app only.
THEOREM OtherAppsKeep == Spec => OtherAppsKeepTheirPools
BY HandlersHold, InitLocks, NextLocks, NextDrops, PTL DEF Spec, OtherAppsKeepTheirPools, DropsOwnPools

\* proxyFor and muxPoolFor: two requests for an app never leave it with two
\* proxies or two pools.
THEOREM OneEntry == Spec => []OneEntryPerApp
<1>1. Entries => OneEntryPerApp
  BY DEF Entries
<1> QED
  BY <1>1, HandlersHold, InitEntries, NextEntries, PTL DEF Spec

\* muxPoolFor's fallback to an empty policy is never taken: proxyFor refuses a
\* policy that does not parse before any pool is built for it.
THEOREM PoolsParse == Spec => []PoolPolicyParsed
<1>1. Entries => PoolPolicyParsed
  BY DEF Entries, PoolPolicyParsed, Parses
<1> QED
  BY <1>1, HandlersHold, InitEntries, NextEntries, PTL DEF Spec

=============================================================================
