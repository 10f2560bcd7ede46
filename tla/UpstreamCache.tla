--------------------------- MODULE UpstreamCache ---------------------------
(***************************************************************************)
(* What the terminator caches per app and how a route change empties it    *)
(* (terminate.go proxyFor and Forget, wsmux.go muxPoolFor, get, dial and   *)
(* closeAll): reverse proxies, and pools of mux connections that browser   *)
(* sockets ride.                                                           *)
(*                                                                         *)
(* Handlers copy their route at the lookup and use the copy for the life   *)
(* of the connection, while the updating goroutine swaps the table and     *)
(* calls Forget for each retired route.  Locks: h.mu (each critical        *)
(* section is one step), h.muxMu, held while a stale pool is closed, and   *)
(* the pool's p.mu, held across a dial.                                    *)
(*                                                                         *)
(* A route is an upstream and a policy.  Aliases never reach the           *)
(* terminator, so the upstream name of a route is its host.  A proxy is    *)
(* its key; what it does with a request is left to QuarantineCut.          *)
(***************************************************************************)
EXTENDS Naturals, FiniteSets

CONSTANTS Hosts, Upstreams, Policies,
          BadPolicies,  \* policies parsePolicy rejects
          Tables,       \* route tables the management service may publish
          Handlers,     \* terminated connections, reused when idle
          Pools,        \* gwMuxPool values that may be created
          Conns,        \* gwMuxConn values that may be dialed
          Updater,      \* the goroutine that runs Update
          None

ASSUME BadPoliciesAssumption == BadPolicies \subseteq Policies
ASSUME TablesAssumption == Tables \subseteq [Hosts -> [up : Upstreams, pol : Policies] \cup {None}]
ASSUME UpdaterAssumption == Updater \notin Handlers /\ None \notin Handlers \cup {Updater}

gwMuxPoolSize == 2

VARIABLES
  table,     \* host -> route, or None
  retired,   \* <<host, upstream>> pairs Update has still to Forget
  forgetting,\* the pair whose mux pools Forget is about to close, or None
  proxies,   \* Handler.proxies: keys
  muxPools,  \* Handler.muxPools: pools in the map
  poolKey,   \* the key each pool was built for, None if not created
  members,   \* gwMuxPool.conns
  muxMu,     \* holder of h.muxMu
  poolMu,    \* holder of each p.mu
  dead,      \* connections that were killed
  dialed,    \* the key each connection was dialed and verified for
  pc, route, host, pool, conn   \* per handler

handlerVars == <<pc, route, host, pool, conn>>
poolVars == <<muxPools, poolKey, members, muxMu, poolMu>>
vars == <<table, retired, forgetting, proxies, poolVars, dead, dialed, handlerVars>>

Routes == [up : Upstreams, pol : Policies]
AppKeys == [up : Upstreams, host : Hosts, pol : Policies]

ASSUME NoneAssumption == None \notin AppKeys \cup Routes \cup Pools \cup Conns \cup Hosts

KeyOf(h, r) == [up |-> r.up, host |-> h, pol |-> r.pol]

\* Two keys with the same "upstream|name|" prefix.
SameApp(k, l) == k.up = l.up /\ k.host = l.host

TypeOK ==
  /\ table \in [Hosts -> Routes \cup {None}]
  /\ retired \in SUBSET (Hosts \X Upstreams)
  /\ forgetting \in (Hosts \X Upstreams) \cup {None}
  /\ proxies \in SUBSET AppKeys
  /\ muxPools \in SUBSET Pools
  /\ poolKey \in [Pools -> AppKeys \cup {None}]
  /\ members \in [Pools -> SUBSET Conns]
  /\ muxMu \in Handlers \cup {Updater, None}
  /\ poolMu \in [Pools -> Handlers \cup {None}]
  /\ dead \in SUBSET Conns
  /\ dialed \in [Conns -> AppKeys \cup {None}]
  /\ pc \in [Handlers -> {"idle", "routed", "ready", "pooling", "pooled",
                          "dialing", "joining", "riding"}]
  /\ route \in [Handlers -> Routes \cup {None}]
  /\ host \in [Handlers -> Hosts \cup {None}]
  /\ pool \in [Handlers -> Pools \cup {None}]
  /\ conn \in [Handlers -> Conns \cup {None}]

Init ==
  /\ table = [h \in Hosts |-> None]
  /\ retired = {}
  /\ forgetting = None
  /\ proxies = {}
  /\ muxPools = {}
  /\ poolKey = [p \in Pools |-> None]
  /\ members = [p \in Pools |-> {}]
  /\ muxMu = None
  /\ poolMu = [p \in Pools |-> None]
  /\ dead = {}
  /\ dialed = [m \in Conns |-> None]
  /\ pc = [c \in Handlers |-> "idle"]
  /\ route = [c \in Handlers |-> None]
  /\ host = [c \in Handlers |-> None]
  /\ pool = [c \in Handlers |-> None]
  /\ conn = [c \in Handlers |-> None]

Key(c) == KeyOf(host[c], route[c])
Goto(c, l) == pc' = [pc EXCEPT ![c] = l]

\* The connection of handler c ends.
End(c) ==
  /\ Goto(c, "idle")
  /\ route' = [route EXCEPT ![c] = None]
  /\ host' = [host EXCEPT ![c] = None]
  /\ pool' = [pool EXCEPT ![c] = None]
  /\ conn' = [conn EXCEPT ![c] = None]

-----------------------------------------------------------------------------
(* Update and Forget.                                                      *)

\* The hosts whose old route OnRetired is called with: gone, or pointing at
\* another upstream, or with another mode or proxy flag (others: fields this
\* model leaves out).
Retired(new, others) ==
  {h \in Hosts : table[h] # None /\ \/ new[h] = None
                                    \/ new[h] # None /\ new[h].up # table[h].up
                                    \/ h \in others}

Update(new, others) ==
  /\ retired = {} /\ forgetting = None
  /\ table' = new
  /\ retired' = {<<h, table[h].up>> : h \in Retired(new, others)}
  /\ UNCHANGED <<forgetting, proxies, poolVars, dead, dialed, handlerVars>>

IsApp(k, app) == k.host = app[1] /\ k.up = app[2]

\* Forget, first half: the app's proxies, under h.mu.
ForgetProxies(app) ==
  /\ app \in retired /\ forgetting = None
  /\ retired' = retired \ {app}
  /\ forgetting' = app
  /\ proxies' = {k \in proxies : ~IsApp(k, app)}
  /\ UNCHANGED <<table, poolVars, dead, dialed, handlerVars>>

\* A wrong AppPools: every pool of the upstream.
UpstreamPools(up, h) == {p \in muxPools : poolKey[p].up = up}

\* The cached pools of an app.
AppPools(up, h) == {p \in muxPools : poolKey[p].up = up /\ poolKey[p].host = h}

\* closeAll of every pool of ps and their removal from the map, which then
\* gains the pools of fresh.  Each p.mu must be free.  kill finishes every
\* stream on a connection.
ReplacePools(ps, fresh) ==
  /\ \A p \in ps : poolMu[p] = None
  /\ muxPools' = (muxPools \ ps) \cup fresh
  /\ members' = [p \in Pools |-> IF p \in ps \cup fresh THEN {} ELSE members[p]]
  /\ dead' = dead \cup UNION {members[p] : p \in ps}

LockForget ==
  /\ forgetting # None
  /\ muxMu = None
  /\ muxMu' = Updater
  /\ UNCHANGED <<table, retired, forgetting, proxies, muxPools, poolKey, members,
                 poolMu, dead, dialed, handlerVars>>

\* Forget, second half: the app's mux pools, under muxMu.
ForgetPools ==
  /\ muxMu = Updater
  /\ ReplacePools(AppPools(forgetting[2], forgetting[1]), {})
  /\ muxMu' = None
  /\ forgetting' = None
  /\ UNCHANGED <<table, retired, proxies, poolKey, poolMu, dialed, handlerVars>>

-----------------------------------------------------------------------------
(* A terminated connection.                                                *)

Lookup(c, h) ==
  /\ pc[c] = "idle"
  /\ table[h] # None
  /\ host' = [host EXCEPT ![c] = h]
  /\ route' = [route EXCEPT ![c] = table[h]]
  /\ Goto(c, "routed")
  /\ UNCHANGED <<table, retired, forgetting, proxies, poolVars, dead, dialed, pool, conn>>

\* A wrong Parses: any policy will do.
ParsesAnything(k) == TRUE

\* parsePolicy accepts the policy of the key.
Parses(k) == k.pol \notin BadPolicies

\* A wrong Kept: entries under other policies stay.
KeepAll(k) == proxies

\* The entries of other apps.
Kept(k) == {l \in proxies : ~SameApp(k, l)}

\* proxyFor: a hit, or a new entry in place of the app's other ones.  The
\* others are dropped before the policy is parsed.
ProxyFor(c) ==
  /\ pc[c] = "routed"
  /\ LET k == Key(c)
     IN \/ /\ k \in proxies
           /\ UNCHANGED proxies
           /\ Goto(c, "ready")
           /\ UNCHANGED <<route, host, pool, conn>>
        \/ /\ k \notin proxies /\ Parses(k)
           /\ proxies' = Kept(k) \cup {k}
           /\ Goto(c, "ready")
           /\ UNCHANGED <<route, host, pool, conn>>
        \/ /\ k \notin proxies /\ ~Parses(k)
           /\ proxies' = Kept(k)
           /\ End(c)
  /\ UNCHANGED <<table, retired, forgetting, poolVars, dead, dialed>>

\* A pool nobody refers to any more, whose value may be used again.
FreePool(p) == p \notin muxPools /\ \A c \in Handlers : pool[c] # p

\* muxPoolFor takes muxMu when a sealed WebSocket arrives.  The bound on
\* pools is here.
LockPools(c) ==
  /\ pc[c] = "ready"
  /\ muxMu = None
  /\ \E p \in Pools : FreePool(p)
  /\ muxMu' = c
  /\ Goto(c, "pooling")
  /\ UNCHANGED <<table, retired, forgetting, proxies, muxPools, poolKey, members,
                 poolMu, dead, dialed, route, host, pool, conn>>

\* A wrong CachedPool: any pool of the host is a hit.
HostPool(c) == {p \in muxPools : poolKey[p].host = host[c]}

CachedPool(c) == {p \in muxPools : poolKey[p] = Key(c)}

\* muxPoolFor under muxMu: the cached pool for the key, or a new one once
\* the app's pools under other policies are closed.
MuxPoolFor(c) ==
  /\ pc[c] = "pooling"
  /\ \/ /\ CachedPool(c) # {}
        /\ \E p \in CachedPool(c) : pool' = [pool EXCEPT ![c] = p]
        /\ UNCHANGED <<muxPools, poolKey, members, dead>>
     \/ /\ CachedPool(c) = {}
        /\ \E p \in {q \in Pools : FreePool(q)} :
             /\ ReplacePools(AppPools(route[c].up, host[c]), {p})
             /\ poolKey' = [poolKey EXCEPT ![p] = Key(c)]
             /\ pool' = [pool EXCEPT ![c] = p]
  /\ muxMu' = None
  /\ Goto(c, "pooled")
  /\ UNCHANGED <<table, retired, forgetting, proxies, poolMu, dialed, route, host, conn>>

\* Streams registered on a connection.
Load(m) == Cardinality({d \in Handlers : pc[d] = "riding" /\ conn[d] = m})
Live(p) == members[p] \ dead
LeastLoaded(ms) == {m \in ms : \A n \in ms : Load(m) <= Load(n)}

\* get, under p.mu: dead members are pruned; another is dialed while the
\* pool is under size and its best member carries streams.
NeedsDial(p) ==
  /\ Cardinality(Live(p)) < gwMuxPoolSize
  /\ \A m \in Live(p) : Load(m) > 0

Best(p) == IF Live(p) = {} THEN {None} ELSE LeastLoaded(Live(p))

Get(c) ==
  /\ pc[c] = "pooled"
  /\ LET p == pool[c]
     IN /\ poolMu[p] = None
        /\ members' = [members EXCEPT ![p] = Live(p)]
        /\ \E m \in Best(p) : conn' = [conn EXCEPT ![c] = m]
        /\ \/ /\ NeedsDial(p)
              /\ poolMu' = [poolMu EXCEPT ![p] = c]
              /\ Goto(c, "dialing")
           \/ /\ ~NeedsDial(p)
              /\ Goto(c, "joining")
              /\ UNCHANGED poolMu
  /\ UNCHANGED <<table, retired, forgetting, proxies, muxPools, poolKey, muxMu,
                 dead, dialed, route, host, pool>>

\* A connection value that was never used, or that nobody refers to.
FreeConn(m) ==
  \/ dialed[m] = None
  \/ /\ m \in dead
     /\ \A c \in Handlers : conn[c] # m
     /\ \A p \in Pools : FreePool(p) \/ m \notin members[p]

\* A wrong UnlockPool: a dial returns with p.mu held.
LeaveLocked(p) == UNCHANGED poolMu

UnlockPool(p) == poolMu' = [poolMu EXCEPT ![p] = None]

\* The dial ends with p.mu still held: a new member, or the best one known
\* before it, or nothing.
DialDone(c) ==
  /\ pc[c] = "dialing"
  /\ UnlockPool(pool[c])
  /\ \/ \E m \in {n \in Conns : FreeConn(n)} :
          /\ dead' = dead \ {m}
          /\ dialed' = [dialed EXCEPT ![m] = poolKey[pool[c]]]
          /\ members' = [members EXCEPT ![pool[c]] = @ \cup {m}]
          /\ conn' = [conn EXCEPT ![c] = m]
          /\ Goto(c, "joining")
          /\ UNCHANGED <<route, host, pool>>
     \/ /\ conn[c] # None
        /\ Goto(c, "joining")
        /\ UNCHANGED <<dialed, members, dead, route, host, pool, conn>>
     \/ /\ conn[c] = None
        /\ End(c)
        /\ UNCHANGED <<dialed, members, dead>>
  /\ UNCHANGED <<table, retired, forgetting, proxies, muxPools, poolKey, muxMu>>

\* The browser socket is accepted and its stream opened.  On a connection
\* that died meanwhile the OPEN fails and the handler returns.
Join(c) ==
  /\ pc[c] = "joining"
  /\ \/ /\ conn[c] \notin dead
        /\ Goto(c, "riding")
        /\ UNCHANGED <<route, host, pool, conn>>
     \/ End(c)
  /\ UNCHANGED <<table, retired, forgetting, proxies, poolVars, dead, dialed>>

\* The client leaves, or its mux connection was killed.
Leave(c) ==
  /\ pc[c] \in {"ready", "riding"}
  /\ End(c)
  /\ UNCHANGED <<table, retired, forgetting, proxies, poolVars, dead, dialed>>

\* readLoop or keepalive kills a connection it lost.
LoseConn(m) ==
  /\ dialed[m] # None /\ m \notin dead
  /\ dead' = dead \cup {m}
  /\ UNCHANGED <<table, retired, forgetting, proxies, poolVars, dialed, handlerVars>>

-----------------------------------------------------------------------------
Handler(c) ==
  \/ \E h \in Hosts : Lookup(c, h)
  \/ ProxyFor(c) \/ LockPools(c) \/ MuxPoolFor(c) \/ Get(c) \/ DialDone(c)
  \/ Join(c) \/ Leave(c)

ForgetStep ==
  \/ \E app \in Hosts \X Upstreams : ForgetProxies(app)
  \/ LockForget
  \/ ForgetPools

Next ==
  \/ \E new \in Tables, others \in SUBSET Hosts : Update(new, others)
  \/ ForgetStep
  \/ \E c \in Handlers : Handler(c)
  \/ \E m \in Conns : LoseConn(m)

Spec == Init /\ [][Next]_vars

-----------------------------------------------------------------------------
(* Properties.                                                             *)

\* However lookups, policy changes and retirements interleave, an app has at
\* most one proxy and one mux pool: an entry is replaced, never doubled.
OneEntryPerApp ==
  /\ \A k, l \in proxies : SameApp(k, l) => k = l
  /\ \A p, q \in muxPools : SameApp(poolKey[p], poolKey[q]) => p = q

\* A browser socket only ever rides a connection that was dialed to the
\* upstream, and verified against the name and the policy, of the route its
\* handler holds.
RidesVerifiedConn ==
  \A c \in Handlers :
    pc[c] \in {"joining", "riding"} => dialed[conn[c]] = Key(c)

\* muxPoolFor falls back to an empty policy when the policy does not parse.
\* No pool is ever built that way: proxyFor has refused the route before.
PoolPolicyParsed ==
  \A p \in muxPools : poolKey[p].pol \notin BadPolicies

\* Apps that share a mutualised upstream keep their pools when one of them
\* changes policy or is retired: a pool leaves the map only on behalf of its
\* own app.
OtherAppsKeepTheirPools ==
  [][\A p \in muxPools \ muxPools' :
       \/ muxMu = Updater /\ IsApp(poolKey[p], forgetting)
       \/ muxMu \in Handlers /\ SameApp(poolKey[p], Key(muxMu))]_vars

\* The updating goroutine and the sockets are never stuck behind a lock: who
\* holds muxMu is in the section that releases it and waits for a p.mu at
\* most, and who holds a p.mu is in a dial, which waits for no lock and ends
\* by its timeout.
NoLockIsStranded ==
  /\ muxMu = Updater => forgetting # None
  /\ muxMu \in Handlers => pc[muxMu] = "pooling"
  /\ \A p \in Pools : LET c == poolMu[p]
                      IN c # None => pc[c] = "dialing" /\ pool[c] = p

=============================================================================
