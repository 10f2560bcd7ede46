----------------------------- MODULE RouteSync -----------------------------
(***************************************************************************)
(* The route table and the loop that keeps it in step with the management  *)
(* service (sync/sync.go, routetable/table.go, health/health.go).          *)
(*                                                                         *)
(* The service is external: it answers with the feed it has at that        *)
(* moment, or with 304 when the request names the version of that feed.    *)
(* Its version, when it sends one, changes with the routes.  An answer can *)
(* be lost, late, an error, or not decode.                                 *)
(***************************************************************************)
EXTENDS Naturals, Sequences, FiniteSets

CONSTANTS Hosts,      \* hostnames
          Feeds,      \* sequences of routes the service may publish
          NoVersion   \* the empty version string

ASSUME FeedsAssumption == Feeds # {} /\ NoVersion \notin Feeds
ASSUME HostsAssumption == \A f \in Feeds : \A i \in DOMAIN f : f[i].sni \in Hosts

\* sort.Slice keeps the rows of one host in order in a slice of at most 12
\* routes (it sorts by insertion); a longer feed has one row for each host.
ASSUME RowsAssumption ==
  \A f \in Feeds :
    /\ Len(f) \in Nat /\ DOMAIN f = 1..Len(f)
    /\ Len(f) <= 12 \/ \A i, j \in DOMAIN f : f[i].sni = f[j].sni => i = j

VARIABLES
  versioned,  \* the service sends a version with its routes
  feed,       \* what the service publishes now
  table,      \* Table.routes: a partial function from hosts to routes
  version,    \* Table.version
  pc,         \* fetchOnce: "sleep", "asked", "answered", "hooks"
  asked,      \* the version in If-None-Match
  answer,     \* the answer in hand
  toCut,      \* hosts Update has still to call onQuarantine for
  toRetire,   \* routes Update has still to call onRetired with
  announced,  \* history: quarantined hosts that were active just before
  lastSync,   \* lastSync is set
  lastErr,    \* lastErr is set
  described   \* history: the feed the last successful answer described

serviceVars == <<versioned, feed>>
tableVars == <<table, version, toCut, toRetire, announced>>
syncVars == <<lastSync, lastErr, described>>
vars == <<serviceVars, tableVars, pc, asked, answer, syncVars>>

Quarantined(r) == r.state = "quarantined"
IsAlias(r) == r.canonical # "" /\ r.canonical # r.sni
UpstreamName(r) == IF IsAlias(r) THEN r.canonical ELSE r.sni

\* The rows of a host, by their position and as the sequence they form.
Rows(routes, h) == {i \in DOMAIN routes : routes[i].sni = h}

Mine(routes, h) ==
  LET rows == Rows(routes, h)
      Nth(k) == CHOOSE i \in rows : Cardinality({j \in rows : j <= i}) = k
  IN [k \in 1..Cardinality(rows) |-> routes[Nth(k)]]

\* The map Update builds: the last route of a host wins.
TableOf(routes) ==
  [h \in {routes[i].sni : i \in DOMAIN routes} |->
     Mine(routes, h)[Cardinality(Rows(routes, h))]]

\* A wrong Fields: the state does not enter the hash.
FieldsWithoutState(r) == <<r.up, r.pol>>

Fields(r) == <<r.up, r.pol, r.state>>

\* What ComputeVersion hashes, host by host: the order of different hosts
\* does not matter, and neither does any other field.
ComputeVersion(routes) ==
  [h \in Hosts |-> [k \in 1..Cardinality(Rows(routes, h)) |-> Fields(Mine(routes, h)[k])]]

\* A digest is never the empty string.
ASSUME DigestAssumption == \A f \in Feeds : ComputeVersion(f) # NoVersion

\* The version the service gives its feed.
ServiceVersion(f) == IF versioned THEN f ELSE NoVersion

Init ==
  /\ versioned \in BOOLEAN
  /\ feed \in Feeds
  /\ table = << >>
  /\ version = NoVersion
  /\ pc = "sleep"
  /\ asked = NoVersion
  /\ answer = << >>
  /\ toCut = {}
  /\ toRetire = {}
  /\ announced = {}
  /\ lastSync = FALSE
  /\ lastErr = FALSE
  /\ described = << >>

-----------------------------------------------------------------------------
Publish(f) ==
  /\ f # feed
  /\ feed' = f
  /\ UNCHANGED <<versioned, tableVars, pc, asked, answer, syncVars>>

\* The ticker: fetchOnce sends its request with the version of the table.
FetchOnce ==
  /\ pc = "sleep"
  /\ pc' = "asked"
  /\ asked' = version
  /\ UNCHANGED <<serviceVars, tableVars, answer, syncVars>>

\* Wrong AfterErrors: a failed sync counts as one, or ends the loop.
CountAsSync == pc' = "sleep" /\ lastSync' = TRUE
StopLoop == pc' = "stopped" /\ UNCHANGED lastSync

AfterError == pc' = "sleep" /\ UNCHANGED lastSync

\* The request fails, the status is an error, or the body does not decode.
RecordError ==
  /\ pc = "asked"
  /\ AfterError
  /\ asked' = NoVersion
  /\ lastErr' = TRUE
  /\ UNCHANGED <<serviceVars, tableVars, answer, described>>

NotModified ==
  /\ pc = "asked"
  /\ asked # NoVersion /\ asked = ServiceVersion(feed)
  /\ pc' = "sleep"
  /\ asked' = NoVersion
  /\ lastSync' = TRUE
  /\ lastErr' = FALSE
  /\ described' = feed
  /\ UNCHANGED <<serviceVars, tableVars, answer>>

\* 200 with the routes of this moment.
Answer ==
  /\ pc = "asked"
  /\ asked = NoVersion \/ asked # ServiceVersion(feed)
  /\ pc' = "answered"
  /\ asked' = NoVersion
  /\ answer' = feed
  /\ UNCHANGED <<serviceVars, tableVars, syncVars>>

\* The version of an answer that carries none is computed here.
AnswerVersion(routes) ==
  IF ServiceVersion(routes) = NoVersion THEN ComputeVersion(routes)
  ELSE ServiceVersion(routes)

\* A wrong NewlyQuarantined: hosts that were quarantined before count too.
AllQuarantined(prev, new) == {h \in DOMAIN new : Quarantined(new[h])}

\* The hosts and routes Update's hooks are called for.
NewlyQuarantined(prev, new) ==
  {h \in DOMAIN new : Quarantined(new[h]) /\ h \in DOMAIN prev /\ ~Quarantined(prev[h])}

Retired(prev, new) ==
  {prev[h] : h \in {g \in DOMAIN prev :
     \/ g \notin DOMAIN new
     \/ new[g].up # prev[g].up
     \/ UpstreamName(new[g]) # UpstreamName(prev[g])
     \/ new[g].mode # prev[g].mode
     \/ new[g].pp # prev[g].pp}}

\* Update: nothing if the version is the table's, else the swap; the hooks
\* follow on the same goroutine.
Update ==
  /\ pc = "answered"
  /\ pc' = "hooks"
  /\ IF version = AnswerVersion(answer)
     THEN UNCHANGED tableVars
     ELSE LET new == TableOf(answer)
          IN /\ table' = new
             /\ version' = AnswerVersion(answer)
             /\ toCut' = NewlyQuarantined(table, new)
             /\ toRetire' = Retired(table, new)
             /\ announced' = {h \in DOMAIN new : /\ Quarantined(new[h])
                                                 /\ h \in DOMAIN table
                                                 /\ ~Quarantined(table[h]) \/ h \in announced}
  /\ UNCHANGED <<serviceVars, asked, answer, syncVars>>

CallOnQuarantine(h) ==
  /\ pc = "hooks"
  /\ h \in toCut
  /\ toCut' = toCut \ {h}
  /\ UNCHANGED <<serviceVars, table, version, toRetire, announced, pc, asked, answer, syncVars>>

\* Every onQuarantine call comes before the first onRetired call.
CallOnRetired(old) ==
  /\ pc = "hooks" /\ toCut = {}
  /\ old \in toRetire
  /\ toRetire' = toRetire \ {old}
  /\ UNCHANGED <<serviceVars, table, version, toCut, announced, pc, asked, answer, syncVars>>

\* Update has returned: fetchOnce records the sync.
Synced ==
  /\ pc = "hooks" /\ toCut = {} /\ toRetire = {}
  /\ pc' = "sleep"
  /\ lastSync' = TRUE
  /\ lastErr' = FALSE
  /\ described' = answer
  /\ answer' = << >>
  /\ UNCHANGED <<serviceVars, tableVars, asked>>

Hooks ==
  \/ \E h \in Hosts : CallOnQuarantine(h)
  \/ \E old \in toRetire : CallOnRetired(old)
  \/ Synced

Next ==
  \/ \E f \in Feeds : Publish(f)
  \/ FetchOnce \/ RecordError \/ NotModified \/ Answer \/ Update
  \/ Hooks

Spec == Init /\ [][Next]_vars

\* The loop runs on, and of infinitely many requests some are answered.
Fairness ==
  /\ WF_vars(FetchOnce) /\ WF_vars(Update) /\ WF_vars(Hooks)
  /\ SF_vars(NotModified \/ Answer)

FairSpec == Spec /\ Fairness

-----------------------------------------------------------------------------
(* Properties.                                                             *)

\* /readyz answers 200 once lastSync is set.
Ready == lastSync

TypeOK ==
  /\ feed \in Feeds
  /\ DOMAIN table \subseteq Hosts
  /\ \A h \in DOMAIN table : table[h].sni = h
  /\ pc \in {"sleep", "asked", "answered", "hooks"}
  /\ toCut \subseteq DOMAIN table
  /\ announced \subseteq DOMAIN table
  /\ lastSync \in BOOLEAN /\ lastErr \in BOOLEAN

\* The table holds the routes of a feed.  Without a version of the service
\* Update tells two feeds apart by what ComputeVersion hashes, so a change of
\* mode, canonical name or proxy_protocol alone is not applied.
Hashed(t) == [h \in DOMAIN t |-> <<t[h].up, t[h].pol, t[h].state>>]
Holds(f) == IF versioned THEN table = TableOf(f) ELSE Hashed(table) = Hashed(TableOf(f))

\* A sync that reports success leaves the routes of the feed it was answered
\* with in the table: neither 304 nor an equal version ever hides a change,
\* except of the fields a computed version leaves out.
SyncedTableIsFeed ==
  pc = "sleep" /\ lastSync /\ ~lastErr => Holds(described)

\* The gateway reports ready only with a table it was given: a 304 cannot
\* come before the first full answer, and errors never make it ready.
ReadyMeansRouted == Ready => version # NoVersion

\* Once the service stops changing its routes, the table settles on them,
\* whatever was lost or went wrong on the way.
TableConverges ==
  \A f \in Feeds : <>[](feed = f) => <>[]Holds(f)

\* Seen through the state of each route, Update with its maps, duplicate
\* hosts and versions does what QuarantineCut takes it to do.
StateOf(h) == IF h \notin DOMAIN table THEN "absent"
              ELSE IF Quarantined(table[h]) THEN "quarantined" ELSE "active"

Core == INSTANCE QuarantineCut
          WITH Conns <- {}, MaxTracked <- 0,
               table <- [h \in Hosts |-> StateOf(h)],
               hosts <- [h \in Hosts |-> {}], next <- 0, closing <- {}, cut <- {},
               pc <- << >>, host <- << >>, route <- << >>, entry <- << >>

ImplementsCore == Core!Spec

=============================================================================
