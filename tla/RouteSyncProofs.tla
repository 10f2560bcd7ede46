-------------------------- MODULE RouteSyncProofs --------------------------
(* For any feeds and hosts: the gateway is ready only with a table it was  *)
(* given, a sync that succeeds leaves the feed it was answered with in the *)
(* table, and Update implements the table of QuarantineCut.                *)
EXTENDS RouteSync, TLAPS

Fetching ==
  /\ feed \in Feeds
  /\ pc \in {"answered", "hooks"} => answer \in Feeds
  /\ pc # "hooks" => toCut = {}
  /\ pc = "asked" => asked = version
  /\ pc = "hooks" \/ lastSync => version # NoVersion
  /\ DOMAIN table \subseteq Hosts

\* fetchOnce never hands Update an empty version.
LEMMA AnswerHasVersion == \A f \in Feeds : AnswerVersion(f) # NoVersion
BY FeedsAssumption, DigestAssumption DEF AnswerVersion, ServiceVersion

\* The map Update builds has the feed's hosts for keys.
LEMMA TableHosts == \A f \in Feeds : DOMAIN TableOf(f) \subseteq Hosts
<1> TAKE f \in Feeds
<1>1. DOMAIN TableOf(f) = {f[i].sni : i \in DOMAIN f}
  BY DEF TableOf
<1> QED
  BY <1>1, HostsAssumption

\* The gateway starts with an empty table and no sync under way.
LEMMA InitFetching == Init => Fetching
<1> SUFFICES ASSUME Init PROVE Fetching
  OBVIOUS
<1>1. DOMAIN table = {}
  BY DEF Init
<1> QED
  BY <1>1 DEF Init, Fetching

\* A request carries the version of the table it is about, and a sync that
\* succeeded has given the table a version.
LEMMA NextFetching == Fetching /\ [Next]_vars => Fetching'
<1> SUFFICES ASSUME Fetching, [Next]_vars PROVE Fetching'
  OBVIOUS
<1> USE DEF Fetching, serviceVars, tableVars, syncVars
<1>1. CASE UNCHANGED vars
  BY <1>1 DEF vars
<1>2. ASSUME NEW f \in Feeds, Publish(f) PROVE Fetching'
  BY <1>2 DEF Publish
<1>3. CASE FetchOnce
  BY <1>3 DEF FetchOnce
<1>4. CASE RecordError
  BY <1>4 DEF RecordError, AfterError
<1>5. CASE NotModified
  BY <1>5 DEF NotModified
<1>6. CASE Answer
  BY <1>6 DEF Answer
<1>7. CASE Update
  <2>1. version' # NoVersion
    BY <1>7, AnswerHasVersion DEF Update
  <2>2. DOMAIN table' \subseteq Hosts
    BY <1>7, TableHosts DEF Update
  <2> QED
    BY <1>7, <2>1, <2>2 DEF Update
<1>8. CASE Hooks
  BY <1>8 DEF Hooks, CallOnQuarantine, CallOnRetired, Synced
<1> QED
  BY <1>1, <1>2, <1>3, <1>4, <1>5, <1>6, <1>7, <1>8 DEF Next

\* fetchOnce: no error and no 304 makes the gateway ready before a full answer.
THEOREM ReadyIsRouted == Spec => []ReadyMeansRouted
<1>1. Fetching => ReadyMeansRouted
  BY DEF Fetching, ReadyMeansRouted, Ready
<1> QED
  BY <1>1, InitFetching, NextFetching, PTL DEF Spec

-----------------------------------------------------------------------------
(* A successful sync.                                                      *)
INSTANCE FiniteSetTheorems

\* The version in the table is that of the routes in it, and once Update has
\* returned it is the version of the answer.
Current ==
  /\ version # NoVersion => \E g \in Feeds : version = AnswerVersion(g) /\ table = TableOf(g)
  /\ pc = "hooks" => version = AnswerVersion(answer)
  /\ SyncedTableIsFeed

\* The rows of a host can be counted, and a host without rows is not a key.
LEMMA RowsCounted ==
  ASSUME NEW f \in Feeds, NEW h \in Hosts
  PROVE  /\ Cardinality(Rows(f, h)) \in Nat
         /\ h \in DOMAIN TableOf(f) <=> Cardinality(Rows(f, h)) # 0
<1>1. IsFiniteSet(DOMAIN f)
  BY RowsAssumption, FS_Interval
<1>2. Rows(f, h) \subseteq DOMAIN f
  BY DEF Rows
<1>3. IsFiniteSet(Rows(f, h))
  BY <1>1, <1>2, FS_Subset
<1>4. Cardinality(Rows(f, h)) \in Nat
  BY <1>3, FS_CardinalityType
<1>5. Cardinality(Rows(f, h)) = 0 <=> Rows(f, h) = {}
  BY <1>3, FS_EmptySet
<1>6. h \in DOMAIN TableOf(f) <=> Rows(f, h) # {}
  BY DEF TableOf, Rows
<1> QED
  BY <1>4, <1>5, <1>6

\* ComputeVersion fixes how many rows a host has and what the last one says.
LEMMA SameRows ==
  ASSUME NEW f \in Feeds, NEW g \in Feeds, NEW h \in Hosts,
         ComputeVersion(f) = ComputeVersion(g)
  PROVE  /\ h \in DOMAIN TableOf(f) <=> h \in DOMAIN TableOf(g)
         /\ h \in DOMAIN TableOf(f) => Fields(TableOf(f)[h]) = Fields(TableOf(g)[h])
<1> DEFINE n == Cardinality(Rows(f, h))
           m == Cardinality(Rows(g, h))
           ofF == [k \in 1..n |-> Fields(Mine(f, h)[k])]
           ofG == [k \in 1..m |-> Fields(Mine(g, h)[k])]
<1>1. n \in Nat /\ m \in Nat
  BY RowsCounted
<1>2. ofF = ofG
  BY DEF ComputeVersion
<1>3. DOMAIN ofF = 1..n /\ DOMAIN ofG = 1..m
  OBVIOUS
<1>4. \A k \in 1..n : ofF[k] = Fields(Mine(f, h)[k])
  OBVIOUS
<1>5. \A k \in 1..m : ofG[k] = Fields(Mine(g, h)[k])
  OBVIOUS
<1>6. /\ h \in DOMAIN TableOf(f) <=> n # 0
      /\ h \in DOMAIN TableOf(g) <=> m # 0
  BY RowsCounted
<1>7. /\ h \in DOMAIN TableOf(f) => TableOf(f)[h] = Mine(f, h)[n]
      /\ h \in DOMAIN TableOf(g) => TableOf(g)[h] = Mine(g, h)[m]
  BY DEF TableOf
<1> HIDE DEF n, m, ofF, ofG
<1>8. n = m
  BY <1>1, <1>2, <1>3
<1>9. n # 0 => n \in 1..n
  BY <1>1
<1> QED
  BY <1>2, <1>4, <1>5, <1>6, <1>7, <1>8, <1>9

\* Two feeds of one computed version build tables that differ at most in the
\* fields ComputeVersion leaves out.
LEMMA SameHashed ==
  ASSUME NEW f \in Feeds, NEW g \in Feeds, ComputeVersion(f) = ComputeVersion(g)
  PROVE  Hashed(TableOf(f)) = Hashed(TableOf(g))
<1>1. DOMAIN TableOf(f) = DOMAIN TableOf(g)
  BY SameRows, TableHosts
<1>2. \A h \in DOMAIN TableOf(f) : Fields(TableOf(f)[h]) = Fields(TableOf(g)[h])
  BY SameRows, TableHosts
<1>3. \A h \in DOMAIN TableOf(f) :
        <<TableOf(f)[h].up, TableOf(f)[h].pol, TableOf(f)[h].state>>
          = <<TableOf(g)[h].up, TableOf(g)[h].pol, TableOf(g)[h].state>>
  BY <1>2 DEF Fields
<1> QED
  BY <1>1, <1>3 DEF Hashed

\* Equal versions stand for the same routes: the table of the version in it
\* holds the feed.
LEMMA VersionHolds ==
  ASSUME Current, NEW f \in Feeds, version = AnswerVersion(f)
  PROVE  Holds(f)
<1>1. PICK g \in Feeds : version = AnswerVersion(g) /\ table = TableOf(g)
  BY AnswerHasVersion DEF Current
<1>2. CASE versioned
  BY <1>1, <1>2, FeedsAssumption DEF AnswerVersion, ServiceVersion, Holds
<1>3. CASE ~versioned
  <2>1. ComputeVersion(f) = ComputeVersion(g)
    BY <1>1, <1>3 DEF AnswerVersion, ServiceVersion
  <2> QED
    BY <1>1, <1>3, <2>1, SameHashed DEF Holds
<1> QED
  BY <1>2, <1>3

\* The gateway starts without a version and without a sync.
LEMMA InitCurrent == Init => Current
BY DEF Init, Current, SyncedTableIsFeed

\* Only Update writes the table, with its version; only a 304 for that version
\* and the end of Update report a success.
LEMMA NextCurrent == Fetching /\ Current /\ [Next]_vars => Current'
<1> SUFFICES ASSUME Fetching, Current, [Next]_vars PROVE Current'
  OBVIOUS
<1> DEFINE Known == version # NoVersion =>
                      \E g \in Feeds : version = AnswerVersion(g) /\ table = TableOf(g)
<1>1. UNCHANGED versioned
  BY DEF Next, vars, serviceVars, Publish, FetchOnce, RecordError, NotModified, Answer, Update,
         Hooks, CallOnQuarantine, CallOnRetired, Synced
<1>2. \A f : AnswerVersion(f)' = AnswerVersion(f)
  BY <1>1 DEF AnswerVersion, ServiceVersion
<1>3. \A f : UNCHANGED table => (Holds(f)' <=> Holds(f))
  BY <1>1 DEF Holds
<1>4. UNCHANGED <<table, version>> => Known'
  BY <1>2 DEF Current
<1>5. \A f \in Feeds : version = AnswerVersion(f) => Holds(f)
  BY VersionHolds
<1> HIDE DEF Known
<1> USE DEF serviceVars, tableVars, syncVars
<1>6. CASE UNCHANGED vars
  BY <1>4, <1>3, <1>6 DEF vars, Current, Known, SyncedTableIsFeed, AnswerVersion, ServiceVersion
<1>7. ASSUME NEW f \in Feeds, Publish(f) PROVE Current'
  BY <1>4, <1>3, <1>7 DEF Publish, Current, Known, SyncedTableIsFeed, AnswerVersion, ServiceVersion
<1>8. CASE FetchOnce
  BY <1>4, <1>8 DEF FetchOnce, Current, Known, SyncedTableIsFeed
<1>9. CASE RecordError
  BY <1>4, <1>9 DEF RecordError, AfterError, Current, Known, SyncedTableIsFeed
<1>10. CASE NotModified
  <2>1. feed \in Feeds /\ version = AnswerVersion(feed)
    BY <1>10 DEF NotModified, Fetching, AnswerVersion
  <2>2. Holds(feed)'
    BY <1>10, <1>1, <1>5, <2>1 DEF NotModified, Holds
  <2> QED
    BY <1>4, <1>10, <2>2 DEF NotModified, Current, Known, SyncedTableIsFeed, Holds
<1>11. CASE Answer
  BY <1>4, <1>11 DEF Answer, Current, Known, SyncedTableIsFeed
<1>12. CASE Update
  <2>1. pc' = "hooks" /\ UNCHANGED answer /\ answer \in Feeds
    BY <1>12 DEF Update, Fetching
  <2>2. version' = AnswerVersion(answer)
    BY <1>12 DEF Update
  <2>3. version = AnswerVersion(answer) \/ table' = TableOf(answer)
    BY <1>12 DEF Update
  <2>4. version = AnswerVersion(answer) => UNCHANGED <<table, version>>
    BY <1>12 DEF Update
  <2>5. Known'
    BY <1>2, <1>4, <2>1, <2>2, <2>3, <2>4 DEF Known
  <2>6. AnswerVersion(answer)' = AnswerVersion(answer)
    BY <1>1, <2>1 DEF AnswerVersion, ServiceVersion
  <2> QED
    BY <2>1, <2>2, <2>5, <2>6 DEF Current, Known, SyncedTableIsFeed
<1>13. CASE Hooks
  <2>1. UNCHANGED <<table, version>>
    BY <1>13 DEF Hooks, CallOnQuarantine, CallOnRetired, Synced
  <2>2. CASE Synced
    <3>1. Holds(answer)
      BY <1>5, <2>2 DEF Synced, Current, Fetching
    <3>2. Holds(described)'
      BY <1>1, <2>2, <3>1 DEF Synced, Holds
    <3> QED
      BY <1>4, <2>1, <2>2, <3>2 DEF Synced, Current, Known, SyncedTableIsFeed
  <2>3. CASE ~Synced
    <3>1. pc' = "hooks" /\ pc = "hooks" /\ UNCHANGED answer
      BY <1>13, <2>3 DEF Hooks, CallOnQuarantine, CallOnRetired
    <3>2. AnswerVersion(answer)' = AnswerVersion(answer)
      BY <1>1, <3>1 DEF AnswerVersion, ServiceVersion
    <3> QED
      BY <1>4, <2>1, <3>1, <3>2 DEF Current, Known, SyncedTableIsFeed
  <2> QED
    BY <2>2, <2>3
<1> QED
  BY <1>6, <1>7, <1>8, <1>9, <1>10, <1>11, <1>12, <1>13 DEF Next

\* fetchOnce and Update: neither a 304 nor an equal version ever leaves other
\* routes in the table than those of the feed the sync was answered with.
THEOREM TableIsFeed == Spec => []SyncedTableIsFeed
<1>1. Current => SyncedTableIsFeed
  BY DEF Current
<1> QED
  BY <1>1, InitFetching, NextFetching, InitCurrent, NextCurrent, PTL DEF Spec

-----------------------------------------------------------------------------
(* The refinement.                                                         *)

States == [h \in Hosts |-> StateOf(h)]

\* The empty table is the one QuarantineCut starts from.
LEMMA InitImplements == Init => Core!Init
<1> SUFFICES ASSUME Init PROVE Core!Init
  OBVIOUS
<1>1. DOMAIN table = {}
  BY DEF Init
<1>2. [h \in Hosts |-> StateOf(h)] = [h \in Hosts |-> "absent"]
  BY <1>1 DEF StateOf
<1>3. \A S : << >> \in [{} -> S]
  OBVIOUS
<1>4. << >> = [c \in {} |-> "free"] /\ << >> = [c \in {} |-> "absent"] /\ << >> = [c \in {} |-> 0]
  OBVIOUS
<1> QED
  BY <1>2, <1>3, <1>4 DEF Init, Core!Init

\* Update past its version check is the abstract update to the new states.
LEMMA UpdateImplements ==
  ASSUME Fetching, Update, version # AnswerVersion(answer)
  PROVE  Core!Next
<1> DEFINE new == TableOf(answer)
           after == [h \in Hosts |-> StateOf(h)']
<1>1. /\ toCut = {} /\ answer \in Feeds /\ table' = new
      /\ toCut' = NewlyQuarantined(table, new)
      /\ announced' = {h \in DOMAIN new : /\ Quarantined(new[h])
                                          /\ h \in DOMAIN table
                                          /\ ~Quarantined(table[h]) \/ h \in announced}
  BY DEF Update, Fetching
<1>2. DOMAIN new \subseteq Hosts /\ DOMAIN table \subseteq Hosts
  BY <1>1, TableHosts DEF Fetching
<1> HIDE DEF new
<1>3. \A h \in Hosts :
        /\ after[h] = "quarantined" <=> h \in DOMAIN new /\ Quarantined(new[h])
        /\ after[h] \in {"absent", "active", "quarantined"}
        /\ StateOf(h) = "quarantined" <=> h \in DOMAIN table /\ Quarantined(table[h])
        /\ StateOf(h) = "active" <=> h \in DOMAIN table /\ ~Quarantined(table[h])
  BY <1>1 DEF StateOf
<1>4. after \in [Hosts -> Core!RouteStates]
  BY <1>3 DEF Core!RouteStates
<1> HIDE DEF after
<1>5. toCut' = Core!NewlyQuarantined(States, after)
  BY <1>1, <1>2, <1>3 DEF NewlyQuarantined, Core!NewlyQuarantined, States
<1>6. announced' = {h \in Hosts : /\ after[h] = "quarantined"
                                  /\ \/ States[h] = "active"
                                     \/ States[h] = "quarantined" /\ h \in announced}
  BY <1>1, <1>2, <1>3 DEF States
<1>7. Core!Update(after)
  BY <1>1, <1>5, <1>6 DEF Core!Update, Core!trackerVars, Core!handlerVars, States, after
<1> QED
  BY <1>4, <1>7 DEF Core!Next

\* Calling onQuarantine for a host is QuarantineCut's CutHost with nothing
\* tracked.
LEMMA CutImplements ==
  ASSUME NEW h \in Hosts, CallOnQuarantine(h)
  PROVE  Core!Next
<1>1. [g \in Hosts |-> {}] = [[g \in Hosts |-> {}] EXCEPT ![h] = {}]
  OBVIOUS
<1>2. [g \in Hosts |-> StateOf(g)]' = [g \in Hosts |-> StateOf(g)]
  BY DEF CallOnQuarantine, StateOf
<1>3. Core!CutHost(h)
  BY <1>1, <1>2 DEF CallOnQuarantine, Core!CutHost, Core!StartCloses, Core!handlerVars
<1> QED
  BY <1>3 DEF Core!Next

\* Everything else leaves the table, the hosts to cut and the history alone.
LEMMA StutterImplements ==
  ASSUME UNCHANGED <<table, toCut, announced>>
  PROVE  UNCHANGED Core!vars
BY DEF Core!vars, StateOf

\* Update, with its maps, duplicate hosts and versions, implements the table
\* and the hook QuarantineCut is proved with.
THEOREM Implements == Spec => ImplementsCore
<1>1. Fetching /\ [Next]_vars => [Core!Next]_(Core!vars)
  <2> SUFFICES ASSUME Fetching, [Next]_vars PROVE [Core!Next]_(Core!vars)
    OBVIOUS
  <2> USE DEF serviceVars, tableVars, syncVars
  <2>1. CASE Update /\ version # AnswerVersion(answer)
    BY <2>1, UpdateImplements
  <2>2. ASSUME NEW h \in Hosts, CallOnQuarantine(h) PROVE Core!Next
    BY <2>2, CutImplements
  <2>3. CASE UNCHANGED <<table, toCut, announced>>
    BY <2>3, StutterImplements
  <2> QED
    BY <2>1, <2>2, <2>3 DEF Next, vars, Publish, FetchOnce, RecordError, NotModified, Answer, Update,
                            Hooks, CallOnRetired, Synced
<1> QED
  BY <1>1, InitImplements, InitFetching, NextFetching, PTL DEF Spec, ImplementsCore, Core!Spec

=============================================================================
