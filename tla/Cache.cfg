SPECIFICATION Spec
CONSTANTS
  h1 = h1
  h2 = h2
  u1 = u1
  p1 = p1
  p2 = p2
  bad = bad
  None = None
  Updater = Updater
  Hosts = {h1, h2}
  Upstreams = {u1}
  Policies = {p1, p2, bad}
  BadPolicies = {bad}
  Tables <- MCTables
  Handlers = {c1, c2}
  Pools = {q1, q2}
  Conns = {m1}
SYMMETRY Symmetry
VIEW View
INVARIANTS
  OneEntryPerApp
  RidesVerifiedConn
  PoolPolicyParsed
  
PROPERTY OtherAppsKeepTheirPools
