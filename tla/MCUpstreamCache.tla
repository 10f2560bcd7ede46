-------------------------- MODULE MCUpstreamCache --------------------------
(* UpstreamCache for TLC: two apps that share an upstream.                 *)
EXTENDS UpstreamCache, TLC

CONSTANTS h1, h2, u1, p1, p2, bad

\* h1 changes its policy, comes and goes; h2 stays as it is.
MCTables ==
  {t \in [Hosts -> Routes \cup {None}] : t[h2] = [up |-> u1, pol |-> p1]}

Symmetry == Permutations(Handlers) \cup Permutations(Pools)

\* A pool or connection that nobody refers to is not looked at again before
\* it is used afresh: states that differ there only are the same.
View ==
  <<table, retired, forgetting, proxies, muxPools, muxMu, poolMu, handlerVars,
    {<<p, poolKey[p], members[p]>> : p \in {q \in Pools : ~FreePool(q)}},
    {<<m, dialed[m], m \in dead>> : m \in {n \in Conns : ~FreeConn(n)}}>>
=============================================================================
