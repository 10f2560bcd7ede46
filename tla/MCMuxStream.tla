---------------------------- MODULE MCMuxStream ----------------------------
(* MuxStream for TLC, one stream, or two that share a key.                 *)
EXTENDS MuxStream, TLC

CONSTANTS k1, s1, s2

SharedKey == s1 :> k1 @@ s2 :> k1
OneStream == s1 :> k1
Symmetry == Permutations(Streams)

\* Once its handler has returned and readLoop is not on it, a stream's queue
\* only drains: states that differ there only are the same.
Spent(s) == pc[s] \in {"returning", "ended"} /\ rl.st # s
View ==
  <<pc, code, sock, trackVars, connVars, wireVars,
    [s \in Streams |-> IF Spent(s) THEN <<>>
                       ELSE <<outbound[s], held[s], queued[s], hand[s]>>]>>
=============================================================================
