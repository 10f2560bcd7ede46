---------------------------- MODULE MCRouteSync ----------------------------
(* RouteSync for TLC: one app that is quarantined, moves, changes mode and *)
(* policy, disappears, and shares the feed with another host or with a     *)
(* second row of its own.                                                  *)
EXTENDS RouteSync

a == [sni |-> "a", up |-> "u1", canonical |-> "", mode |-> "", pp |-> FALSE,
      pol |-> "p1", state |-> ""]
b == [a EXCEPT !.sni = "b"]
quarantined == [a EXCEPT !.state = "quarantined"]
moved == [a EXCEPT !.up = "u2"]
direct == [a EXCEPT !.mode = "direct"]
adopted == [a EXCEPT !.canonical = "b"]
proxied == [direct EXCEPT !.pp = TRUE]
policy == [a EXCEPT !.pol = "p2"]

MCFeeds == {<<>>, <<a>>, <<quarantined>>, <<a, b>>, <<b, quarantined>>,
            <<a, quarantined>>, <<quarantined, a>>, <<moved>>, <<policy, b>>,
            <<direct>>, <<adopted>>, <<proxied>>}
=============================================================================
