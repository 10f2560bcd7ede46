----------------------------- MODULE MCDispatch -----------------------------
(* Dispatch for TLC: hellos below, at and above the size of the buffer,    *)
(* with and without bytes behind them.                                     *)
EXTENDS Dispatch

Alpns == {<<>>, <<"h1">>, <<"acme">>, <<"acme", "h1">>, <<"ratls">>, <<"tunnel">>, <<"h1", "tunnel">>}

MCHellos ==
  {[len |-> l, total |-> l + more, form |-> "ok", alpns |-> p] :
      l \in 1 .. 4, more \in 0 .. 2, p \in Alpns}
  \cup {[len |-> 2, total |-> 3, form |-> f, alpns |-> <<>>] : f \in {"notTLS", "noSNI"}}

\* A platform hostname has no mode; an adopter hostname has any.
MCRoutes ==
  {r \in [mode : {"", "pending", "direct"}, alias : BOOLEAN, quarantined : BOOLEAN,
          pp : BOOLEAN, tunnelled : BOOLEAN] :
     (r.alias \/ r.mode = "") /\ (r.pp => r.mode = "direct")}
=============================================================================
