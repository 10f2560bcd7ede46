-------------------------- MODULE MCTunnelRegistry --------------------------
(* TunnelRegistry for TLC: its constants are given in the configuration.   *)
EXTENDS TunnelRegistry
=============================================================================
