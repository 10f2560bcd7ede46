----------------------------- MODULE MCShutdown -----------------------------
(* Shutdown for TLC: its constants are given in the configurations.        *)
EXTENDS Shutdown
=============================================================================
