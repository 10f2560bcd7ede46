-------------------------- MODULE MCQuarantineCut --------------------------
(* QuarantineCut for TLC: its constants are given in the configuration.    *)
EXTENDS QuarantineCut
=============================================================================
