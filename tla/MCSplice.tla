------------------------------ MODULE MCSplice ------------------------------
(* Splice for TLC: its constants are given in the configurations.          *)
EXTENDS Splice
=============================================================================
