------------------------------ MODULE MCAgent -------------------------------
(* Agent for TLC: one client can wait while the other is served.            *)
EXTENDS Agent

CONSTANTS k1, k2
=============================================================================
