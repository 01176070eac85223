--------------------------- MODULE MCPppSessions ----------------------------
(* Instances of PppSessions for TLC; the values of the constants are in the   *)
(* configurations.                                                            *)
EXTENDS PppSessions
=============================================================================
