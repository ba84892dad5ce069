------------------------------ MODULE MCAgent ------------------------------
(* Small instances of Agent for TLC: the constants are in the .cfg files.   *)
EXTENDS Agent
=============================================================================
