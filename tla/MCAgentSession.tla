--------------------------- MODULE MCAgentSession ---------------------------
(* Small instances of AgentSession for TLC: the constants are in the .cfg   *)
(* files; callers are interchangeable.                                      *)
EXTENDS AgentSession, TLC

CallerSymmetry == Permutations(Callers)
=============================================================================
