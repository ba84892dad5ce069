---------------------------- MODULE MCAuthStorage ----------------------------
(* Small instance of AuthStorage for TLC: processes and providers are model  *)
(* values, and the module treats all of them alike.                          *)
EXTENDS AuthStorage, TLC

Symmetry == Permutations(Processes) \cup Permutations(Providers)
=============================================================================
