--------------------------- MODULE MCPpprRuntime ---------------------------
(* Small instances of PpprRuntime for TLC: the constants are in the .cfg    *)
(* files, the sessions are model values.                                    *)
EXTENDS PpprRuntime
=============================================================================
