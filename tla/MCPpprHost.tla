----------------------------- MODULE MCPpprHost -----------------------------
(* Small instances of PpprHost for TLC.                                    *)
EXTENDS PpprHost
=============================================================================
