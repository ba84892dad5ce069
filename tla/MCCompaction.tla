---------------------------- MODULE MCCompaction ----------------------------
(* Small instances of Compaction for TLC: the constants are in the .cfg     *)
(* files.                                                                   *)
EXTENDS Compaction
=============================================================================
