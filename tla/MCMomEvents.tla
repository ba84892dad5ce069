---------------------------- MODULE MCMomEvents ----------------------------
(* Small instances of MomEvents (and with it MomChannel) for TLC: the       *)
(* constants are in the .cfg files.                                         *)
EXTENDS MomEvents
=============================================================================
