---------------------------- MODULE MC_Heartbeat ----------------------------
(* Instances of Heartbeat for TLC.                                         *)
EXTENDS Heartbeat
=============================================================================
