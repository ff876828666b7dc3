---------------------------- MODULE MC_Bootstrap ----------------------------
(* Instances of Bootstrap for TLC.                                         *)
EXTENDS Bootstrap
=============================================================================
