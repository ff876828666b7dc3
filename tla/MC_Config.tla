----------------------------- MODULE MC_Config -----------------------------
(* Instances of Config for TLC.                                            *)
EXTENDS Config
=============================================================================
