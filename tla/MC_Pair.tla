------------------------------ MODULE MC_Pair ------------------------------
(* Instances of Pair for TLC.                                              *)
EXTENDS Pair
=============================================================================
