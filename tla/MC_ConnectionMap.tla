------------------------- MODULE MC_ConnectionMap -------------------------
(* Instances of ConnectionMap for TLC.                                     *)
EXTENDS ConnectionMap, TLC

Symmetry == Permutations(Uids)
=============================================================================
