----------------------------- MODULE MC_Socket -----------------------------
(* Instances of Socket for TLC: one priority that is never dropped and two  *)
(* that are.                                                                *)
EXTENDS Socket

MCPriorities == {1, 2, 3}
=============================================================================
