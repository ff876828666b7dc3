--------------------------- MODULE MC_Rendezvous ---------------------------
(* Instances of Rendezvous for TLC: one connection opened by each side, and *)
(* one opened by hole punching.                                             *)
EXTENDS Rendezvous

CONSTANTS byHi, byLo, punched

MCOpeners == [c \in {byHi, byLo, punched} |->
                CASE c = byHi -> {Hi} [] c = byLo -> {Lo} [] c = punched -> Side]

AllAdmitted == [s \in Side |-> TRUE]
=============================================================================
