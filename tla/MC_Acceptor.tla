----------------------------- MODULE MC_Acceptor -----------------------------
(* Instances of Acceptor for TLC: three starts of the switch, the first      *)
(* behind a NAT that one gateway or peer may report, with the port forced.   *)
EXTENDS Acceptor

\* Ports that the system chooses, and the one tcp_acceptor_port asks for.
Ephemeral == <<1, 2, 3>>
Fixed == <<0, 0, 0>>

MCReports == <<{Address("wan", 9)}, {}, {}>>
=============================================================================
