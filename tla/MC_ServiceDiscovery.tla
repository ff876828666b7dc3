------------------------ MODULE MC_ServiceDiscovery ------------------------
(* Instances of ServiceDiscovery for TLC.                                  *)
EXTENDS ServiceDiscovery
=============================================================================
