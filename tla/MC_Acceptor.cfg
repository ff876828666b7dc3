SPECIFICATION Spec
CONSTANTS
  Interfaces = {"lan"}
  GlobalIps = {"wan"}
  ForceIncludePort = TRUE
  None = none
  PortOf <- Ephemeral
  Reports <- MCReports
  MaxArrivals = 2
  Slots = 1
INVARIANTS PublishedIsServed HeldIsKnown ServedIsPublished
PROPERTIES ArrivalIsAccepted SwitchSettles
CHECK_DEADLOCK FALSE
