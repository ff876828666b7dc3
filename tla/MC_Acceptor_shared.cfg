SPECIFICATION Spec
CONSTANTS
  Interfaces = {"lan"}
  GlobalIps = {"wan"}
  ForceIncludePort = TRUE
  None = none
  PortOf <- Fixed
  Reports <- MCReports
  MaxArrivals = 2
  Slots = 1
INVARIANTS ServedIsPublished
CHECK_DEADLOCK FALSE
