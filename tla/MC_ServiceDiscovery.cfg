SPECIFICATION FairSpec
CONSTANTS
  AddrSets = {x, y}
  Discoverers = {d1, d2}
  None = none
  SendBuffer = 1
  MaxRequests = 2
  MaxCopies = 2
  MaxPublishes = 2
  MaxSwitches = 2
PROPERTIES AdvertisesInTheEnd RequestIsAnswered SwitchOffFreesPort
CHECK_DEADLOCK FALSE
