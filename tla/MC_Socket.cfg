SPECIFICATION FairSpec
CONSTANTS
  Priorities <- MCPriorities
  MSG_DROP_PRIORITY = 2
  MAX_MSG_AGE = 1
  WireCapacity = 1
  MaxMsgs = 3
  MaxClock = 3
INVARIANTS NeverDropped InOrderPerPriority FreshBacklog
PROPERTIES ImplementsChannel HighPriorityHandedOver DroppedSocketEnds
CHECK_DEADLOCK FALSE
