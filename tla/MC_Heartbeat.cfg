SPECIFICATION FairSpec
CONSTANTS
  A = a
  B = b
  HEARTBEAT_PERIOD = 2
  INACTIVITY_TIMEOUT = 8
  MaxDelay = 1
  MaxPoll = 1
  MaxData = 1
INVARIANTS NeverSilent TimeoutIsJustified
PROPERTIES DeadLinkIsNoticed
CHECK_DEADLOCK FALSE
