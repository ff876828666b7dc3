SPECIFICATION FairSpec
CONSTANTS
  Ips = {x}
  Disabled = disabled
  Garbage = garbage
  MaxEdits = 4
INVARIANTS InSync WhitelistEnforced
PROPERTIES EditIsEnforced
CHECK_DEADLOCK FALSE
