SPECIFICATION Spec
CONSTANTS
  Uids = {a, b}
  None = none
  MaxConns = 3
  MaxEvents = 5
PROPERTIES LostPeerIsLost
CHECK_DEADLOCK FALSE
