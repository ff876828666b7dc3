SPECIFICATION Spec
CONSTANTS
  Uids = {a, b}
  None = none
  MaxConns = 3
  MaxEvents = 5
INVARIANTS NoOrphans MapHoldsLivePeers ApplicationAgrees MessagesFromKnownPeers
SYMMETRY Symmetry
CHECK_DEADLOCK FALSE
