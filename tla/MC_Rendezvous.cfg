SPECIFICATION Spec
CONSTANTS
  Hi = hi
  Lo = lo
  byHi = byHi
  byLo = byLo
  punched = punched
  Conns = {byHi, byLo, punched}
  Openers <- MCOpeners
  NameHashes = {n1, n2}
  Admits <- AllAdmitted
  MaxCalls = 2
INVARIANTS TypeOK Agreement NoUnexpectedMessage ChosenWasHeld NothingLeaks SameNetworkOnly
PROPERTIES ImplementsSettlement Connects
CHECK_DEADLOCK FALSE
