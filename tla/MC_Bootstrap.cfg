SPECIFICATION Spec
CONSTANTS
  Contacts = {c1, c2, c3, c4}
  Slots = 2
  SameNetwork = {c1, c2}
  Answers = {c2, c3}
  Silent = {c1}
  Checks = {c2}
  Reachable = {c2}
  MaxAcceptors = 1
  MaxEdits = 1
  None = none
INVARIANTS ContactIsEntitled OnlyChosenRemains
PROPERTIES ReachesAGrantingContact RequestIsSettled
CHECK_DEADLOCK FALSE
