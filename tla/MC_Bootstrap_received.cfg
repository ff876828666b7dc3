SPECIFICATION Spec
CONSTANTS
  Contacts = {c1, c2}
  Slots = 1
  SameNetwork = {c2}
  Answers = {c1, c2}
  Silent = {}
  Checks = {c1, c2}
  Reachable = {}
  MaxAcceptors = 2
  MaxEdits = 1
  None = none

PROPERTIES GrantedIsReceived
CHECK_DEADLOCK FALSE
