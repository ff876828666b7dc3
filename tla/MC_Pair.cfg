SPECIFICATION Spec
CONSTANTS
  Hi = hi
  Lo = lo
  Client = hi
  None = none
  MaxLinks = 2
PROPERTIES TablesFollow ConnectionStays AgreeInTheEnd
CHECK_DEADLOCK FALSE
