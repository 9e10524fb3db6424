SPECIFICATION Spec
CONSTANTS
  Rids = 2
  CacheMax = 1
  ReadSetSize = 2
  Placeholders = 4
  MaxStream = 1
CHECK_DEADLOCK FALSE
PROPERTIES
  StopExits
