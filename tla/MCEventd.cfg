SPECIFICATION Spec
CONSTANTS
  Rids = 2
  CacheMax = 3
  ReadSetSize = 2
  Placeholders = 4
  MaxStream = 5
CHECK_DEADLOCK FALSE
INVARIANTS
  TypeOK
  
  CacheExact
  ReadsReturnCache
  
  PausedWhileCaching
PROPERTIES
  AnsweredOrWaiting
