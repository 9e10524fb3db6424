SPECIFICATION Spec
CONSTANTS
  Rids = 2
  CacheMax = 3
  ReadSetSize = 2
  Placeholders = 4
  MaxStream = 3
CHECK_DEADLOCK FALSE
INVARIANTS
  ReadInChunks
