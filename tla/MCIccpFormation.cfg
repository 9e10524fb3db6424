SPECIFICATION FairSpec
CONSTANTS
  Active = a
  Standby = s
  Conn = {c1, c2}
  NoConn = none
  RgIds = {1, 2}
  MaxInFlight = 0
  MaxHeartbeat = 1
INVARIANTS MismatchRefused
PROPERTIES ReachesExchange
