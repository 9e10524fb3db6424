SPECIFICATION Spec
CONSTANTS
  Active = a
  Standby = s
  Conn = {c1, c2}
  NoConn = none
  RgIds = {1}
  MaxInFlight = 2
  MaxHeartbeat = 1
INVARIANTS NeverError
SYMMETRY Symmetry
