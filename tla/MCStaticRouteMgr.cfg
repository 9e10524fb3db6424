SPECIFICATION MgrSpec
CONSTANTS
  p1 = p1
  a = a
  b = b
  i1 = i1
  Prefixes = {p1}
  NextHops = {a, b}
  Intfs = {i1}
  None = None
  Rows <- MCRows
  States <- MCStates
  MaxPending = 1
INVARIANT BfdRouteInstalled
