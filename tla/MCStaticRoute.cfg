SPECIFICATION Spec
CONSTANTS
  p1 = p1
  p2 = p2
  a = a
  b = b
  i1 = i1
  Prefixes = {p1, p2}
  NextHops = {a, b}
  Intfs = {i1}
  None = None
  Rows <- MCRows
  States <- MCStates
  MaxPending = 1
INVARIANTS
  TypeOK
  NexthopsIndexed
  ReachableAnnounced
  
  Watched
  
  

  
