SPECIFICATION Spec
CONSTANTS
  Active = Active
  Standby = Standby
  PeerLinks = {TRUE, FALSE}
  MaxInFlight = 2
INVARIANTS TypeOK IsolationFollowsPeer DownMeansDisabled TrafficRestored PeerStateCurrent
