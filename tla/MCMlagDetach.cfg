SPECIFICATION Spec
CONSTANTS
  Active = Active
  Standby = Standby
  PeerLinks = {TRUE, FALSE}
  MaxInFlight = 2
INVARIANT DetachUnblocks
