\* The bounds on time and sockets end every behaviour.
CHECK_DEADLOCK FALSE
SPECIFICATION FairSpec
CONSTANTS
  NoForward = NoForward
  SessionIds = {i1, i2, i3}
  Destinations = {d1, d2, d3}
  Allowed = {d1, d2}
  MaxAssociations = 2
  IdleTimeout = 1
  MaxSockets = 3
  MaxTime = 3
INVARIANTS
  NoOrphanReceiver
PROPERTIES
  SessionKeepsTarget
  ReceiversEnd
