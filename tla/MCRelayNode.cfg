\* Connections and streams are finite, so every behaviour ends.
CHECK_DEADLOCK FALSE
SPECIFICATION FairSpec
CONSTANTS
  None = None
  c1 = c1
  Connections = {c1, c2}
  Streams = {s1, s2}
  ConnectionOf <- OnFirstConnection
  Principals = {p1, p2}
  MaxConnections = 2
  MaxStreams = 2
  Quotas <- OneFlowOrNone
  MaxLease = 3
INVARIANTS
  CountsExact
PROPERTIES
  ConnectionsEnd
