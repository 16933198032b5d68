\* Every call is made once, so every behaviour ends.
CHECK_DEADLOCK FALSE
SPECIFICATION FairSpec
CONSTANTS
  Absent = Absent
  LastNode = 2
  DefaultNode = 1
  Activations = {a1, a2}
  Stops = {s1}
  Lookups = {u1, u2}
INVARIANTS
  RuntimesOwned
PROPERTIES
  StreamsFromActiveProfile
  EveryCallReturns
