\* FlowLimits as in the unit tests of crates/velum-session/src/lib.rs.
SPECIFICATION Spec
CONSTANTS
  None = None
  FlowIdMax = 2
  SequenceMax = 2
  EpochMax = 1
  TickMax = 3
  MaxFlows = 2
  MaxPendingSegments = 2
  MaxPendingBytes = 3
  MaxSessionPendingSegments = 3
  MaxSessionPendingBytes = 4
  MaxPendingAge = 2
  MaxEvents = 1
  InitialEpoch = 0
  Lengths = {0, 3}
INVARIANTS
  TypeOK
  AccountingExact
  QueuesSound
PROPERTIES
  CursorsOnlyAdvance
