\* The two ends may both stop for good: nothing left to send, deliver or reissue.
CHECK_DEADLOCK FALSE
SPECIFICATION FairSpec
CONSTANTS
  None = None
  FlowIdMax = 1
  SequenceMax = 2
  EpochMax = 1
  TickMax = 2
  MaxFlows = 1
  MaxPendingSegments = 2
  MaxPendingBytes = 4
  MaxSessionPendingSegments = 2
  MaxSessionPendingBytes = 4
  MaxPendingAge = 1
  MaxEvents = 1
  InitialEpoch = 0
  Lengths = {1, 2}
INVARIANTS
  HonestAckAccepted
PROPERTIES
  ChannelSpec
  EventuallyDrained
