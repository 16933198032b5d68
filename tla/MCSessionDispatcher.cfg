SPECIFICATION Spec
CONSTANTS
  None = None
  FlowIdMax = 1
  SequenceMax = 1
  EpochMax = 2
  TickMax = 1
  MaxFlows = 1
  MaxPendingSegments = 1
  MaxPendingBytes = 1
  MaxSessionPendingSegments = 1
  MaxSessionPendingBytes = 1
  MaxPendingAge = 1
  MaxEvents = 1
  InitialEpoch = 0
  Lengths = {1}
  Carriers = {c1, c2}
  AttachmentIds = {a1}
  Parameters = {p1, p2}
  Forged = Forged
SYMMETRY Symmetry
INVARIANTS
  AttachmentsSound
  FrameEffects
PROPERTIES
  FlowsSpec
