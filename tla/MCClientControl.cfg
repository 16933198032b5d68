\* Once every handle is destroyed no call is left to make.
CHECK_DEADLOCK FALSE
SPECIFICATION FairSpec
CONSTANTS
  None = None
  Threads = {t1, t2}
  MaxHandle = 2
  MaxGeneration = 3
INVARIANTS
  HandlesSound
PROPERTIES
  RuntimesFollowLifecycle
  CallsReturn
