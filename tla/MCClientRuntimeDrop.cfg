\* The bound on generations ends every behaviour.
CHECK_DEADLOCK FALSE
SPECIFICATION FairSpec
CONSTANTS
  None = None
  MaxGeneration = 2
  Callers = {s1}
  Openers = {o1}
PROPERTY DropEndsTheTask
