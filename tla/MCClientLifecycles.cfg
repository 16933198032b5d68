\* The bounds on generations, runs and tasks end every behaviour.
CHECK_DEADLOCK FALSE
SPECIFICATION LifecyclesSpec
CONSTANTS
  None = None
  MaxGeneration = 4
  Callers = {s1, s2}
  Openers = {o1}
  Nobody = Nobody
  Runs = {1, 2}
  TunTargets = {a1, a2}
  a1 = a1
  a2 = a2
  UdpTasks = {1, 2}
  TargetOf <- MCTargetOf
  TcpTasks = {t1}
  MaxTcpTasks = 1
  MaxUdpTasks = 2
  ChannelSize = 1
INVARIANTS
  TransportsOwned
  DatagramsReachTheirFlow
PROPERTIES
  GenerationsApart
  CallsDecided
  LifecycleSpec
  TunStops
