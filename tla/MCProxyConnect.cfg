CHECK_DEADLOCK FALSE
SPECIFICATION Spec
CONSTANTS
  None = None
  AddressBits <- MCBits
  BadLabels = {"bad"}
  Clients = {c1}
  ProxyRequests <- MCProxyRequests
  ProxyPolicy <- MCProxyPolicy
  Resolutions <- MCResolutions
  MaxProxyGeneration = 1
INVARIANTS
  ConnectRequestsRead
