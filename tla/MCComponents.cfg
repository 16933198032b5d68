SPECIFICATION Spec
CONSTANTS
  None = None
  Absent = Absent
  Nothing = Nothing
  Missing = Missing
  NoProfile = NoProfile
  Unset = Unset
  AddressBits <- MCBits
  BadLabels = {"bad"}
  Generations = {1}
  DnsCapacity = 2
  FakeFirst <- MCFirst
  FakeLast <- MCLast
  Questions <- MCQuestions
  Ttls = {0, 1}
  Destinations <- MCDestinations
  Policies <- MCPolicies
  TunFlows <- MCFlows
  TunFrames <- MCFrames
  Payloads = {100, 1500}
  MaxTcpFlows = 1
  MaxUdpAssociations = 2
  QueueCapacity = 1
  Mtu = 1500
  MaxSession = 3
  MaxRuntimeGeneration = 3
  Clients = {c1, c2}
  ProxyRequests <- MCProxyRequests
  ProxyPolicy <- MCProxyPolicy
  Resolutions <- MCResolutions
  MaxProxyGeneration = 2
  HostRequests <- MCHostRequests
  HostCapabilities = {"tun"}
  MaxCachedResponses = 2
  MaxHostCrashes = 2
  Identifiers = {"a", "b", "c", "d", "p"}
  SecretSegments = {"enrollment", "a", "b", "c", "d", "p", "1", "2"}
  Profiles <- MCProfiles
  Bundles <- MCBundles
  MaxProfileNodes = 2
  MaxProfileRules = 2
  HostThreads = {h1, h2}
  MaxEngineGeneration = 3
  NameA = NameA
  NameB = NameB
  RelayAddress = RelayAddress
  ServerName = ServerName
  OutputFile = OutputFile
  Settings <- MCSettings
  CommandLines <- MCLines
  Slug <- MCSlug
  MaxPrincipal = 4
  MaxSecret = 4
  MaxPair = 3
  TrafficProfiles <- MCTrafficProfiles
  MaxForestTime = 4
  Requesters = {r1, r2}
  CoverClients = {cc1, cc2}
  CoverConfigs <- MCCovers
  CoverHeads <- MCHeads
  MaxCover = 1
  ControlSlots = 1
  Streams <- MCStreams
  HelperStreams <- MCHelperStreams
  ChunkSizes = {1, 25, 200}
  MaximumPayload = 128
  RequestBodies <- MCBodies
  MaxHelperFrame = 4
  Datagrams <- MCDatagrams
  MaxDatagramSize = 1000
  MaxDatagramPayload = 2
  MaxDatagramCredential = 2
  OpenRequests <- MCOpens
  TextOf <- MCText
  AddressTexts <- MCTexts
  MaxControlBytes = 20
  DamageBytes = {0, 1, 2, 4, 255}
  ClientOffers <- MCClientOffers
  ServerOffers <- MCServerOffers
CHECK_DEADLOCK FALSE
INVARIANTS
  FakeAddressesSound
  DecisionsFollowRules
  LeasesHaveSessions
  ServedAsRouted
  JournalCoversRoutes
  ProfileServed
  CredentialsSound
  PairsSound
  ServiceObeys
  DecodersFaithful
  PeersAgree
PROPERTIES
  NoStaleTraffic
  NewerStaysOnce
