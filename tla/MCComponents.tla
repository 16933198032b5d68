---------------------------- MODULE MCComponents -----------------------------
(* The components around the relay and the client runtime share no state:  *)
(* a behaviour is one of a single component, which `part` names, and the   *)
(* others stay in an initial state.                                        *)
EXTENDS MCClientParts, MCNodeParts

VARIABLE part

Parts == {"dns", "tun udp", "tun tcp", "tun stack", "proxy", "host", "profile", "config",
          "certificates", "forest", "service", "streams", "handshake", "records"}

(* What the component at rest starts with does not matter.                 *)
AtRest ==
  /\ part # "dns" => policy = CHOOSE p \in Policies : TRUE
  /\ part # "proxy" => ~poolMode /\ proxyRuntime.online
  /\ part # "forest" => active = CHOOSE p \in TrafficProfiles : ProfileValid(p, 0)
  /\ part # "service" => cover = NoProfile
  /\ part # "streams" => unread = [frames |-> << >>, helper |-> << >>]

Init ==
  /\ part \in Parts
  /\ DnsInit /\ TunInit /\ ProxyInit /\ HostInit /\ EngineInit
  /\ NodeConfigInit /\ CertificateInit /\ ForestInit /\ ServiceInit /\ WireInit
  /\ AtRest

DnsRests == UNCHANGED dnsVars
TunRests == UNCHANGED tunVars
ProxyRests == UNCHANGED proxyVars
ClientFilesRest == UNCHANGED <<hostVars, engineVars>>
NodeFilesRest == UNCHANGED <<nodeConfigVars, certificateVars>>
ServiceRests == UNCHANGED <<forestVars, serviceVars>>
WireRests == UNCHANGED wireVars
AdaptersRest == DnsRests /\ TunRests /\ ProxyRests
NodeRests == NodeFilesRest /\ ServiceRests /\ WireRests

TunParts ==
  \/ RuntimeNext
  \/ part = "tun udp" /\ UdpNext
  \/ part = "tun tcp" /\ TcpNext
  \/ part = "tun stack" /\ StackNext

WireParts ==
  \/ part = "streams" /\ StreamNext
  \/ part = "handshake" /\ HandshakeNext
  \/ part = "records" /\ RecordNext

Next ==
  /\ part' = part
  /\ \/ part = "dns" /\ DnsNext /\ TunRests /\ ProxyRests /\ ClientFilesRest /\ NodeRests
     \/ /\ part \in {"tun udp", "tun tcp", "tun stack"} /\ TunParts
        /\ DnsRests /\ ProxyRests /\ ClientFilesRest /\ NodeRests
     \/ part = "proxy" /\ ProxyNext /\ DnsRests /\ TunRests /\ ClientFilesRest /\ NodeRests
     \/ part = "host" /\ HostNext /\ AdaptersRest /\ UNCHANGED engineVars /\ NodeRests
     \/ part = "profile" /\ EngineNext /\ AdaptersRest /\ UNCHANGED hostVars /\ NodeRests
     \/ /\ part = "config" /\ NodeConfigNext /\ UNCHANGED certificateVars
        /\ AdaptersRest /\ ClientFilesRest /\ ServiceRests /\ WireRests
     \/ /\ part = "certificates" /\ CertificateNext /\ UNCHANGED nodeConfigVars
        /\ AdaptersRest /\ ClientFilesRest /\ ServiceRests /\ WireRests
     \/ /\ part = "forest" /\ ForestNext /\ UNCHANGED serviceVars
        /\ AdaptersRest /\ ClientFilesRest /\ NodeFilesRest /\ WireRests
     \/ /\ part = "service" /\ ServiceNext /\ UNCHANGED forestVars
        /\ AdaptersRest /\ ClientFilesRest /\ NodeFilesRest /\ WireRests
     \/ WireParts /\ AdaptersRest /\ ClientFilesRest /\ NodeFilesRest /\ ServiceRests

vars == <<part, dnsVars, tunVars, proxyVars, hostVars, engineVars, nodeConfigVars,
          certificateVars, forestVars, serviceVars, wireVars>>

Spec == Init /\ [][Next]_vars
=============================================================================
