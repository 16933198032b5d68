---------------------------- MODULE MCClientParts ----------------------------
(* Small instances of the parts of the client beside its runtime and pool. *)
EXTENDS TunPolicy, TunAdapter, ProxyAdapter, TrafficHost, ClientProfile

MCBits == [f \in {4, 6} |-> 4]
V4(b) == [family |-> 4, bits |-> b]
V6(b) == [family |-> 6, bits |-> b]
Name(labels, upper) == [labels |-> labels, upper |-> upper, dotted |-> FALSE]
Rule(kind, value, action) == [kind |-> kind, value |-> value, action |-> action]

(* Fake DNS: four IPv4 and five IPv6 addresses for a table of two; the     *)
(* rules tell names, networks and ports apart.                             *)
MCFirst == [f \in {4, 6} |-> 8]
MCLast == [f \in {4, 6} |-> IF f = 4 THEN 11 ELSE 12]
MCQuestions == {[name |-> Name(<<"a", "x">>, FALSE), real |-> V4(1)],
                [name |-> Name(<<"a", "x">>, TRUE), real |-> V4(1)],
                [name |-> Name(<<"bad", "x">>, FALSE), real |-> V4(2)],
                [name |-> Name(<<"y">>, FALSE), real |-> V4(5)],
                [name |-> Name(<<"x">>, FALSE), real |-> V6(1)]}
MCDestinations == {[ip |-> V4(b), port |-> 2] : b \in {2, 8}} \cup {[ip |-> V6(8), port |-> 1]}
NetworkRule == Rule("IP-CIDR", Cidr(V4(4), 2), "DIRECT")
PortRule == Rule("DST-PORT", [start |-> 2, end |-> 3], "n")
MCPolicies == {<<Rule("DOMAIN-SUFFIX", <<"x">>, "REJECT"), NetworkRule, PortRule,
                 Rule("MATCH", None, "PROXY")>>,
               <<Rule("DOMAIN", <<"y">>, "DIRECT"), Rule("IP-CIDR", Cidr(V4(2), 4), "REJECT"),
                 Rule("IP-CIDR", Cidr(V6(0), 0), "n")>>}

(* TUN: two flows to one destination and one to another.                   *)
Flow(p, i, d) == [protocol |-> p, family |-> 4, id |-> i, destination |-> d]
MCFlows == {Flow("udp", 1, "d1"), Flow("udp", 2, "d1"), Flow("udp", 3, "d2"),
            Flow("tcp", 1, "d1"), Flow("tcp", 2, "d1")}
Frame(f, port) == [version |-> 4, header |-> TRUE, fragment |-> FALSE, protocol |-> f.protocol,
                   transport |-> TRUE, port |-> port, flow |-> f, size |-> 100]
MCFrames == {Frame(f, 1) : f \in {g \in MCFlows : g.protocol = "udp"}}
              \cup {Frame(Flow("udp", 1, "d1"), 0)}

(* Proxy: each protocol, each form of target, and headers of this hop.     *)
Header(n, t) == [name |-> n, tokens |-> t]
Target(f, l, b, p) == [form |-> f, host |-> Name(l, FALSE), ip |-> V4(b), port |-> p]
Asked(k, t, h) == [kind |-> k, ok |-> TRUE, target |-> t, headers |-> h]
MCProxyRequests ==
  {Asked("socks", Target("literal", <<"l">>, 1, 2), << >>),
   Asked("connect", Target("name", <<"x">>, 0, 1), << >>),
   Asked("connect", Target("literal", <<"l">>, 5, 1), <<Header("host", {})>>),
   Asked("forward", Target("bare name", <<"a", "x">>, 0, 1),
         <<Header("x-t", {}), Header("accept", {}), Header("connection", {"x-t"}),
           Header("host", {})>>),
   Asked("forward", Target("literal", <<"l">>, 5, 0),
         <<Header("proxy-authorization", {}), Header("accept", {})>>)}
MCResolutions == (<<"x">> :> {V4(1), V4(5)}) @@ (<<"a", "x">> :> {V4(2)})
MCProxyPolicy == <<Rule("DOMAIN", <<"a", "x">>, "PROXY"), NetworkRule, PortRule,
                   Rule("MATCH", None, "REJECT")>>

(* Traffic host: three generations, one request of every other kind.       *)
Asks(i, g, c, m) ==
  [id |-> i, version |-> 1, generation |-> g, capabilities |-> {"tun"}, command |-> c,
   configuration |-> [mtu |-> m, networks |-> {[family |-> 4, prefix |-> 24]}, dns |-> 1]]
MCHostRequests ==
  {Asks(1, 1, "start", 1500), Asks(2, 2, "start", 1500), Asks(3, 1, "start", 1500),
   Asks(4, 2, "stop", 1500), Asks(5, 2, "recover", 1500), Asks(6, 2, "start", 100),
   Asks(6, 1, "status", 1500), Asks(6, 1, "hello", 1500),
   [Asks(6, 1, "hello", 1500) EXCEPT !.version = 2],
   [Asks(6, 1, "hello", 1500) EXCEPT !.capabilities = {"x"}]}

(* Profiles: aliases that name other nodes, repeat, or are missing.        *)
Server(ok) == [ip |-> FALSE, name |-> Name(IF ok THEN <<"s">> ELSE <<"bad">>, FALSE)]
Ref(s) == [namespace |-> TRUE, segments |-> s, long |-> FALSE]
Node(i, a) == [id |-> i, alias |-> a, server |-> Server(TRUE),
               credential |-> Ref(<<"enrollment", i, "1">>), ca |-> None]
Tun == [mtu |-> 1500, ipv4 |-> [family |-> 4, prefix |-> 3],
        ipv6 |-> [family |-> 6, prefix |-> 4], dns |-> <<1>>]
Profile(nodes, default, rules) ==
  [version |-> 1, id |-> "p", named |-> TRUE, nodes |-> nodes, default |-> default,
   rules |-> rules, tun |-> Tun]
Match(action) == Rule("MATCH", None, action)
MCProfiles ==
  {Profile(<<Node("a", "b"), Node("c", None)>>, "b", <<Rule("DOMAIN", <<"x">>, "b"), Match("c")>>),
   Profile(<<Node("a", None), Node("b", "a")>>, "a", <<Match("PROXY")>>),
   Profile(<<Node("a", "a")>>, "a", <<Match("PROXY")>>),
   Profile(<<Node("a", "c"), Node("b", "a")>>, "c", <<Match("c")>>),
   Profile(<<Node("a", None)>>, "a", <<Match("b")>>),
   Profile(<<Node("a", None)>>, "a", <<Match("DIRECT"), Match("PROXY")>>),
   Profile(<<Node("a", "c"), Node("b", "d")>>, "d", << >>)}
Bundle(n, u) ==
  [kind |-> "velum-enrollment", version |-> 1, node |-> n, named |-> TRUE, reachable |-> TRUE,
   server |-> Server(TRUE), principal |-> "1",
   credential |-> [hex |-> TRUE, bytes |-> 32, upper |-> u], trust |-> "system"]
MCBundles == {Bundle("a", TRUE), Bundle("-", FALSE), [Bundle("a", FALSE) EXCEPT !.reachable = FALSE]}
=============================================================================
