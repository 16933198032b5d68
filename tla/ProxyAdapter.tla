---------------------------- MODULE ProxyAdapter ----------------------------
(***************************************************************************)
(* The loopback proxy of velum-adapter-proxy: the two listeners, one task  *)
(* per local client that reads a SOCKS5, CONNECT or absolute-form HTTP     *)
(* request, resolves and routes it, answers, and copies in both            *)
(* directions.                                                             *)
(*                                                                         *)
(* A request is what its bytes say once they are read; copied data is not  *)
(* modelled. A runtime is its generation and whether it is on line; a      *)
(* node pool opens a stream on the node asked for (module NodePool).       *)
(***************************************************************************)
EXTENDS Routing, Filters, FiniteSets, Functions

CONSTANTS
  Clients,          \* local connections
  ProxyRequests,    \* requests a client may send
  ProxyPolicy,      \* the RoutingPolicy of the adapter
  Resolutions,      \* [names -> sets of addresses]: what the resolver may answer
  MaxProxyGeneration        \* bound: reconnections

ASSUME ProxyAssumption ==
  /\ None \notin Nat /\ None # "REJECT"
  /\ \A r \in ProxyRequests : r.kind = "forward" => r.headers \in Seq(Range(r.headers))

VARIABLES
  poolMode,         \* ProxyRuntime::Pool, or Single
  adapter,          \* "new", "running", "stopped" or "refused"
  listeners,        \* those whose accept loop still runs
  client,           \* the task serving each local connection
  proxyRuntime      \* [generation, online]

proxyVars == <<poolMode, adapter, listeners, client, proxyRuntime>>

NewClient == [at |-> "none", request |-> None, route |-> None, target |-> None,
              stream |-> None, answer |-> "none", head |-> None, up |-> FALSE, down |-> FALSE]

ProxyInit ==
  /\ poolMode \in BOOLEAN
  /\ adapter = "new"
  /\ listeners = {}
  /\ client = [c \in Clients |-> NewClient]
  /\ proxyRuntime \in [generation: {1}, online: BOOLEAN]

----------------------------------------------------------------------------
(* ProxyTarget: a name needs a valid host name and a port that is not      *)
(* zero; a literal address with its port is taken as it is; one with the   *)
(* default port, or in the brackets of a URI, is checked for its port.     *)
HostnameValid(host) == host.labels # << >> /\ ~host.dotted
FromHostPort(t)  == t.port # 0 /\ HostnameValid(t.host)
FromAuthority(t) == t.form = "literal" \/ (t.form = "name" /\ FromHostPort(t))
FromHttpAuthority(t) ==
  \/ t.form \in {"bracketed", "bare literal"} /\ t.port # 0
  \/ t.form \in {"literal", "name"} /\ FromAuthority(t)
  \/ t.form = "bare name" /\ FromHostPort(t)
TargetDomain(t) == IF t.form \in {"name", "bare name"} THEN t.host ELSE None

(* read_socks5_target: CONNECT without authentication.                     *)
SocksAccepted(r) == r.ok /\ FromAuthority(r.target)

(* The CONNECT branch of read_http_request splits the whole head on white  *)
(* space, so that nothing at all may follow the version.                   *)
ConnectAccepted(r) == r.ok /\ r.headers = << >> /\ FromAuthority(r.target)

ForwardAccepted(r) == r.ok /\ FromHttpAuthority(r.target)

Accepted(r) ==
  CASE r.kind = "socks"   -> SocksAccepted(r)
    [] r.kind = "connect" -> ConnectAccepted(r)
    [] r.kind = "forward" -> ForwardAccepted(r)

(* parse_forward_request: the headers that do not go on. Connection may    *)
(* name a header that came before it.                                      *)
ThisHop == {"host", "connection", "proxy-connection", "proxy-authorization", "keep-alive"}
ConnectionTokens(headers) ==
  UNION {headers[i].tokens : i \in {j \in DOMAIN headers :
                                      headers[j].name \in {"connection", "proxy-connection"}}}

(* Mutant: one pass, which drops only what Connection named so far.        *)
RewrittenInOnePass(headers) ==
  <<"host", "connection">> \o
  LET kept == {i \in DOMAIN headers :
                 headers[i].name \notin ThisHop \cup ConnectionTokens(SubSeq(headers, 1, i))}
  IN [k \in 1 .. Cardinality(kept) |->
        headers[CHOOSE i \in kept : Cardinality({j \in kept : j < i}) = k - 1].name]

(* The rewritten head: the authority's Host and Connection: close first.   *)
RewrittenHead(headers) ==
  LET kept == Retained(headers, {h \in Range(headers) :
                                   h.name \notin ThisHop \cup ConnectionTokens(headers)})
  IN <<"host", "connection">> \o [i \in DOMAIN kept |-> kept[i].name]

----------------------------------------------------------------------------
(* The runtime under the adapter.                                          *)
ProxyOnline(generation) == proxyRuntime = [generation |-> generation, online |-> TRUE]

ProxyRuntimeChanges ==
  /\ \/ /\ ~proxyRuntime.online /\ proxyRuntime.generation < MaxProxyGeneration
        /\ proxyRuntime' = [generation |-> proxyRuntime.generation + 1, online |-> TRUE]
     \/ /\ proxyRuntime.online
        /\ proxyRuntime' = [proxyRuntime EXCEPT !.online = FALSE]
  /\ UNCHANGED <<poolMode, adapter, listeners, client>>

(* start_with_source: the default node is on line and both loopback ports  *)
(* can be bound.                                                           *)
ProxyStart(bound) ==
  /\ adapter = "new"
  /\ adapter' = IF proxyRuntime.online /\ bound THEN "running" ELSE "refused"
  /\ listeners' = IF proxyRuntime.online /\ bound THEN {4, 6} ELSE {}
  /\ UNCHANGED <<poolMode, client, proxyRuntime>>

(* stop, or the drop of the adapter. The clients' tasks are detached.      *)
ProxyStop ==
  /\ adapter = "running"
  /\ adapter' = "stopped"
  /\ UNCHANGED <<poolMode, listeners, client, proxyRuntime>>

(* An accept loop ends when it sees the stop, or when accept fails.        *)
ListenerEnds(l) ==
  /\ l \in listeners
  /\ listeners' = listeners \ {l}
  /\ UNCHANGED <<poolMode, adapter, client, proxyRuntime>>

Step(c, from, next) ==
  /\ client[c].at = from
  /\ client' = [client EXCEPT ![c] = next]
  /\ UNCHANGED <<poolMode, adapter, listeners, proxyRuntime>>
MovedTo(c, at) == [client[c] EXCEPT !.at = at]

ProxyAccept(l, c, request) ==
  /\ l \in listeners
  /\ Step(c, "none", [client[c] EXCEPT !.at = "reading", !.request = request])

(* read_request; serve gives up without an answer on a bad one.            *)
ReadRequest(c) ==
  /\ client[c].at = "reading"
  /\ Step(c, "reading", MovedTo(c, IF Accepted(client[c].request) THEN "resolving" ELSE "unread"))

ResolvedTo(t) ==
  IF TargetDomain(t) = None THEN {t.ip} ELSE Resolutions[t.host.labels]

(* resolve, and the routing decision on the address it gave. A rejected    *)
(* client is told so.                                                      *)
ResolveAndRoute(c, ip) ==
  LET t           == client[c].request.target
      destination == [ip |-> ip, port |-> t.port]
      route       == Decide(ProxyPolicy, TargetDomain(t), destination)
  IN Step(c, "resolving",
          CASE route = "REJECT" ->
                 [client[c] EXCEPT !.at = "closed", !.route = route, !.answer = "forbidden"]
            [] route = "DIRECT" ->
                 [client[c] EXCEPT !.at = "connecting", !.route = route, !.target = destination]
            [] OTHER ->
                 [client[c] EXCEPT !.at = "opening", !.route = route, !.target = destination])

ClientFails(c) == \E from \in {"reading", "resolving", "connecting", "opening", "answering"} :
                    Step(c, from, MovedTo(c, "closed"))

(* A stream is its generation; a connection of the proxy's own has 0.      *)
Direct == 0
DirectConnects(c) ==
  Step(c, "connecting", [client[c] EXCEPT !.at = "answering", !.stream = Direct])

(* relay_proxy. A single runtime has no nodes; the pool opens a stream on  *)
(* the node of the rule, or on its default one.                            *)
StreamOpened(c) ==
  /\ proxyRuntime.online
  /\ client[c].route = "PROXY" \/ poolMode
  /\ Step(c, "opening", [client[c] EXCEPT !.at = "checking", !.stream = proxyRuntime.generation])
NodeRefused(c) ==
  /\ client[c].route # "PROXY" /\ ~poolMode
  /\ Step(c, "opening", MovedTo(c, "closed"))

(* The second look at the generation, of the single runtime only: a pool   *)
(* has looked at it itself.                                                *)
StreamChecked(c) ==
  /\ client[c].at = "checking"
  /\ Step(c, "checking", MovedTo(c, IF poolMode \/ ProxyOnline(client[c].stream)
                                    THEN "answering" ELSE "closed"))

(* write_success and the rewritten head; an HTTP client gets no answer of  *)
(* the proxy's own.                                                        *)
ClientAnswered(c) ==
  Step(c, "answering",
       [client[c] EXCEPT
          !.at = "relaying", !.up = TRUE, !.down = TRUE,
          !.answer = IF client[c].request.kind = "forward" THEN "none" ELSE "success",
          !.head = IF client[c].request.kind = "forward"
                   THEN RewrittenHead(client[c].request.headers) ELSE None])

(* relay_halves: the client's end only ends its own direction; the other  *)
(* one, whatever its reason, ends both. relay_direct waits for both to     *)
(* end, or for the first error.                                            *)
Relayed(c) == [client[c] EXCEPT !.at = "closed", !.up = FALSE, !.down = FALSE]
UpstreamEnds(c) ==
  /\ client[c].up
  /\ Step(c, "relaying", IF client[c].stream = Direct /\ ~client[c].down
                         THEN Relayed(c) ELSE [client[c] EXCEPT !.up = FALSE])
DownstreamEnds(c) ==
  /\ client[c].down
  /\ Step(c, "relaying", IF client[c].stream = Direct /\ client[c].up
                         THEN [client[c] EXCEPT !.down = FALSE] ELSE Relayed(c))
DirectBreaks(c) == client[c].stream = Direct /\ Step(c, "relaying", Relayed(c))

ProxyNext ==
  \/ ProxyRuntimeChanges \/ ProxyStop
  \/ \E bound \in BOOLEAN : ProxyStart(bound)
  \/ \E l \in {4, 6} : ListenerEnds(l)
  \/ \E c \in Clients :
       \/ \E l \in {4, 6}, r \in ProxyRequests : ProxyAccept(l, c, r)
       \/ ReadRequest(c) \/ ClientFails(c)
       \/ client[c].at = "resolving" /\ \E ip \in ResolvedTo(client[c].request.target) :
            ResolveAndRoute(c, ip)
       \/ DirectConnects(c) \/ StreamOpened(c) \/ NodeRefused(c) \/ StreamChecked(c)
       \/ ClientAnswered(c) \/ UpstreamEnds(c) \/ DownstreamEnds(c) \/ DirectBreaks(c)

ProxySpec == ProxyInit /\ [][ProxyNext]_proxyVars

----------------------------------------------------------------------------
Occurrences(names, name) == Cardinality({i \in DOMAIN names : names[i] = name})

(* An absolute-form request goes on with one Host and one Connection, no   *)
(* header of this hop and none the client's Connection named, wherever it  *)
(* stood; every other header goes on, as often as it came.                 *)
HeadIsClean(head, headers) ==
  \A name \in Range(head) \cup {headers[i].name : i \in DOMAIN headers} :
    Occurrences(head, name) =
      IF name \in {"host", "connection"} THEN 1
      ELSE IF name \in ThisHop \cup ConnectionTokens(headers) THEN 0
      ELSE Cardinality({i \in DOMAIN headers : headers[i].name = name})

(* A local client is served as the policy routed it, whatever the runtime  *)
(* and the adapter do meanwhile: told of success only over an open way     *)
(* out, never let out when it was rejected, never sent by the default node *)
(* when its rule names another one, never let out directly but by DIRECT;  *)
(* and what it sends first is a clean head.                                *)
ServedAsRouted ==
  \A c \in Clients :
    /\ client[c].answer = "success" => client[c].stream # None
    /\ client[c].route = "REJECT" =>
         client[c].at = "closed" /\ client[c].answer = "forbidden" /\ client[c].stream = None
    /\ client[c].stream = Direct => client[c].route = "DIRECT"
    /\ client[c].stream # None /\ ~poolMode => client[c].route \in {"PROXY", "DIRECT"}
    /\ client[c].head # None => HeadIsClean(client[c].head, client[c].request.headers)

(* docs/adr/0015-desktop-system-proxy.md: the adapter "supports HTTP       *)
(* CONNECT". A CONNECT request that is right in every part, header fields  *)
(* included, is not dropped unread.                                        *)
ConnectRequestsRead ==
  \A c \in Clients :
    client[c].at = "unread" =>
      ~(/\ client[c].request.kind = "connect" /\ client[c].request.ok
        /\ FromAuthority(client[c].request.target))
=============================================================================
