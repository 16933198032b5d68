----------------------------- MODULE TunAdapter -----------------------------
(***************************************************************************)
(* Flow ownership of velum-adapter-tun: the flow leases of a TUN           *)
(* installation, its UDP engine (frame queue, leases, datagram sessions)   *)
(* and its TCP relays, over a runtime that goes off line and comes back    *)
(* with another generation.                                                *)
(*                                                                         *)
(* Every engine call borrows the engine, so one call runs at a time; what  *)
(* interleaves with it, at its awaits, is the runtime and the network. A   *)
(* frame is what its headers say of it; its bytes and checksums are not    *)
(* modelled.                                                               *)
(***************************************************************************)
EXTENDS Naturals, Sequences, FiniteSets, Functions, FiniteSetsExt

CONSTANTS
  Absent,
  TunFlows,         \* FlowKeys: [protocol, family, id, destination]
  TunFrames,        \* frames the platform reads: [version, header, fragment, protocol,
                    \*   transport, port, flow, size]
  Payloads,         \* sizes of relay responses
  MaxTcpFlows, MaxUdpAssociations,        \* TunAdapterLimits
  QueueCapacity, Mtu,                     \* TunFrameQueue
  MaxSession,       \* the largest session identifier: 2^64 - 1 in the code
  MaxRuntimeGeneration                    \* bound: reconnections

ASSUME TunAdapterAssumption ==
  /\ {MaxTcpFlows, MaxUdpAssociations, QueueCapacity} \subseteq Nat \ {0}   \* validate
  /\ Mtu \in Nat /\ Mtu >= 576
  /\ MaxSession \in Nat /\ MaxSession > MaxUdpAssociations
  /\ Absent \notin TunFlows /\ \A frame \in TunFrames : frame.flow \in TunFlows
  /\ Payloads \subseteq Nat

VARIABLES
  runtime,          \* RuntimeSnapshot: [generation, online]
  leases,           \* the UDP engine's TunFlowRegistry.flows: flow -> generation
  sessionOf,        \* UdpAssociationTable.by_flow
  flowOf,           \* UdpAssociationTable.by_session
  nextSession,
  inbound, outbound,        \* TunFrameQueue
  engine,           \* the engine call in progress
  tcpLeases,        \* the TunFlowRegistry the TCP relays were opened from
  opening,          \* its open_tcp in progress
  relays,           \* TunTcpRelay: flow -> [generation, stream, at]
  stack             \* TunStack.device, another TunFrameQueue: [inbound, outbound]

udpVars == <<leases, sessionOf, flowOf, nextSession, inbound, outbound, engine>>
tcpVars == <<tcpLeases, opening, relays, stack>>
tunVars == <<runtime, leases, sessionOf, flowOf, nextSession, inbound, outbound, engine,
             tcpLeases, opening, relays, stack>>

TunSessionIds == 1 .. MaxSession
Idle == [call |-> "none"]

TunInit ==
  /\ runtime = [generation |-> 0, online |-> FALSE]
  /\ leases = << >> /\ sessionOf = << >> /\ flowOf = << >>
  /\ nextSession = 1
  /\ inbound = << >> /\ outbound = << >>
  /\ engine = Idle
  /\ tcpLeases = << >> /\ opening = Idle /\ relays = << >>
  /\ stack = [inbound |-> << >>, outbound |-> << >>]

With(f, key, value) == [k \in DOMAIN f \cup {key} |-> IF k = key THEN value ELSE f[k]]
Without(f, key) == Restrict(f, DOMAIN f \ {key})

----------------------------------------------------------------------------
(* The runtime: a connection comes up under a new generation, or goes.     *)
RuntimeOnline ==
  /\ ~runtime.online
  /\ runtime.generation < MaxRuntimeGeneration
  /\ runtime' = [generation |-> runtime.generation + 1, online |-> TRUE]
  /\ UNCHANGED <<udpVars, tcpVars>>

(* stop takes a generation of its own; a failed connection keeps its own.  *)
RuntimeOffline ==
  /\ runtime.online
  /\ \E g \in {runtime.generation, runtime.generation + 1} :
       runtime' = [generation |-> g, online |-> FALSE]
  /\ UNCHANGED <<udpVars, tcpVars>>

GenerationOnline(generation) == runtime = [generation |-> generation, online |-> TRUE]

----------------------------------------------------------------------------
(* classify_ip_packet: the flow of a frame, or Absent.                     *)
Classify(frame, versions) ==
  IF /\ frame.version \in versions
     /\ frame.header /\ ~frame.fragment
     /\ frame.protocol \in {"tcp", "udp"}
     /\ frame.transport
     /\ frame.port # 0
  THEN frame.flow ELSE Absent

(* udp_payload and the IPv4 classification forward_udp begins with.        *)
UdpFlow(frame) ==
  LET flow == Classify(frame, {4})
  IN IF flow # Absent /\ flow.protocol = "udp" THEN flow ELSE Absent

(* encode_udp_response: an IP header, a UDP header and the payload.        *)
HeaderBytes(family) == IF family = 4 THEN 20 ELSE 40
ResponseBytes(flow, size) == HeaderBytes(flow.family) + 8 + size

Limit(protocol) == IF protocol = "tcp" THEN MaxTcpFlows ELSE MaxUdpAssociations

(* admit and admit_new: Absent when refused. A lease of another generation *)
(* goes first; the leases that remain count, whatever their generation.    *)
Kept(flows, key) ==
  IF key \in DOMAIN flows /\ flows[key] # runtime.generation THEN Without(flows, key) ELSE flows
Admits(flows, key) ==
  /\ GenerationOnline(runtime.generation)
  /\ \/ key \in DOMAIN Kept(flows, key)
     \/ Cardinality({k \in DOMAIN Kept(flows, key) : k.protocol = key.protocol})
          < Limit(key.protocol)
Admitted(flows, key) ==
  IF Admits(flows, key) THEN With(Kept(flows, key), key, runtime.generation)
  ELSE IF runtime.online THEN Kept(flows, key) ELSE flows

IsActive(flows, key, generation) ==
  /\ GenerationOnline(generation)
  /\ key \in DOMAIN flows /\ flows[key] = generation

----------------------------------------------------------------------------
(* The frame queue of the UDP engine.                                      *)
PushInbound(frame) ==
  /\ engine = Idle
  /\ frame.size <= Mtu
  /\ Len(inbound) # QueueCapacity
  /\ inbound' = Append(inbound, frame)
  /\ UNCHANGED <<runtime, leases, sessionOf, flowOf, nextSession, outbound, engine, tcpVars>>

PopOutbound ==
  /\ engine = Idle
  /\ outbound # << >>
  /\ outbound' = Tail(outbound)
  /\ UNCHANGED <<runtime, leases, sessionOf, flowOf, nextSession, inbound, engine, tcpVars>>

(* allocate_session: the next identifier that no flow uses, wrapping past  *)
(* zero.                                                                   *)
After(id) == IF id = MaxSession THEN 1 ELSE id + 1
NextFree ==
  CHOOSE id \in TunSessionIds \ DOMAIN flowOf :
    LET distance(i) == (i + MaxSession - nextSession) % MaxSession
    IN \A other \in TunSessionIds \ DOMAIN flowOf : distance(id) <= distance(other)

(* forward_next up to its await: the frame is gone whatever happens to it. *)
(* session_for comes after the lease, which a refused session leaves.      *)
ForwardNext ==
  /\ engine = Idle
  /\ inbound # << >>
  /\ inbound' = Tail(inbound)
  /\ LET flow == UdpFlow(Head(inbound))
     IN IF flow = Absent \/ ~Admits(leases, flow)
        THEN /\ leases' = IF flow = Absent THEN leases ELSE Admitted(leases, flow)
             /\ UNCHANGED <<sessionOf, flowOf, nextSession, engine>>
        ELSE /\ leases' = Admitted(leases, flow)
             /\ \/ /\ flow \in DOMAIN sessionOf
                   /\ engine' = [call |-> "forward", flow |-> flow, session |-> sessionOf[flow],
                                 generation |-> runtime.generation]
                   /\ UNCHANGED <<sessionOf, flowOf, nextSession>>
                \/ /\ flow \notin DOMAIN sessionOf
                   /\ Cardinality(DOMAIN sessionOf) = MaxUdpAssociations
                   /\ UNCHANGED <<sessionOf, flowOf, nextSession, engine>>
                \/ /\ flow \notin DOMAIN sessionOf
                   /\ Cardinality(DOMAIN sessionOf) # MaxUdpAssociations
                   /\ sessionOf' = With(sessionOf, flow, NextFree)
                   /\ flowOf' = With(flowOf, NextFree, flow)
                   /\ nextSession' = After(NextFree)
                   /\ engine' = [call |-> "forward", flow |-> flow, session |-> NextFree,
                                 generation |-> runtime.generation]
  /\ UNCHANGED <<runtime, outbound, tcpVars>>

(* The datagram is sent, or the runtime refuses; either way the call ends. *)
ForwardReturns ==
  /\ engine.call = "forward"
  /\ engine' = Idle
  /\ UNCHANGED <<runtime, leases, sessionOf, flowOf, nextSession, inbound, outbound, tcpVars>>

(* receive_next up to the datagram: the relay may answer on any session    *)
(* and claim any source, on the connection that is then active.            *)
ReceiveNext ==
  /\ engine = Idle
  /\ runtime.online
  /\ engine' = [call |-> "receive", generation |-> runtime.generation]
  /\ UNCHANGED <<runtime, leases, sessionOf, flowOf, nextSession, inbound, outbound, tcpVars>>

ReceiveFails ==
  /\ engine.call = "receive"
  /\ ~GenerationOnline(engine.generation)
  /\ engine' = Idle
  /\ UNCHANGED <<runtime, leases, sessionOf, flowOf, nextSession, inbound, outbound, tcpVars>>

DatagramArrives(session, source, size) ==
  /\ engine.call = "receive"
  /\ GenerationOnline(engine.generation)
  /\ engine' = [call |-> "received", generation |-> engine.generation,
                session |-> session, source |-> source, size |-> size]
  /\ UNCHANGED <<runtime, leases, sessionOf, flowOf, nextSession, inbound, outbound, tcpVars>>

(* Mutant: receive_udp forgets to check the lease.                         *)
DeliverableUnleased ==
  /\ engine.session \in DOMAIN flowOf
  /\ flowOf[engine.session].destination = engine.source
  /\ ResponseBytes(flowOf[engine.session], engine.size) <= Mtu
  /\ Len(outbound) # QueueCapacity

(* flow_for_response and the checks of receive_udp on the way to the queue.*)
Deliverable ==
  /\ engine.session \in DOMAIN flowOf
  /\ flowOf[engine.session].destination = engine.source
  /\ IsActive(leases, flowOf[engine.session], runtime.generation)
  /\ ResponseBytes(flowOf[engine.session], engine.size) <= Mtu
  /\ Len(outbound) # QueueCapacity

ReceiveReturns ==
  /\ engine.call = "received"
  /\ outbound' = IF Deliverable
                 THEN Append(outbound, [flow |-> flowOf[engine.session],
                                        generation |-> engine.generation,
                                        size |-> ResponseBytes(flowOf[engine.session], engine.size)])
                 ELSE outbound
  /\ engine' = Idle
  /\ UNCHANGED <<runtime, leases, sessionOf, flowOf, nextSession, inbound, tcpVars>>

(* Mutant: clear forgets the session table.                                *)
ClearEngineLeases ==
  /\ engine = Idle
  /\ leases' = << >>
  /\ UNCHANGED <<runtime, sessionOf, flowOf, nextSession, inbound, outbound, engine, tcpVars>>

ClearEngine ==
  /\ engine = Idle
  /\ leases' = << >> /\ sessionOf' = << >> /\ flowOf' = << >>
  /\ UNCHANGED <<runtime, nextSession, inbound, outbound, engine, tcpVars>>

----------------------------------------------------------------------------
(* TCP: open_tcp admits, then awaits the stream, then checks again. A call *)
(* that fails leaves the lease it admitted.                                *)
OpenTcp(flow) ==
  /\ opening = Idle
  /\ flow.protocol = "tcp"
  /\ tcpLeases' = Admitted(tcpLeases, flow)
  /\ opening' = IF Admits(tcpLeases, flow)
                THEN [call |-> "open", flow |-> flow, generation |-> runtime.generation,
                      stream |-> Absent]
                ELSE Idle
  /\ UNCHANGED <<runtime, udpVars, relays, stack>>

(* active_client: the stream belongs to the generation online by then.     *)
StreamOpens ==
  /\ opening.call = "open" /\ opening.stream = Absent
  /\ runtime.online
  /\ opening' = [opening EXCEPT !.stream = runtime.generation]
  /\ UNCHANGED <<runtime, udpVars, tcpLeases, relays, stack>>

OpenTcpReturns ==
  /\ opening.call = "open" /\ opening.stream # Absent
  /\ relays' = IF /\ GenerationOnline(opening.stream)
                  /\ IsActive(tcpLeases, opening.flow, opening.generation)
               THEN With(relays, opening.flow,
                         [generation |-> opening.generation, stream |-> opening.stream,
                          at |-> "ready"])
               ELSE relays
  /\ opening' = Idle
  /\ UNCHANGED <<runtime, udpVars, tcpLeases, stack>>

OpenTcpFails ==
  /\ opening.call = "open"
  /\ opening' = Idle
  /\ UNCHANGED <<runtime, udpVars, tcpLeases, relays, stack>>

(* write_all, read and finish check the generation before the transfer,    *)
(* and the first two again after it.                                       *)
RelayBegins(flow) ==
  /\ relays[flow].at = "ready"
  /\ relays' = [relays EXCEPT ![flow].at =
                  IF GenerationOnline(relays[flow].generation) THEN "busy" ELSE "stale"]
  /\ UNCHANGED <<runtime, udpVars, tcpLeases, opening, stack>>

RelayEnds(flow) ==
  /\ relays[flow].at = "busy"
  /\ relays' = [relays EXCEPT ![flow].at =
                  IF GenerationOnline(relays[flow].generation) THEN "ready" ELSE "stale"]
  /\ UNCHANGED <<runtime, udpVars, tcpLeases, opening, stack>>

(* The owner drops the relay of a closed flow and releases its lease.      *)
Release(flow) ==
  /\ opening = Idle
  /\ flow \in DOMAIN tcpLeases
  /\ tcpLeases' = Without(tcpLeases, flow)
  /\ relays' = Without(relays, flow)
  /\ UNCHANGED <<runtime, udpVars, opening, stack>>

ClearTcp ==
  /\ opening = Idle
  /\ tcpLeases' = << >>
  /\ relays' = << >>
  /\ UNCHANGED <<runtime, udpVars, opening, stack>>

----------------------------------------------------------------------------
(* The smoltcp device of a TunStack. A poll takes every queued frame, even *)
(* when there is no room for what it answers; what it sends by itself      *)
(* waits for room.                                                         *)
StackPush(frame) ==
  /\ frame.size <= Mtu
  /\ Len(stack.inbound) # QueueCapacity
  /\ stack' = [stack EXCEPT !.inbound = Append(@, frame)]
  /\ UNCHANGED <<runtime, udpVars, tcpLeases, opening, relays>>

(* TunTxToken::consume: a frame too long or one too many is dropped.       *)
Transmitted(out, size) ==
  IF size <= Mtu /\ Len(out) < QueueCapacity THEN Append(out, size) ELSE out

StackReceives(sizes) ==
  /\ stack.inbound # << >>
  /\ stack' = [inbound |-> Tail(stack.inbound),
               outbound |-> IF sizes = {} THEN stack.outbound
                            ELSE Transmitted(stack.outbound, Max(sizes))]
  /\ UNCHANGED <<runtime, udpVars, tcpLeases, opening, relays>>

StackTransmits(size) ==
  /\ Len(stack.outbound) < QueueCapacity
  /\ stack' = [stack EXCEPT !.outbound = Transmitted(@, size)]
  /\ UNCHANGED <<runtime, udpVars, tcpLeases, opening, relays>>

StackPop ==
  /\ stack.outbound # << >>
  /\ stack' = [stack EXCEPT !.outbound = Tail(@)]
  /\ UNCHANGED <<runtime, udpVars, tcpLeases, opening, relays>>

StackNext ==
  \/ \E frame \in TunFrames : StackPush(frame)
  \/ \E size \in Payloads : StackReceives({size}) \/ StackTransmits(size)
  \/ StackReceives({}) \/ StackPop

RuntimeNext == RuntimeOnline \/ RuntimeOffline

UdpNext ==
  \/ \E frame \in TunFrames : PushInbound(frame)
  \/ PopOutbound \/ ForwardNext \/ ForwardReturns
  \/ ReceiveNext \/ ReceiveFails \/ ReceiveReturns
  \/ \E id \in TunSessionIds, f \in TunFlows, size \in Payloads :
       DatagramArrives(id, f.destination, size)
  \/ ClearEngine

TcpNext ==
  \/ \E f \in TunFlows : OpenTcp(f) \/ Release(f)
  \/ StreamOpens \/ OpenTcpReturns \/ OpenTcpFails
  \/ \E f \in DOMAIN relays : RelayBegins(f) \/ RelayEnds(f)
  \/ ClearTcp

TunNext == RuntimeNext \/ UdpNext \/ TcpNext \/ StackNext
TunSpec == TunInit /\ [][TunNext]_tunVars

----------------------------------------------------------------------------
(* The UDP engine admits a flow and then takes it a session, from two      *)
(* tables with the same limit, of which neither is ever thinned out: they  *)
(* hold the same flows, so that a session is never refused to an admitted  *)
(* flow, and the two directions of the session table agree. Leases, queues *)
(* and frames stay within their limits.                                    *)
LeasesHaveSessions ==
  /\ DOMAIN leases = DOMAIN sessionOf
  /\ Range(sessionOf) = DOMAIN flowOf
  /\ \A f \in DOMAIN sessionOf : flowOf[sessionOf[f]] = f
  /\ Cardinality(DOMAIN leases) <= MaxUdpAssociations
  /\ Cardinality(DOMAIN tcpLeases) <= MaxTcpFlows
  /\ Len(inbound) <= QueueCapacity /\ Len(outbound) <= QueueCapacity
  /\ \A i \in DOMAIN outbound : outbound[i].size <= Mtu
  /\ Len(stack.inbound) <= QueueCapacity /\ Len(stack.outbound) <= QueueCapacity

(* A response reaches the TUN only on the connection the flow was leased   *)
(* under, while it is on line, and a TCP relay's stream belongs to the     *)
(* generation its flow was admitted under, however the runtime stopped and *)
(* restarted while the call was waiting.                                   *)
NoStaleTraffic ==
  [][/\ Len(outbound') > Len(outbound) =>
          LET frame == outbound'[Len(outbound')]
          IN /\ GenerationOnline(frame.generation)
             /\ frame.flow \in DOMAIN leases /\ leases[frame.flow] = frame.generation
     /\ \A f \in DOMAIN relays' : relays'[f].stream = relays'[f].generation
    ]_tunVars
=============================================================================
