# Velum: TLA+ models and proofs

Velum is a client and a relay: a client opens streams and datagrams through a
QUIC connection to a relay node, which authenticates them and relays them to
allowed targets. Above the carrier there is a logical session that survives the
replacement of its carrier. This directory holds TLA+ models of the parts whose
correctness depends on order: what happens when calls overlap, messages are
lost, a connection disappears in the middle of a handshake, or a limit is hit.

`PROJECT.json` lists every component, every run, the definition-to-source map,
the hazards in the code and the findings. To check a run:

    tlc -workers 2 -config MCSessionFlows.cfg MCSessionFlows
    tlapm SessionFlowsProofs.tla

## 1. The system

| Part | State | Operations | What is hard |
| --- | --- | --- | --- |
| `velum-session` `SessionTracer` | flows with cursors and retransmission queues, session-wide counters, epoch window, two attachment slots, replay window | open/send/acknowledge/receive/finish/reset/close a flow, time, transitions, attachments | counters given back on four paths, lifetimes, frames of two epochs, replayed proofs |
| `velum-session` dispatcher | the session, a negotiation hash | one frame at a time from some carrier | frames of a retiring and an accepted carrier interleave |
| `velum-session` simulator, campaign | two sessions and a scripted carrier | lose, duplicate, delay, resume | end-to-end delivery over a transition |
| `velum-client-runtime` | snapshot, lifecycle task, client | start, stop, open stream, drop | late results of superseded starts, asynchronous abort, `Weak` upgrade |
| `velum-client-engine` `NodePool` | generation, active profile, one lazily started runtime per node | activate, stop, lookup, open stream | three locks taken at different times across awaits |
| `velum-client-ffi` | handle table, command mutex per entry, streams with cancellation | C calls from any host thread | a call keeps an entry that another thread destroys |
| `velum-server` | sessions and flows per principal | open and close leases | partial failure between two critical sections |
| `velum-node` listener and relay | tasks per connection and stream, status counters | accept, admit, relay, drain, shutdown, abort | accounting on every error path, flows that wait for a silent target, bounded shutdown |
| `velum-node` datagrams | associations, detached response tasks | forward, prune, respond, shut down | tasks that outlive what they serve |
| `velum-node` service | phase, control channel, admin socket, cover connections | serve, status, drain, reload, shutdown, signals, deploy | controls overlapping with each other and with the end of the loop |
| `velum-node` operator's files | configuration, secret files, certificate and key | init, setup, issue, revoke, uninstall, obtain, renew | several files changed one after the other; a failure or a crash in between |
| `velum-protocol`, `velum-helper-protocol` | decoder buffers | encode, decode, negotiate | input cut anywhere, limits on both sides |
| `velum-adapter-proxy` | listeners, one task per local client | read, route, open, answer, copy | the runtime stops between two awaits; header rewriting |
| `velum-adapter-tun` | fake DNS table, flow leases, UDP sessions, queues; on Android a run slot, routes and detached tasks | allocate, decide, forward, receive, open, clear; run, stop | address reuse, stale leases, routes copied out of a lock, tasks that must all end |
| `velum-client-routing` | none | first matching rule | masks and boundaries |
| `velum-client-profile`, engine of `velum-client-ffi` | documents; engine handle with pool and proxy | normalise; create, activate, stop, destroy, proxy | references, proxy of a replaced profile |
| `velum-desktop-traffic-host` | state, response cache, journal, installed routes | start, stop, recover, query | crash between two system changes, retries |
| `velum-forest` | active profile, kill switch | rotate, disable, answer | rotation against expiry |
| Flutter controllers, Android service | asynchronous command state | start, stop, switch mode | overlapping commands, results out of order |

How they interact: the FFI owns runtimes (or a `NodePool` of them) behind
handles; a runtime owns one carrier connection and its watching task; the
adapters call `open_stream` of the runtime or of the pool; the node's listener
spawns connection tasks, these spawn stream tasks, and all of them share
`AdmissionControl`; a connection's loop feeds `DatagramRelay`. The session
layer is a library with its own simulator, independent of the relay path.

### What makes the parts correct

* Session: counters equal what the queues hold; no limit is exceeded; nothing
  overdue is kept; a segment is delivered at most once, in order, and forgotten
  only after it was delivered; a frame takes effect only with an attachment and
  in an epoch that authorises it; one attachment identity per epoch.
* Runtime: online means owning the connection of the current generation;
  nothing superseded comes back; stop returns; no transport is leaked.
* Pool: one runtime per node and profile; none is left running behind a
  replaced profile; streams belong to the active profile.
* FFI: no stream outlives its runtime; destroyed means stopped; commands and
  cancelled transfers return.
* Relay: leases and flow counts are exact on every path; one principal per
  connection; shutdown ends within its bound.
* Datagrams: no response task without an association or an order to end; an
  identifier in use keeps its target.
* TUN: a fake address means one name while a client may use it; the first
  matching rule decides; a response reaches only the flow it belongs to, on the
  connection it was leased under; a stopped engine leaves nothing behind.
* Proxy: a client is told of success only over an open way out, and never let
  out otherwise than its rule says.
* Traffic host: routes are never installed without a record of them on disk; an
  older profile never replaces a newer one; a retry is not executed twice.
* Documents and engine: what was normalised normalises to itself; the engine
  serves the profile it was given, its proxy included.
* Operator's files: an issued credential works until it is revoked and never
  again; a certificate and its key are replaced as a whole or not at all.
* Service: a control that was confirmed is carried out; a profile that was
  rotated out does not return.
* Wire: what a decoder delivers is what was sent; what one side may build at its
  limit the other side reads.

## 2. The modules

| Module | Models | State and actions |
| --- | --- | --- |
| `Totals` | sums used by the accounting | a recursive function |
| `Filters` | what `retain` leaves of a list | a recursive function |
| `SessionFlows` | `SessionTracer` (flows), `TransitionState` | the struct's fields under their names; one action per public call; an error that records an event is an action, an error that changes nothing a stuttering step |
| `SessionTracer` | `SessionTracer` (attachments), `AttachmentAuthenticator`, replay window | extends `SessionFlows` by the two attachment slots; a proof is the set of contexts it binds; shown to implement `SessionFlows` (`FlowsSpec`) |
| `SessionDispatcher` | `SessionFrameDispatcher` | extends `SessionTracer`; one action per branch of `dispatch` |
| `ReliableChannel` | what an application expects of a flow | abstract: what is delivered is a prefix of what was sent, what is confirmed was delivered |
| `SessionTransfer` | simulator and campaign | two instances of `SessionFlows` and a set of frames in flight, from which any subset is lost, duplicated or reordered; implements `ReliableChannel` (`ChannelSpec`) |
| `RuntimeLifecycle` | `Lifecycle` in `state.rs` | abstract phase and generation |
| `ClientRuntime` | `ClientRuntime` | a task per generation, `stop` split at its two publications and its join, `open_stream` at its awaits; implements `RuntimeLifecycle` (`LifecycleSpec`) |
| `NodePool` | `NodePool` | program counters of concurrent `activate`, `stop` and lookups, split wherever a lock is released or an await may suspend |
| `ClientControl` | `control.rs`, `streams.rs`, `handles.rs` | one action per critical section of the handle table, mutexes held across actions; the runtime behind a handle follows `RuntimeLifecycle` (`RuntimesFollowLifecycle`) |
| `RelayNode` | `listener.rs`, `lib.rs`, `velum-server` | connection and stream tasks, the session mutex and the quota table |
| `DatagramRelay` | `datagram.rs` | associations named by their sockets, one response task per socket |
| `AndroidTun` | `android.rs`, `tun.rs` of the FFI | the run slot, each run's watch channel, accept loop, datagram receiver and UDP and TCP tasks, one action per await |
| `Routing` | `velum-client-routing` | pure: rules, masks, ports, `Decide` |
| `TunPolicy` | `TunPolicyEngine`, `FakeDnsTable` | the table with expiry and order of insertion, the next address of each family, the last decision |
| `TunAdapter` | `TunFlowRegistry`, `UdpAssociationTable`, `TunFrameQueue`, `TunUdpEngine`, `TunTcpRelay`, `TunStack` | leases, both directions of the session table, queues; calls split where they await the runtime |
| `ProxyAdapter` | `velum-adapter-proxy` | adapter, listeners, one program counter per client |
| `ClientProfile` | `velum-client-profile`, `engine.rs`, `profile.rs`, `enrollment.rs` of the FFI | normalisation as operators; the engine handle and the commands of two threads |
| `TrafficHost` | `velum-desktop-traffic-host` | host, cache, journal and routes; a request is split between any two changes outside the process |
| `NodeConfig` | `config.rs`, `enrollment.rs`, `setup.rs`, `uninstall.rs`, option parsing of `cli.rs` | files and the running command; one action per file operation, each of which may fail |
| `CertificateFiles` | `acme.rs`, certificate part of `setup.rs`, reload in `cli.rs`, `admin.rs`, `listener.rs` | live, staged and backup files, the command and the relay |
| `Forest` | `velum-forest` | cover answers as operators; profile store and kill switch |
| `NodeService` | `serve` in `cli.rs`, `admin.rs`, `cover_listener.rs`, `deployment.rs` | extends `Forest`; the process, its control channel and its tasks |
| `Wire` | `velum-protocol`, `velum-helper-protocol`, the open request of `velum-client-api` and `velum-node` | layouts, encoders and decoders as operators; two incremental decoders, a handshake, one record on its way |
| `SessionFlowsProofs`, `SessionDispatcherProofs`, `SessionTransferProofs`, `ClientRuntimeProofs`, `ClientControlProofs`, `EngineProofs`, `RelayNodeProofs`, `ComponentProofs` | | proofs, section 4; `SessionTransferProofs` is also about `Wire`, `ClientRuntimeProofs` about `AndroidTun`, `EngineProofs` is about `NodePool`, `ClientProfile`, `TunPolicy` with `Routing`, and `ProxyAdapter`, `ComponentProofs` about `TrafficHost`, `TunAdapter`, `NodeService` with `Forest`, `CertificateFiles`, `DatagramRelay` and `NodeConfig` |
| `MCClientLifecycles` | | the run of `ClientRuntime` and `AndroidTun`, of which a behaviour chooses one |
| `MCComponents` | | the run of the modules from `TunPolicy` to `Wire`; they share no variables, a behaviour chooses one of them and the others rest |
| other `MC*` | | symmetry sets and constant definitions for TLC |

Definitions headed "Mutant" are plausible mistakes in the code. No
specification uses them; each makes some property fail when it takes the place
of the definition it imitates, which shows that the property can fail.

### Abstractions

* In `SessionFlows` and the modules on it, payloads are their lengths; credentials a choice of principal; addresses
  model values; time a counter.
* `checked_add().expect()` is a disabled action at the largest value of the
  counter, which the configurations set low (`FlowIdMax`, `SequenceMax`,
  `EpochMax`, `TickMax`); subtraction is not guarded, so that an underflow
  shows in `TypeOK`. The `TypeOK` of the other modules documents their state and
  is meant for their proofs.
* The attachment MAC is ideal: a proof verifies exactly in the contexts for
  which it was made, and one `Forged` proof verifies in none.
* Tasks run by tokio take a step wherever they may be suspended; `abort` takes
  effect at some later step of the executor.
* An IP packet, a request head or a document is a record of what the code reads
  from it; addresses have four bits. Only
  `Wire` has bytes, with the widths of the code and small limits.
* A file operation succeeds or fails; a rename happens or does not. Routes,
  journals and files outlive the process that wrote them.
* `NodeConfig` assumes one operator command at a time, `CertificateFiles` that
  certificate and key have different file stems (with equal ones the staging
  names of `acme.rs` collide).
* `Deploy` writes and enables the unit. The checks before it are those of `serve`,
  and systemd's start or restart of the service is a `Signal` and `ServeBinds`,
  which may happen at any time.
* Generations, leases, handles, sockets and ticks are bounded by constants
  whose comments say "bound"; everything else that is a limit is a limit of the
  code.

## 3. The runs

| Run | Configuration and bounds | Shows |
| --- | --- | --- |
| `session_flows` | 2 flows, sequences to 2, 2 epochs, ages to 2, budgets smaller than what may be sent | `TypeOK`, `AccountingExact`; `QueuesSound`: within budget, queues without gaps, nothing overdue, a resumed flow can drain; `CursorsOnlyAdvance`; under every mix of calls |
| `session_dispatch` | 1 flow, 3 epochs, 2 carriers, 2 parameter sets, forged proofs | `AttachmentsSound`: attachments agree with the epoch window, no bad request uses up an epoch, one identity and transcript per epoch; `FrameEffects`: frames take effect only when authorised and in the window; refinement of `SessionFlows` (`FlowsSpec`) |
| `session_transfer` | 2 sequences, 1 transition, timeouts | reliable channel (`ChannelSpec`), no correct acknowledgement is refused (`HonestAckAccepted`), eventual drain (`EventuallyDrained`) |
| `client_runtime` | runtime: 4 generations, 2 stopping callers, 1 opener; Android: 2 runs, 2 UDP tasks to two targets, channels of 1, 1 TCP task | `TransportsOwned`, `GenerationsApart` in races of start, late result, closure, stop and open; `CallsDecided`; refinement of `RuntimeLifecycle` (`LifecycleSpec`); `DatagramsReachTheirFlow`, `TunStops` |
| `node_pool` | 2 nodes, 2 activations, 1 stop, 2 lookups | no leaked or doubled runtime (`RuntimesOwned`), `StreamsFromActiveProfile`, `EveryCallReturns` |
| `client_control` | 2 threads, 2 handles, 3 generations | handles, streams and runtimes stay together (`HandlesSound`, `RuntimesFollowLifecycle`), nobody waits for ever without the network (`CallsReturn`) |
| `relay_node` | 2 connections, 2 streams on the first, 2 principals, 1 session each, a flow quota of 1 or of 0 | `CountsExact`: leases, flow counts and status; `ConnectionsEnd`: bounded shutdown, and clean-up after a lost connection unless a flow of it waits for ever for its target |
| `datagram_relay` | 3 identifiers, 2 allowed of 3 targets, 2 associations, 3 sockets, timeout 1 of 3 ticks | pruning, cancellation and the limit (`NoOrphanReceiver`, `SessionKeepsTarget`, `ReceiversEnd`) |
| `components` | as below | `FakeAddressesSound`, `DecisionsFollowRules`; `LeasesHaveSessions`, `NoStaleTraffic`; `ServedAsRouted`; `JournalCoversRoutes`, `NewerStaysOnce`; `ProfileServed`; `CredentialsSound`; `PairsSound`; `ServiceObeys`; `DecodersFaithful`, `PeersAgree` |

A property whose name stands for several facts is the conjunction of named parts
in the same module, each with its own comment; there is at least one mutant for
it, and usually one for each part.

The bounds of `components`, part by part: a fake DNS table of 2 over four IPv4
and five IPv6 addresses, names in two spellings, times to live 0 and 1, rules of
every kind with prefixes of no, some and all bits; 3 UDP flows of which 2 are
admitted and 2 TCP flows of which 1 is, queues of 1, identifiers that wrap at 3,
3 generations of the runtime; 2 proxy clients with every kind of request, over a
single runtime and over a pool; 2 crashes of the traffic host, a cache of 2,
requests of two generations and of every kind; 2 threads on one engine, profiles
with aliases that repeat, cross and miss; 2 client names, every operator command,
4 principals and 4 secrets; 3 certificate pairs; 2 admin requests over a channel
of 1, 2 cover clients of which 1 is served; byte streams of every frame type,
whole and with one byte replaced, in chunks of 1, 25 and 200 bytes; datagrams and
open requests at their limits, damaged in one byte; version ranges that overlap,
touch and miss.

Why these bounds: a second element of each kind is what makes two of them
collide (two flows sharing a budget, two carriers, two stops, two lookups of one
node), a third, where there is one, shows that a limit of two refuses it. Three
epochs are what it takes to complete one transition and begin another. Times
reach one more than the timeout. Four generations are two starts with a stop
after each; two runs of the Android engine are one whose tasks outlive it into the
next. In `client_control` two handles are a runtime and its stream, or
two runtimes. A flow quota of zero makes every first flow fail after its session
was opened. Symmetry is used in `session_dispatch` only, which has no liveness
property.

Three further runs show the code doing something other than what its
documentation says; each ends in the counterexample described under `findings`:

* `client_runtime_drop`: dropping the last owner of an online runtime does not
  end its task.
* `datagram_oversized`: one response that does not fit silences its
  association.
* `proxy_connect`: a CONNECT request with any header field is dropped unread.

Other differences between code and documents are modelled as the code has them,
without a run of their own:

* `SessionTracer::send` accepts an empty payload and gives it a sequence number,
  although `protocol-v0.md:274` calls a zero-length `STREAM_DATA` malformed and
  `Frame::encode` refuses it.
* An attachment id is accepted again in a later epoch (`protocol-v0.md:204` asks
  for one that is fresh within the session); a retiring carrier may carry data of
  the current epoch (the comment at `velum-session/src/lib.rs:189` speaks of
  frames in flight only).
* A snapshot through the FFI waits for a stop under way
  (`client-architecture.md:219`). `activate` of an engine stops the proxy even
  when the pool then refuses the profile.
* `TunFlowRegistry` keeps the leases of earlier generations, and counts them
  against its limits (its comment says that a transition clears them).
  `FakeDnsTable` may shorten a mapping's life when the name is asked for again,
  and evicts a live mapping when it is full.
* A flow of the relay whose halves both wait for the target, one suspended in
  `target_write.write_all` (`velum-node/src/lib.rs:423`) included, does not notice
  that its connection is lost: `try_join!` goes on waiting, `serve_connection`
  waits for the flow, and session, flow and slot stay taken until the target acts
  or the node shuts down (`architecture.md:172` asks to close the flows of a lost
  carrier, "do not wait indefinitely"). It is the exception that
  `LostConnectionEnds` makes; TLC refutes the property without it.
* Dropping a `ProxyAdapter` ends its listeners; tasks of clients go on (its
  comment says that it shuts them down).
* A traffic host whose journal cannot be read during `recover` ends in state
  recovering without requiring recovery, so that the next `start` is accepted
  (`helper-protocol-v1.md:24`); its cache drops the lowest request id, which
  need not be the oldest.
* When both the delivery of an enrollment and the rollback of the configuration
  fail, `issue` still removes the secret, and the relay cannot start with the
  configuration that names it. Two operator commands at once lose an update. The
  secret file that `setup` wrote may outlive a `revoke` that died before removing
  it, and a later `setup` takes that secret up again; `RevokedStayOut` is about
  credentials that `issue` delivered.
* A profile just below the 1 MiB that `from_yaml` reads may have a canonical text
  above it, which can then not be loaded again; sizes are not modelled, and
  `DocumentsStable` holds within the limit.
* One datagram that does not decode, or is of the other direction, ends the
  receiver of the Android engine although the runtime stays up
  (`ReceiverFails`). A datagram carries no scope or flow label of an IPv6
  address; `Wire` has family, address and port.
* A reload that times out may leave the relay on the new certificate pair while
  the disk has the old one again.
* SIGTERM leaves the phase in the status as it was; `drain` and `shutdown` that
  overlap may set it in the other order. Uninstalling removes the admin socket
  of a service started by hand.
* A decoder that fails in the middle of a chunk drops the frames or requests it
  had decoded from it; `FrameDecoder` then keeps the bad frame and grows with
  every further byte until it is dropped. `ProtocolErrorCode::Unknown` of a known
  code is encoded as that code.

### Fairness

Weak fairness is assumed of tasks that can run: tokio polls every woken task,
an aborted task is dropped, timeouts fire. Strong fairness is assumed of taking
a lock, because tokio's mutex serves its waiters in order and the platform
mutexes behind the FFI do not starve a thread for ever. `SessionTransfer`
assumes that a session's owner reissues, acknowledges and completes what it
began, and that a carrier in use lets something through now and then; the
unit tests and the campaign drive it so. Nothing is assumed of peers, targets,
users or the network; so a flow that awaits nothing of its client, because that
half has ended or is blocked in a write to the target, may wait for its target
as long as that likes, and `LostConnectionEnds` excepts the connection of a flow
that does so for ever (`WaitsForTarget`). `StartIsDecided` states in its own premise that
`Client::connect` ends, which its timeout guarantees. The Android tasks are
polled like the others; strong fairness of seeing the shutdown is that of
`select!`, which picks among its ready branches at random. The modules of
`components` are checked for safety only.

## 4. The proofs

Every theorem holds for all values of the constants that satisfy the `ASSUME`s
of its module, which TLC evaluates in the runs. These say what the code
guarantees: the assertions of constructors (`SessionTracer::new`, the `validate`
functions), that counters and limits are natural numbers, that the sets of
tasks, connections and calls are finite, and that the placeholders for "none"
are none of the values they stand beside.

| Theorem | States | Inductive invariant |
| --- | --- | --- |
| `SessionFlowsProofs`: `TypeCorrect`, `AccountingCorrect` | `TypeOK`, `AccountingExact` | `Bookkeeping` |
| `QueuesAlwaysSound`, `CursorsNeverRetreat` | `QueuesSound`, `CursorsOnlyAdvance` | `Bookkeeping` and `QueueInv` |
| `SessionDispatcherProofs`: `DispatcherImplementsTracer`, `DispatcherImplementsFlows` | the dispatcher implements `TracerSpec` and `FlowsSpec` | step by step |
| `AttachmentsAlwaysSound`, `FrameEffectsAuthorised` | `AttachmentsSound`, `FrameEffects` | `TracerInv` |
| `SessionKeepsBooks` | types, accounting and queues of a session driven by frames | by the refinement, from `SessionFlowsProofs` |
| `SessionTransferProofs`: `HonestAcksAccepted`, `ImplementsChannel` | `HonestAckAccepted`; two peers over an unreliable wire implement `ReliableChannel` (`ChannelSpec`) | `TransferInv` |
| `PeersAlwaysAgree` | `PeersAgree` of the handshake and of records on their way | `WireInv` |
| `DecodersAlwaysFaithful` | `DecodersFaithful` of both incremental decoders | `StreamInv` |
| `ClientRuntimeProofs`: `RuntimeTypeCorrect`, `TransportsAlwaysOwned`, `GenerationsStayApart` | `TypeOK`, `TransportsOwned`, `GenerationsApart` | `TypeInv` and `LifecycleInv` |
| `RuntimeImplementsLifecycle` | the runtime implements `RuntimeLifecycle` | the same |
| `DatagramsAlwaysReachTheirFlow` | `DatagramsReachTheirFlow` of the Android engine | `EngineInv` |
| `ClientControlProofs`: `ControlTypeCorrect`, `HandlesAlwaysSound`, `LifecyclesFollowed` | `TypeOK`, `HandlesSound`, `RuntimesFollowLifecycle` | `ControlInv` |
| `EngineProofs`: `PoolTypeCorrect`, `RuntimesAlwaysOwned`, `StreamsAreCurrent` | `TypeOK`, `RuntimesOwned`, `StreamsFromActiveProfile` | `PoolInv` |
| `ProfilesAlwaysServed` | `ProfileServed` of profiles, bundles and the engine | `ProfileInv` |
| `DecisionsAlwaysFollowRules` | `DecisionsFollowRules` of the TUN policy | `DecisionInv` |
| `FakeAddressesAlwaysSound` | `FakeAddressesSound` of the fake-IP table | `TableInv` |
| `AlwaysServedAsRouted` | `ServedAsRouted` of the proxy | `ProxyInv` |
| `RelayNodeProofs`: `RelayTypeCorrect`, `CountsAlwaysExact` | `TypeOK`, `CountsExact` | `RelayInv` |
| `ComponentProofs`: `RoutesAlwaysCovered`, `NewerAlwaysStays` | `JournalCoversRoutes`, `NewerStaysOnce` of the traffic host | `HostInv` |
| `LeasesAlwaysHaveSessions`, `TrafficNeverStale` | `LeasesHaveSessions`, `NoStaleTraffic` of the TUN adapter | `TunInv` |
| `ServiceAlwaysObeys` | `ServiceObeys` of the node's service | `ServiceInv` |
| `PairsAlwaysSound` | `PairsSound` of the certificate files | `CertificateInv` |
| `DatagramTypeCorrect`, `NoReceiverOrphaned`, `TargetsKept` | `TypeOK`, `NoOrphanReceiver`, `SessionKeepsTarget` of the datagram relay | `TypeInv` and `ReceiverInv` |
| `CredentialsAlwaysSound` | `CredentialsSound` of the node's files | `FilesInv` |

The specifications of single components (`HostSpec`, `TunSpec`, `ServiceSpec`,
`CertificateSpec`, `NodeConfigSpec`, `EngineSpec`, `DnsSpec`, `ProxySpec`,
`WireSpec`) are the next-state relations that `MCComponents` runs side by side, and `AndroidSpec`
is the one `MCClientLifecycles` runs beside the runtime's. In these runs the
other components rest while one acts, so that each of their behaviours is, for
every component, a behaviour of that component's own specification.

Assumptions worth knowing of: `TunPolicyAssumption` has at least as many fake
IPv4 addresses as the table holds mappings, as the constants of the code do, and
policies that `validate` accepts; `ProxyAssumption` has the headers of a request
in a list; `DocumentsAssumption` gives the fields of the documents and that the
name of a route is not an identifier; `TransferAssumption` repeats that of the
flows for the peers. `WireAssumption` says what a datagram may be and that the
text of an address, at most 64 characters, parses to that address, that the open
requests fit `max_control_bytes` (192 in the configuration of the code), that
no read returns zero bytes before the end, and that a helper frame may be longer
than three bytes (`MAX_FRAME_LENGTH` is 64 KiB); the streams are any bytes at all.

Why the invariants are what they are, and along which argument they are kept:

* **Flows.** The code subtracts from its counters with `expect` on four paths;
  that the result is a natural again follows only from the counters being exact.
  So `TypeOK` is not inductive, and `Bookkeeping` says per flow that
  `pending_bytes` is the sum of its queue and of the session that both counters
  are the sums over the table. It rests on lemmas about a queue (`BytesAppend`,
  `BytesSplit`, `ReleasedPrefix`), about the table (`TableReplace`, `TableAdd`,
  `TableRemove`) and about sums over an interval; a sum is the recursive
  function `Total`, unfolded by an induction over naturals stated for sets.
  `QueueInv` adds the contents of a queue: consecutive sequence numbers up to
  `next_send`, with epochs and deadlines that never decrease along the queue
  and no deadline that has passed.
* **Session.** Every branch of `dispatch` is a step of `SessionTracer` or
  changes nothing of it, and every step of that one is a step of the flows;
  `Proved`, the instance of `SessionFlowsProofs`, then gives the flow theorems
  for sessions. `TracerInv` adds to the attachments that the window is at most
  two epochs wide and the replay window never ahead of the session.
* **Transfer.** The receiver's cursor is the length of what it delivered, the
  sender's queue is the end of what was sent, and every frame in flight repeats
  one of the two; frames may stay forever, so all of it is said of every frame
  ever sent. That an honest acknowledgement is accepted needs `EpochsCovered`:
  the epoch in which a segment was first sent is at most that of every data
  frame that carries it, of the receiver once it has it, and of every
  acknowledgement that covers it. Loss, duplication and reordering change
  nothing of this, which is why the proof has no case for them but the wire.
* **Wire.** The code reads fields with a cursor; the proof reads them at fixed
  offsets (`FieldStarts`), so that a slice of a string that was continued is the
  slice it was before. For records that gives the round trip at every limit. For
  frames, the fields of a layout join to the payload (`FieldsAreAll`) and each is
  the only encoding of what it is decoded to (`TwoBytesOfNumber`, `CodesReadBack`),
  so a frame that is accepted, encoded again, is all its bytes
  (`FramesReencode`). A turn of the loop in `push` either ends it or takes the
  four bytes of a header at least (`PushFrameKeeps`), so the loop takes every
  whole frame (`PushFramesTakesAll`); the helper's decoder goes byte by byte and
  its invariant is `Readable`. `StreamInv` adds that only one of the two is fed.
* **Client runtime.** The centre is `UnsettledTasks`: a task that has not
  published its result is that of the current attempt or was told to abort. It is
  inductive across `Drop` only with `AbortedCurrent`. `RuntimeImplementsLifecycle`
  maps each step to a step of the abstract lifecycle or a stutter.
* **Android engine.** Sessions are numbered as they are given out, one per task
  (`SessionsDistinct`), and no number is given twice, although routes are removed
  and the engine is stopped and started while a receiver holds a copy of a
  route; so the copy is still true of the task it names (`CopiesTrue`), and
  whatever waits in a task's channel is for that task (`ResponsesTrue`).
* **Handles.** Calls check the table, the phase or `destroyed` in one critical
  section and act in another. `ControlInv` says what a thread in between relies
  on, because it holds its entry's command mutex.
* **Node pool.** A generation is installed once, so that a lookup which reads
  the generation again after an await reads the same profile or another number
  (`SameGeneration`); each runtime has one entry it can be in, whose mutex is held by whoever is
  about to put it there or has taken it out (`Holders`).
* **Profiles.** `NormalizeIsStable`: a canonical document is its own canonical
  form. Where names are unique each means one node (`MeaningIsTheNode`), and
  after normalisation every reference is an identifier already. The engine then
  serves the profile its commands were given, whichever thread's command ends
  last (`HandleServes`).
* **Routing decisions.** The code masks bits and compares the ends of names; the
  property speaks of intervals of addresses and of suffixes as lists of labels.
  The proof is that these are the same for every mask, address and name, and
  that the first rule that matches decides.
* **Fake addresses.** That none of the last addresses handed out returns is not
  inductive. `RecentFar` is: between the next candidate and an address handed
  out `d` allocations ago there are at least `FakeSpan - DnsCapacity - d` free
  addresses on the circle. An allocation uses up one of them and an expiry
  removes none; allocation always finds a free address because the table is
  smaller than the circle.
* **Proxy.** What a client was answered, over which stream and by which route,
  follows from the place its task is at (`TaskSound`), since no other task writes
  it and the policy is fixed while the adapter runs. That a rewritten head has no
  header of this hop, none named by `Connection`, and every other one as often as
  before is shown by counting per name (`RetainedByName`).
* **Relay.** A flow goes back to the session it was taken from because the
  session mutex keeps a stream that opens a flow and its session together
  (`MutexHeld`, `Bound`) and a session taken for a first flow carries no other
  until that one is admitted (`FirstFlow`). The status counters stay natural
  because they never fall below what they count (`StatusCovers`), aborted tasks
  included.
* **Datagrams.** Sockets are numbered as they are bound, so no two associations
  share one and one that is not bound has no task.
* **Traffic host.** Where a request stands tells what is on disk and what is
  installed (`StepsCovered`); the cache holds the newest of what was answered
  (`CacheKeepsNewest`), from which it follows how many newer answers a repeated
  execution presupposes.
* **TUN adapter.** Leases, both directions of the session table and the flows
  agree one by one (`UdpTables`, `TcpTables`), so that their sizes do too.
* **Service.** A control is on its way from the moment it is sent, not only once
  it is answered (`ControlsKept`); the expiry of profiles only grows
  (`ProfilesOrdered`), which is why none returns.
* **Certificate files.** What `had` says of each backup at each step of the
  command (`BackupsKnown`); the pair of a command that may still be rolled back
  is newer than the one in use (`PairsApart`); where the files on disk do not
  fit, every backup is of the good pair (`BackupsGood`), which is what the
  operator's recovery relies on; and one reload at most is waited for, by the
  command that sent it (`OneWaits`).
* **Node configuration.** Where the running command stands tells which files it
  has written and not yet named, or named and not yet removed (`IssueRuns`,
  `SetupRuns`, `RemoveRuns`), so that a failure at any file operation leaves
  every delivered credential in the configuration and no withdrawn one in it
  (`DeliveredWork`, `WithdrawnHidden`). Secrets are never drawn twice
  (`SecretsDistinct`). A rollback that fails itself is the one exception, and the
  invariant names it.

The library's induction theorems cannot be instantiated by the provers at hand.
Where a lemma is about a list or a loop of any length (`Total`, `Retained`, the
queue lemmas, `FlattenSeq` and the loops of the decoders by `IteratesExist`) the induction is written for a set of numbers: the least one for which
the claim fails has a predecessor for which it holds.

TLC has checked `HostInv`, `TunInv`, `ServiceInv` and `CertificateInv` on the
instances of `MCComponents` as well.

Only model-checked is liveness under fairness (`EveryCallReturns`,
`ConnectionsEnd`, `CallsReturn`, `CallsDecided`, `ReceiversEnd`, `TunStops`,
`EventuallyDrained`): fairness and `ENABLED` are out of the prover's reach.

## 5. Not modelled

TLS and QUIC themselves, the C ABI's copying of arguments, telemetry, JSON
syntax, checksums, prompts and messages, build tooling and the user interface:
I/O around external programs, or no behaviour over time. `TransitionPolicy` is
one pure function that nothing calls yet. The Flutter controllers and the
Android service are asynchronous and worth modelling; they come next.

## 6. Plan

Next modules: the Flutter controllers and `VelumVpnService` with overlapping
asynchronous commands, over `ClientControl` and `AndroidTun`; two operator
commands at once in `NodeConfig`; `NodeService` composed with `RelayNode`, and
the engine of `ClientProfile` with the steps of `NodePool`. Liveness of the proxy's
client tasks and of the service's end.

Next theorems: those of the compositions above, which would say that a service
drains the very connections `RelayNode` counts and that a profile the engine
serves is the one whose generation `NodePool` installs.
