----------------------------- MODULE AndroidTun -----------------------------
(***************************************************************************)
(* The Android packet engine: velum_client_android_tun_run and _stop       *)
(* (velum-client-ffi tun.rs) around run_android_tun (velum-adapter-tun     *)
(* android.rs), its accept loop, datagram receiver and one task per flow.  *)
(*                                                                         *)
(* Each run has its own watch channel, routes and tasks; the tasks of one  *)
(* run may outlive it into the next. Payloads are not modelled: a response *)
(* is the session it carries and the source it claims.                     *)
(***************************************************************************)
EXTENDS Naturals, Sequences, FiniteSets, FiniteSetsExt, Functions

CONSTANTS
  Nobody,
  Runs,             \* 1 .. n: calls of velum_client_android_tun_run
  TunTargets,       \* addresses a UDP flow is sent to
  UdpTasks,         \* 1 .. n: relay_udp tasks, in the order the stack asks for them
  TargetOf,         \* the address each one's flow is sent to
  TcpTasks,         \* relay_tcp tasks
  MaxTcpTasks,      \* MAX_TCP_FLOWS
  MaxUdpTasks,      \* MAX_UDP_FLOWS
  ChannelSize       \* responses a relay's channel holds (32)

ASSUME AndroidAssumption ==
  /\ Runs \subseteq Nat /\ UdpTasks \subseteq Nat /\ IsFiniteSet(UdpTasks)
  /\ Nobody \notin Nat
  /\ TargetOf \in [UdpTasks -> TunTargets]

VARIABLES
  active,           \* active_tun(): the run whose sender it holds
  shutdown,         \* each run's watch channel: "open", "true", or "dropped" with its sender
  driver,           \* each run's accept loop
  packetReceiver,   \* each run's datagram receiver
  routes,           \* each run's UdpRoutes: session -> task
  udp,             \* relay_udp: [at, run, target, session]
  tcp,              \* relay_tcp: [at, run]
  responses,        \* each task's channel: the responses it holds
  nextSessionId,    \* NEXT_SESSION, one for the whole process
  runtimeUp         \* the runtime is on line

androidVars == <<active, shutdown, driver, packetReceiver, routes, udp, tcp, responses,
                 nextSessionId, runtimeUp>>

Sessions == 1 .. Cardinality(UdpTasks)
Busy == {"starting", "allocated", "serving", "sending", "writing", "removing"}
TasksOf(run) == {t \in UdpTasks : udp[t].run = run /\ udp[t].at \in Busy}
TcpTasksOf(run) == {t \in TcpTasks : tcp[t].run = run /\ tcp[t].at \in {"opening", "copying"}}

Receiver(at) == [at |-> at, to |-> Nobody, session |-> Nobody, source |-> Nobody]

AndroidInit ==
  /\ active = Nobody
  /\ shutdown = [r \in Runs |-> "open"]
  /\ driver = [r \in Runs |-> "idle"]
  /\ packetReceiver = [r \in Runs |-> Receiver("idle")]
  /\ routes = [r \in Runs |-> << >>]
  /\ udp = [t \in UdpTasks |-> [at |-> "none", run |-> Nobody, target |-> Nobody,
                                 session |-> Nobody]]
  /\ tcp = [t \in TcpTasks |-> [at |-> "none", run |-> Nobody]]
  /\ responses = [t \in UdpTasks |-> << >>]
  /\ nextSessionId = 1
  /\ runtimeUp = TRUE

(* watch::Receiver::changed returns: a value was sent or the sender is gone*)
Stopping(run) == shutdown[run] # "open"

----------------------------------------------------------------------------
(* velum_client_android_tun_run installs its sender unless a run holds the *)
(* slot, and gives up at once when the runtime is not on line.             *)
RunBegins(run) ==
  /\ driver[run] = "idle" /\ \A r \in Runs : r < run => driver[r] # "idle"
  /\ active = Nobody
  /\ active' = run
  /\ driver' = [driver EXCEPT ![run] = IF runtimeUp THEN "accepting" ELSE "ended"]
  /\ packetReceiver' = [packetReceiver EXCEPT ![run] = Receiver(IF runtimeUp THEN "waiting" ELSE "ended")]
  /\ UNCHANGED <<shutdown, routes, udp, responses, nextSessionId, runtimeUp, tcp>>

RunRefused(run) ==
  /\ driver[run] = "idle" /\ \A r \in Runs : r < run => driver[r] # "idle"
  /\ active # Nobody
  /\ driver' = [driver EXCEPT ![run] = "returned"]
  /\ UNCHANGED <<active, shutdown, packetReceiver, routes, udp, responses, nextSessionId, runtimeUp, tcp>>

Stop ==
  /\ active # Nobody
  /\ shutdown' = [shutdown EXCEPT ![active] = "true"]
  /\ UNCHANGED <<active, driver, packetReceiver, routes, udp, responses, nextSessionId, runtimeUp, tcp>>

(* The accept loop: a new UDP stream gets a task while slots are free and  *)
(* is dropped otherwise.                                                   *)
AcceptUdp(run, t) ==
  /\ driver[run] = "accepting"
  /\ udp[t].at = "none" /\ \A u \in UdpTasks : u < t => udp[u].at # "none"
  /\ Cardinality(TasksOf(run)) < MaxUdpTasks
  /\ udp' = [udp EXCEPT ![t] = [at |-> "starting", run |-> run, target |-> TargetOf[t],
                                  session |-> Nobody]]
  /\ UNCHANGED <<active, shutdown, driver, packetReceiver, routes, responses, nextSessionId, runtimeUp, tcp>>

AcceptTcp(run, t) ==
  /\ driver[run] = "accepting"
  /\ tcp[t].at = "none"
  /\ Cardinality(TcpTasksOf(run)) < MaxTcpTasks
  /\ tcp' = [tcp EXCEPT ![t] = [at |-> "opening", run |-> run]]
  /\ UNCHANGED <<active, shutdown, driver, packetReceiver, routes, udp, responses, nextSessionId,
                 runtimeUp>>

(* A stack error aborts the receiver and leaves the routes; a stop aborts  *)
(* it and then clears them.                                                *)
AcceptFails(run) ==
  /\ driver[run] = "accepting"
  /\ driver' = [driver EXCEPT ![run] = "ended"]
  /\ packetReceiver' = [packetReceiver EXCEPT ![run] = Receiver("ended")]
  /\ UNCHANGED <<active, shutdown, routes, udp, responses, nextSessionId, runtimeUp, tcp>>

AcceptStops(run) ==
  /\ driver[run] = "accepting"
  /\ Stopping(run)
  /\ driver' = [driver EXCEPT ![run] = "clearing"]
  /\ packetReceiver' = [packetReceiver EXCEPT ![run] = Receiver("ended")]
  /\ UNCHANGED <<active, shutdown, routes, udp, responses, nextSessionId, runtimeUp, tcp>>

ClearRoutes(run) ==
  /\ driver[run] = "clearing"
  /\ driver' = [driver EXCEPT ![run] = "ended"]
  /\ routes' = [routes EXCEPT ![run] = << >>]
  /\ UNCHANGED <<active, shutdown, packetReceiver, udp, responses, nextSessionId, runtimeUp, tcp>>

(* Mutant: the sender stays in the slot.                                   *)
RunReturnsKeeping(run) ==
  /\ driver[run] = "ended"
  /\ driver' = [driver EXCEPT ![run] = "returned"]
  /\ UNCHANGED <<active, shutdown, packetReceiver, routes, udp, responses, nextSessionId, runtimeUp, tcp>>

(* The run empties the slot, which drops the sender.                       *)
RunReturns(run) ==
  /\ driver[run] = "ended"
  /\ driver' = [driver EXCEPT ![run] = "returned"]
  /\ active' = Nobody
  /\ shutdown' = [shutdown EXCEPT ![run] = IF @ = "open" THEN "dropped" ELSE @]
  /\ UNCHANGED <<packetReceiver, routes, udp, responses, nextSessionId, runtimeUp, tcp>>

----------------------------------------------------------------------------
(* relay_udp. allocate_session and the insertion take the routes' lock one *)
(* after the other.                                                        *)
AllocateSession(t) ==
  /\ udp[t].at = "starting"
  /\ LET run == udp[t].run
         id  == Min({i \in Sessions : i >= nextSessionId /\ i \notin DOMAIN routes[run]})
     IN /\ udp' = [udp EXCEPT ![t].at = "allocated", ![t].session = id]
        /\ nextSessionId' = id + 1
  /\ UNCHANGED <<active, shutdown, driver, packetReceiver, routes, responses, runtimeUp, tcp>>

InsertRoute(t) ==
  /\ udp[t].at = "allocated"
  /\ udp' = [udp EXCEPT ![t].at = "serving"]
  /\ routes' = [routes EXCEPT ![udp[t].run] =
                  [s \in DOMAIN @ \cup {udp[t].session} |-> IF s = udp[t].session THEN t ELSE @[s]]]
  /\ UNCHANGED <<active, shutdown, driver, packetReceiver, responses, nextSessionId, runtimeUp, tcp>>

TaskMoves(t, from, to) ==
  /\ udp[t].at = from
  /\ udp' = [udp EXCEPT ![t].at = to]
  /\ UNCHANGED <<active, shutdown, driver, packetReceiver, routes, nextSessionId, runtimeUp, tcp>>

(* The select of relay_udp: bytes from the TUN are sent, a response is     *)
(* written, the end of either, an error, or the shutdown ends the loop.    *)
TunReads(t)  == TaskMoves(t, "serving", "sending") /\ UNCHANGED responses
TunEnds(t)   == TaskMoves(t, "serving", "removing") /\ UNCHANGED responses
Sent(t)      == TaskMoves(t, "sending", IF runtimeUp THEN "serving" ELSE "removing")
                  /\ UNCHANGED responses
TakesResponse(t) ==
  /\ responses[t] # << >>
  /\ TaskMoves(t, "serving", "writing")
  /\ responses' = [responses EXCEPT ![t] = Tail(@)]
(* The route's sender was the last one: recv returns None.                 *)
ChannelCloses(t) ==
  /\ responses[t] = << >>
  /\ udp[t].at = "serving" /\ udp[t].session \notin DOMAIN routes[udp[t].run]
  /\ packetReceiver[udp[t].run].at # "sending" \/ packetReceiver[udp[t].run].to # t
  /\ TaskMoves(t, "serving", "removing") /\ UNCHANGED responses
(* Writing ends in an error once the stack is gone with its driver.        *)
Written(t) == (TaskMoves(t, "writing", "serving") \/ TaskMoves(t, "writing", "removing"))
                /\ UNCHANGED responses
SeesShutdown(t) ==
  /\ udp[t].at = "serving" /\ Stopping(udp[t].run)
  /\ TaskMoves(t, "serving", "removing") /\ UNCHANGED responses

RemoveRoute(t) ==
  /\ udp[t].at = "removing"
  /\ udp' = [udp EXCEPT ![t].at = "done"]
  /\ routes' = [routes EXCEPT ![udp[t].run] = Restrict(@, DOMAIN @ \ {udp[t].session})]
  /\ responses' = [responses EXCEPT ![t] = << >>]
  /\ UNCHANGED <<active, shutdown, driver, packetReceiver, nextSessionId, runtimeUp, tcp>>

----------------------------------------------------------------------------
(* relay_tcp: the shutdown is looked at only once the stream is open; then *)
(* the first direction to end, or the shutdown, ends the relay.            *)
TcpMoves(t, from, to) ==
  /\ tcp[t].at = from
  /\ tcp' = [tcp EXCEPT ![t].at = to]
  /\ UNCHANGED <<active, shutdown, driver, packetReceiver, routes, udp, responses, nextSessionId,
                 runtimeUp>>

TcpOpened(t) ==
  \/ runtimeUp /\ TcpMoves(t, "opening", "copying")
  \/ TcpMoves(t, "opening", "done")
TcpEnds(t)  == TcpMoves(t, "copying", "done")
TcpStops(t) == tcp[t].at = "copying" /\ Stopping(tcp[t].run) /\ TcpMoves(t, "copying", "done")

----------------------------------------------------------------------------
(* Mutant: the claimed source is not compared.                             *)
RoutedAnySource(run, session, source) == session \in DOMAIN routes[run]

(* spawn_datagram_receiver: the route is copied under the lock, and the    *)
(* response sent to its task after the lock is gone.                       *)
Routed(run, session, source) ==
  /\ session \in DOMAIN routes[run]
  /\ udp[routes[run][session]].target = source

ResponseArrives(run, session, source) ==
  /\ packetReceiver[run].at = "waiting"
  /\ runtimeUp
  /\ Routed(run, session, source)
  /\ packetReceiver' = [packetReceiver EXCEPT ![run] = [at |-> "sending", to |-> routes[run][session],
                                            session |-> session, source |-> source]]
  /\ UNCHANGED <<active, shutdown, driver, routes, udp, responses, nextSessionId, runtimeUp, tcp>>

(* The channel has room, or its task is done with it and the send fails.   *)
ResponseSent(run) ==
  /\ packetReceiver[run].at = "sending"
  /\ LET t == packetReceiver[run].to
     IN \/ /\ udp[t].at # "done" /\ Len(responses[t]) < ChannelSize
           /\ responses' = [responses EXCEPT ![t] =
                              Append(@, [session |-> packetReceiver[run].session,
                                         source |-> packetReceiver[run].source])]
        \/ /\ udp[t].at = "done"
           /\ UNCHANGED responses
  /\ packetReceiver' = [packetReceiver EXCEPT ![run] = Receiver("waiting")]
  /\ UNCHANGED <<active, shutdown, driver, routes, udp, nextSessionId, runtimeUp, tcp>>

(* receive_datagram fails on a datagram that does not decode or is of the  *)
(* other direction, and the loop breaks although the runtime is up.        *)
ReceiverFails(run) ==
  /\ packetReceiver[run].at = "waiting"
  /\ runtimeUp
  /\ packetReceiver' = [packetReceiver EXCEPT ![run] = Receiver("ended")]
  /\ UNCHANGED <<active, shutdown, driver, routes, udp, responses, nextSessionId, runtimeUp, tcp>>

(* receive_datagram fails with the runtime, for good; or the run stops.    *)
ReceiverEnds(run) ==
  /\ packetReceiver[run].at = "waiting"
  /\ ~runtimeUp \/ Stopping(run)
  /\ packetReceiver' = [packetReceiver EXCEPT ![run] = Receiver("ended")]
  /\ UNCHANGED <<active, shutdown, driver, routes, udp, responses, nextSessionId, runtimeUp, tcp>>

RuntimeChanges ==
  /\ runtimeUp' = ~runtimeUp
  /\ UNCHANGED <<active, shutdown, driver, packetReceiver, routes, udp, responses, nextSessionId, tcp>>

EngineNext ==
  \/ \E r \in Runs : \/ RunBegins(r) \/ RunRefused(r) \/ AcceptFails(r) \/ AcceptStops(r)
                      \/ ClearRoutes(r) \/ RunReturns(r) \/ ReceiverFails(r)
                      \/ ReceiverEnds(r)
  \/ Stop \/ RuntimeChanges

UdpRelayNext ==
  \/ \E r \in Runs, t \in UdpTasks : AcceptUdp(r, t)
  \/ \E t \in UdpTasks :
       \/ AllocateSession(t) \/ InsertRoute(t) \/ TunReads(t) \/ TunEnds(t) \/ Sent(t)
       \/ TakesResponse(t) \/ ChannelCloses(t) \/ Written(t) \/ SeesShutdown(t) \/ RemoveRoute(t)
  \/ \E r \in Runs, s \in Sessions, a \in TunTargets : ResponseArrives(r, s, a)
  \/ \E r \in Runs : ResponseSent(r)

TcpRelayNext ==
  \/ \E r \in Runs, t \in TcpTasks : AcceptTcp(r, t)
  \/ \E t \in TcpTasks : TcpOpened(t) \/ TcpEnds(t) \/ TcpStops(t)

AndroidNext == EngineNext \/ UdpRelayNext \/ TcpRelayNext

AndroidSpec == AndroidInit /\ [][AndroidNext]_androidVars

(* Tasks that can go on do: the runtime's executor polls them all. Nothing *)
(* is said of the stack, the network, or the owner of the engine. A task   *)
(* that reads the TUN over and over still sees the stop, as its select     *)
(* picks a ready branch at random. A stream being opened is answered, or   *)
(* fails with its connection.                                              *)
AndroidFairness ==
  /\ \A r \in Runs :
       /\ WF_androidVars(AcceptStops(r))
       /\ WF_androidVars(ClearRoutes(r))
       /\ WF_androidVars(RunReturns(r))
       /\ WF_androidVars(ResponseSent(r))
       /\ SF_androidVars(ReceiverEnds(r))
  /\ \A t \in UdpTasks :
       /\ WF_androidVars(AllocateSession(t) \/ InsertRoute(t))
       /\ WF_androidVars(Sent(t) \/ Written(t))
       /\ WF_androidVars(RemoveRoute(t))
       /\ SF_androidVars(TakesResponse(t))
       /\ SF_androidVars(SeesShutdown(t))
  /\ \A t \in TcpTasks : WF_androidVars(TcpOpened(t)) /\ WF_androidVars(TcpStops(t))

----------------------------------------------------------------------------
(* A datagram is written only to the TUN flow that its session belongs to  *)
(* and whose target it claims to come from, although the route was copied  *)
(* before the send and the flow may be gone, or the engine restarted, in   *)
(* between; and no two live flows share a session.                         *)
DatagramsReachTheirFlow ==
  /\ \A t \in UdpTasks : \A i \in DOMAIN responses[t] :
       responses[t][i] = [session |-> udp[t].session, source |-> udp[t].target]
  /\ \A t, u \in UdpTasks :
       t # u /\ udp[t].session # Nobody => udp[t].session # udp[u].session

(* Nothing of a run is left.                                               *)
Returned(r) ==
  /\ driver[r] = "returned" /\ active # r
  /\ TasksOf(r) = {} /\ TcpTasksOf(r) = {} /\ DOMAIN routes[r] = {}
  /\ packetReceiver[r].at = "ended"

(* A stop is never lost, nor is the loss of the sender with a run that     *)
(* failed: the engine returns, gives its slot back, and leaves no task and *)
(* no route behind, not even one that was being set up at the time. And    *)
(* one flow's full channel never holds a receiver up for ever.             *)
TunStops ==
  /\ <>[](\A r \in Runs : Stopping(r) => Returned(r))
  /\ []<>(\A r \in Runs : packetReceiver[r].at # "sending")
=============================================================================
