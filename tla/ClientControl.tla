---------------------------- MODULE ClientControl ---------------------------
(***************************************************************************)
(* The native control and stream calls of velum-client-ffi (control.rs,    *)
(* streams.rs, handles.rs) on the runtimes behind their handles.  Several  *)
(* threads of the host call in; each call looks its handle up in the       *)
(* global table and works on the entry it found, which another thread may  *)
(* remove meanwhile.                                                       *)
(*                                                                         *)
(* Each critical section of the table mutex is one step; the command mutex *)
(* of an entry and the mutexes of a stream's halves are held across steps. *)
(* Handles are never reused, so an entry is named by its handle.  Calls    *)
(* refused before they touch the table are left out.  The runtime behind a *)
(* handle is RuntimeLifecycle.                                             *)
(***************************************************************************)
EXTENDS Naturals, FiniteSets

CONSTANTS
  None,
  Threads,
  MaxHandle,        \* bound: handles handed out (u64 in the code)
  MaxGeneration     \* bound: generations of a runtime (u64 in the code)

ASSUME ControlAssumption ==
  /\ MaxHandle \in Nat
  /\ MaxGeneration \in Nat \ {0, 1}   \* room for a start and for the stop after it
  /\ None \notin Threads

VARIABLES
  next_handle,
  clients,          \* handles of the runtimes in the table
  streams,          \* handles of the streams in the table
  runtime,          \* phase and generation behind each handle
  command,          \* the command mutex and `destroyed` of each entry
  proxy,            \* entries that own a running ProxyAdapter
  stream,           \* StreamEntry: owner, generation, cancelled, holders
  thread            \* where each thread is

vars == <<next_handle, clients, streams, runtime, command, proxy, stream, thread>>

Handles     == 1 .. MaxHandle
Generations == 0 .. MaxGeneration
Halves      == {"send", "receive"}
Commands    == {"start", "snapshot", "stop", "proxy_start", "proxy_stop"}
Transfers   == {"write", "read", "finish"}

NewStream(h, generation) == [client |-> h, generation |-> generation, cancelled |-> FALSE,
                             send |-> None, receive |-> None]
NoStream == NewStream(0, 0)
Idle     == [at |-> "idle", op |-> None, handle |-> 0, generation |-> 0]

Init ==
  /\ next_handle = 0
  /\ clients = {}
  /\ streams = {}
  /\ runtime = [h \in Handles |-> [phase |-> "Stopped", generation |-> 0]]
  /\ command = [h \in Handles |-> [holder |-> None, destroyed |-> FALSE]]
  /\ proxy = {}
  /\ stream = [k \in Handles |-> NoStream]
  /\ thread = [t \in Threads |-> Idle]

Goto(t, at)   == thread' = [thread EXCEPT ![t].at = at]
Returns(t)    == thread' = [thread EXCEPT ![t] = Idle]
Acquires(t, h) == command' = [command EXCEPT ![h].holder = t]
Releases(h)   == command' = [command EXCEPT ![h].holder = None]
Enters(t, op, h, at) ==
  thread' = [thread EXCEPT ![t] = [at |-> at, op |-> op, handle |-> h, generation |-> 0]]

(* invalidate_streams: cancel and drop every stream of a client. *)
InvalidateStreams(h) ==
  /\ streams' = {k \in streams : stream[k].client # h}
  /\ stream' = [k \in Handles |-> IF k \in streams /\ stream[k].client = h
                                  THEN [stream[k] EXCEPT !.cancelled = TRUE] ELSE stream[k]]

-----------------------------------------------------------------------------
(* velum_client_runtime_create *)
Create(t) ==
  /\ thread[t].at = "idle"
  /\ next_handle < MaxHandle
  /\ next_handle' = next_handle + 1
  /\ clients' = clients \cup {next_handle + 1}
  /\ UNCHANGED <<streams, runtime, command, proxy, stream, thread>>

(* velum_client_connect: the call starts a runtime of its own and waits    *)
(* for it; nobody else sees it before its handle is handed out, once it    *)
(* was seen on line. The connection may have closed again by then. A call  *)
(* that fails leaves nothing.                                              *)
Connect(t) ==
  /\ thread[t].at = "idle"
  /\ next_handle < MaxHandle
  /\ next_handle' = next_handle + 1
  /\ clients' = clients \cup {next_handle + 1}
  /\ \E phase \in {"Online", "Failed"} :
       runtime' = [runtime EXCEPT ![next_handle + 1] = [phase |-> phase, generation |-> 1]]
  /\ UNCHANGED <<streams, command, proxy, stream, thread>>

(* A command or open_stream finds the entry of its handle. *)
Find(t, op, h) ==
  /\ thread[t].at = "idle"
  /\ h \in clients
  /\ Enters(t, op, h, IF op = "open" THEN "opening" ELSE "waiting")
  /\ UNCHANGED <<next_handle, clients, streams, runtime, command, proxy, stream>>

(* retire_runtime takes the handle out before it waits for the command     *)
(* mutex (destroy and velum_client_close).                                 *)
Retire(t, h) ==
  /\ thread[t].at = "idle"
  /\ h \in clients
  /\ InvalidateStreams(h)
  /\ clients' = clients \ {h}
  /\ Enters(t, "destroy", h, "waiting")
  /\ UNCHANGED <<next_handle, runtime, command, proxy>>

(* Mutant: a command that waited does not look at `destroyed`. *)
LockCommandBlindly(t) ==
  LET h == thread[t].handle
  IN  /\ thread[t].at = "waiting"
      /\ command[h].holder = None
      /\ Acquires(t, h) /\ Goto(t, thread[t].op)
      /\ UNCHANGED <<next_handle, clients, streams, runtime, proxy, stream>>

(* entry.command.lock(), and the check of `destroyed`. *)
LockCommand(t) ==
  LET h == thread[t].handle
  IN  /\ thread[t].at = "waiting"
      /\ command[h].holder = None
      /\ IF command[h].destroyed
         THEN Returns(t) /\ UNCHANGED command
         ELSE Acquires(t, h) /\ Goto(t, thread[t].op)
      /\ UNCHANGED <<next_handle, clients, streams, runtime, proxy, stream>>

-----------------------------------------------------------------------------
(* Mutant: the phase is not looked at. *)
StartInAnyPhase(t) ==
  LET h == thread[t].handle
  IN  /\ thread[t].at = "start"
      /\ runtime[h].generation + 1 < MaxGeneration
      /\ runtime' = [runtime EXCEPT ![h] = [phase |-> "Connecting", generation |-> @.generation + 1]]
      /\ Releases(h) /\ Returns(t)
      /\ UNCHANGED <<next_handle, clients, streams, proxy, stream>>

(* runtime.start: accepted, or Busy.  The last generation is left to stop. *)
Start(t) ==
  LET h == thread[t].handle
  IN  /\ thread[t].at = "start"
      /\ runtime' = IF runtime[h].phase \in {"Stopped", "Failed"}
                       /\ runtime[h].generation + 1 < MaxGeneration
                    THEN [runtime EXCEPT ![h] = [phase |-> "Connecting",
                                                 generation |-> @.generation + 1]]
                    ELSE runtime
      /\ Releases(h) /\ Returns(t)
      /\ UNCHANGED <<next_handle, clients, streams, proxy, stream>>

Snapshot(t) ==
  /\ thread[t].at = "snapshot"
  /\ Releases(thread[t].handle) /\ Returns(t)
  /\ UNCHANGED <<next_handle, clients, streams, runtime, proxy, stream>>

(* start_proxy_with_policy: Busy, not online, port in use, or running. *)
ProxyStart(t) ==
  LET h == thread[t].handle
  IN  /\ thread[t].at = "proxy_start"
      /\ \/ runtime[h].phase = "Online" /\ proxy' = proxy \cup {h}
         \/ UNCHANGED proxy
      /\ Releases(h) /\ Returns(t)
      /\ UNCHANGED <<next_handle, clients, streams, runtime, stream>>

(* stop_proxy *)
ProxyStop(t) ==
  LET h == thread[t].handle
  IN  /\ thread[t].at = "proxy_stop"
      /\ proxy' = proxy \ {h}
      /\ Releases(h) /\ Returns(t)
      /\ UNCHANGED <<next_handle, clients, streams, runtime, stream>>

(* stop up to the runtime: the proxy, then the streams. *)
StopInvalidates(t) ==
  LET h == thread[t].handle
  IN  /\ thread[t].at = "stop"
      /\ proxy' = proxy \ {h}
      /\ InvalidateStreams(h)
      /\ Goto(t, "stopping")
      /\ UNCHANGED <<next_handle, clients, runtime, command>>

(* retire_runtime inside the command mutex. *)
DestroyEnters(t) ==
  LET h == thread[t].handle
  IN  /\ thread[t].at = "destroy"
      /\ command' = [command EXCEPT ![h].destroyed = TRUE]
      /\ proxy' = proxy \ {h}
      /\ Goto(t, "stopping")
      /\ UNCHANGED <<next_handle, clients, streams, runtime, stream>>

(* runtime.stop begins ... *)
RuntimeStops(t) ==
  LET h == thread[t].handle
  IN  /\ thread[t].at = "stopping"
      /\ IF runtime[h].phase = "Stopped"
         THEN UNCHANGED runtime
         ELSE runtime' = [runtime EXCEPT ![h] = [phase |-> "Stopping",
                                                 generation |-> @.generation + 1]]
      /\ Goto(t, "joining")
      /\ UNCHANGED <<next_handle, clients, streams, command, proxy, stream>>

(* Mutant: the command mutex is not released. *)
RuntimeStoppedLocked(t) ==
  LET h == thread[t].handle
  IN  /\ thread[t].at = "joining"
      /\ runtime' = [runtime EXCEPT ![h].phase = "Stopped"]
      /\ Returns(t)
      /\ UNCHANGED <<next_handle, clients, streams, command, proxy, stream>>

(* ... publishes Stopped, and returns when its task has ended. *)
RuntimeStopped(t) ==
  LET h == thread[t].handle
  IN  /\ thread[t].at = "joining"
      /\ runtime' = [runtime EXCEPT ![h].phase = "Stopped"]
      /\ Releases(h) /\ Returns(t)
      /\ UNCHANGED <<next_handle, clients, streams, proxy, stream>>

-----------------------------------------------------------------------------
(* runtime.open_stream: NotOnline, or a stream of this generation.         *)
StreamOpens(t) ==
  LET h == thread[t].handle
  IN  /\ thread[t].at = "opening"
      /\ IF runtime[h].phase = "Online"
         THEN thread' = [thread EXCEPT ![t].at = "opened", ![t].generation = runtime[h].generation]
         ELSE Returns(t)
      /\ UNCHANGED <<next_handle, clients, streams, runtime, command, proxy, stream>>

(* The await of open_stream ends: in an error, or with a stream that is    *)
(* then published under the command mutex.                                 *)
StreamOpened(t) ==
  /\ thread[t].at = "opened"
  /\ \/ Goto(t, "publishing")
     \/ Returns(t)
  /\ UNCHANGED <<next_handle, clients, streams, runtime, command, proxy, stream>>

(* Mutant: the generation is not checked under the command mutex. *)
PublishableUnchecked(h, generation) == TRUE

(* is_generation_online *)
Publishable(h, generation) ==
  runtime[h].phase = "Online" /\ runtime[h].generation = generation

(* publish_stream_handle up to the table. *)
PublishChecks(t) ==
  LET h == thread[t].handle
  IN  /\ thread[t].at = "publishing"
      /\ command[h].holder = None
      /\ IF command[h].destroyed \/ ~Publishable(h, thread[t].generation)
         THEN Returns(t) /\ UNCHANGED command
         ELSE Goto(t, "inserting") /\ Acquires(t, h)
      /\ UNCHANGED <<next_handle, clients, streams, runtime, proxy, stream>>

(* The handle is looked up again in the table. *)
PublishInserts(t) ==
  LET h == thread[t].handle
      k == next_handle + 1
  IN  /\ thread[t].at = "inserting"
      /\ IF h \in clients /\ k \in Handles
         THEN /\ next_handle' = k
              /\ streams' = streams \cup {k}
              /\ stream' = [stream EXCEPT ![k] = NewStream(h, thread[t].generation)]
         ELSE UNCHANGED <<next_handle, streams, stream>>
      /\ Releases(h) /\ Returns(t)
      /\ UNCHANGED <<clients, runtime, proxy>>

-----------------------------------------------------------------------------
Half(op) == IF op = "read" THEN "receive" ELSE "send"

(* A transfer finds the entry of its stream. *)
FindStream(t, op, k) ==
  /\ thread[t].at = "idle"
  /\ k \in streams
  /\ Enters(t, op, k, "queued")
  /\ UNCHANGED <<next_handle, clients, streams, runtime, command, proxy, stream>>

LockHalf(t) ==
  LET k == thread[t].handle
  IN  /\ thread[t].at = "queued"
      /\ stream[k][Half(thread[t].op)] = None
      /\ stream' = [stream EXCEPT ![k][Half(thread[t].op)] = t]
      /\ Goto(t, "transfer")
      /\ UNCHANGED <<next_handle, clients, streams, runtime, command, proxy>>

ReleaseHalf(t) ==
  /\ stream' = [stream EXCEPT ![thread[t].handle][Half(thread[t].op)] = None]
  /\ Returns(t)
  /\ UNCHANGED <<next_handle, clients, streams, runtime, command, proxy>>

(* The peer takes or sends data, or the transport fails. *)
TransferEnds(t) == thread[t].at = "transfer" /\ ReleaseHalf(t)

(* select! prefers the cancellation; finish never waits for the peer.      *)
TransferCancelled(t) ==
  /\ thread[t].at = "transfer"
  /\ stream[thread[t].handle].cancelled \/ thread[t].op = "finish"
  /\ ReleaseHalf(t)

(* velum_client_stream_close; what follows the table mutex concerns only   *)
(* the entry it took out.                                                  *)
CloseStream(t, k) ==
  /\ thread[t].at = "idle"
  /\ k \in streams
  /\ streams' = streams \ {k}
  /\ stream' = [stream EXCEPT ![k].cancelled = TRUE]
  /\ UNCHANGED <<next_handle, clients, runtime, command, proxy, thread>>

-----------------------------------------------------------------------------
(* The runtime's own task: the attempt is decided, the connection closes.  *)
Settles(h) ==
  /\ runtime[h].phase = "Connecting"
  /\ \E phase \in {"Online", "Failed"} : runtime' = [runtime EXCEPT ![h].phase = phase]
  /\ UNCHANGED <<next_handle, clients, streams, command, proxy, stream, thread>>

Fails(h) ==
  /\ runtime[h].phase = "Online"
  /\ runtime' = [runtime EXCEPT ![h].phase = "Failed"]
  /\ UNCHANGED <<next_handle, clients, streams, command, proxy, stream, thread>>

-----------------------------------------------------------------------------
(* What a thread does without waiting for the network once it is inside.   *)
CommandStep(t) ==
  \/ Start(t) \/ Snapshot(t) \/ ProxyStart(t) \/ ProxyStop(t)
  \/ StopInvalidates(t) \/ DestroyEnters(t) \/ RuntimeStops(t) \/ RuntimeStopped(t)
  \/ PublishInserts(t)

Next ==
  \/ \E t \in Threads : Create(t) \/ Connect(t)
  \/ \E t \in Threads, op \in Commands \cup {"open"}, h \in Handles : Find(t, op, h)
  \/ \E t \in Threads, h \in Handles : Retire(t, h)
  \/ \E t \in Threads : LockCommand(t)
  \/ \E t \in Threads : CommandStep(t)
  \/ \E t \in Threads : StreamOpens(t) \/ StreamOpened(t) \/ PublishChecks(t)
  \/ \E t \in Threads, op \in Transfers, k \in Handles : FindStream(t, op, k)
  \/ \E t \in Threads : LockHalf(t) \/ TransferEnds(t) \/ TransferCancelled(t)
  \/ \E t \in Threads, k \in Handles : CloseStream(t, k)
  \/ \E h \in Handles : Settles(h) \/ Fails(h)

Spec == Init /\ [][Next]_vars

(* A thread that is inside a call keeps running and the operating system's *)
(* mutexes are not unfair for ever; runtime.stop ends by StopReturns-      *)
(* Eventually of ClientRuntime.  The network owes nothing.                 *)
Fairness ==
  \A t \in Threads :
    /\ SF_vars(LockCommand(t) \/ LockHalf(t) \/ PublishChecks(t))
    /\ WF_vars(CommandStep(t) \/ StreamOpens(t) \/ TransferCancelled(t))

FairSpec == Spec /\ Fairness

-----------------------------------------------------------------------------
(* The state has the shape of the structs.                                 *)
TypeOK ==
  /\ next_handle \in 0 .. MaxHandle
  /\ clients \subseteq 1 .. next_handle
  /\ streams \subseteq 1 .. next_handle
  /\ clients \cap streams = {}
  /\ runtime \in [Handles -> [phase: {"Stopped", "Connecting", "Online", "Stopping", "Failed"},
                              generation: Generations]]
  /\ command \in [Handles -> [holder: Threads \cup {None}, destroyed: BOOLEAN]]
  /\ proxy \subseteq Handles
  /\ stream \in [Handles -> [client: 0 .. MaxHandle, generation: Generations,
                             cancelled: BOOLEAN, send: Threads \cup {None},
                             receive: Threads \cup {None}]]
  /\ thread \in [Threads ->
       [at: {"idle", "opening", "waiting", "opened", "publishing", "inserting", "stopping",
             "joining", "queued", "transfer", "destroy"} \cup Commands,
        op: Commands \cup Transfers \cup {"open", "destroy", None},
        handle: 0 .. MaxHandle, generation: Generations]]

(* client-architecture.md, Native Control ABI: stop invalidates all stream *)
(* handles for the runtime before it returns, and destroy every handle     *)
(* derived from it; an open that was under way does not slip one in.       *)
NoStreamOutlivesItsRuntime ==
  \A k \in streams :
    /\ stream[k].client \in clients
    /\ runtime[stream[k].client].phase \notin {"Stopping", "Stopped"}
    /\ ~stream[k].cancelled

(* client-architecture.md: after destroy no call that was waiting revives  *)
(* the runtime; it stays stopped and serves no proxy.                      *)
DestroyedStaysStopped ==
  \A h \in Handles : command[h].destroyed /\ command[h].holder = None =>
    runtime[h].phase = "Stopped" /\ h \notin proxy

(* What is derived from a handle goes with it, and does not come back.     *)
HandlesSound == NoStreamOutlivesItsRuntime /\ DestroyedStaysStopped

(* Driven by any number of threads, the runtime behind a handle is only    *)
(* asked for what its lifecycle allows.                                    *)
Runtime(h) == INSTANCE RuntimeLifecycle
                WITH phase <- runtime[h].phase, generation <- runtime[h].generation
RuntimesFollowLifecycle ==
  [][\A h \in 1 .. next_handle : Runtime(h)!Next \/ UNCHANGED runtime[h]]_vars

(* client-architecture.md: a command returns without the network's help,   *)
(* whatever the other threads do with the handle; and closing a stream,    *)
(* stopping or destroying its runtime ends the reads and writes on it.     *)
CallsReturn ==
  \A t \in Threads :
    \/ thread[t].op \in Commands \cup {"destroy"}
    \/ thread[t].op \in Transfers /\ stream[thread[t].handle].cancelled
    ~> thread[t].at = "idle"
=============================================================================
