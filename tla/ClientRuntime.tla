---------------------------- MODULE ClientRuntime ---------------------------
(***************************************************************************)
(* velum_client_runtime::ClientRuntime with its Lifecycle (lib.rs and      *)
(* state.rs): start spawns a task that connects, publishes the result and  *)
(* then watches the connection; stop aborts and joins that task.  Every    *)
(* critical section of the `inner` mutex is one step, except that of stop, *)
(* which publishes twice and is split there: the mutex is held exactly     *)
(* while the phase is Stopping.  A lifecycle change and its publication    *)
(* are one step: readers without the mutex see the watch channel only, so  *)
(* a read between the two is a read before both.                           *)
(*                                                                         *)
(* Generations name tasks and connections: the task spawned by start g     *)
(* makes connection g.  Abort is asynchronous: until the executor drops an *)
(* aborted task it may still take its next steps.                          *)
(***************************************************************************)
EXTENDS Naturals, FiniteSets

CONSTANTS
  None,
  MaxGeneration,     \* bound: lifecycle operations (u64 in the code)
  Callers,           \* threads that call stop
  Openers            \* threads that call open_stream or receive_datagram

ASSUME RuntimeAssumption ==
  /\ MaxGeneration \in Nat
  /\ None \notin Nat

VARIABLES
  snapshot,        \* Lifecycle.snapshot: revision, generation, phase
  published,       \* the value of the watch channel
  lifecycle_task,  \* generation of the owned task
  client,          \* generation of the owned connection
  task,            \* what the task of each generation is doing
  aborted,         \* generations whose task was told to abort
  connection,      \* the transport of each generation
  stopper,         \* what each caller of stop is waiting for
  opener,          \* what each caller of open_stream holds
  owned            \* someone outside the runtime holds an Arc to it

vars == <<snapshot, published, lifecycle_task, client, task, aborted,
          connection, stopper, opener, owned>>

Generations == 0 .. MaxGeneration
Phases      == {"Stopped", "Connecting", "Online", "Stopping", "Failed"}
MaxRevision == 3 * MaxGeneration

Snapshots == [revision: 0 .. MaxRevision, generation: Generations, phase: Phases]

Init ==
  /\ snapshot = [revision |-> 0, generation |-> 0, phase |-> "Stopped"]
  /\ published = snapshot
  /\ lifecycle_task = None
  /\ client = None
  /\ task = [g \in Generations |-> "none"]
  /\ aborted = {}
  /\ connection = [g \in Generations |-> "none"]
  /\ stopper = [c \in Callers |-> [state |-> "idle", task |-> None]]
  /\ opener = [o \in Openers |-> [generation |-> None, result |-> "idle"]]
  /\ owned = TRUE

(* No thread is inside the critical section of stop. *)
LockFree == snapshot.phase # "Stopping"

(* Lifecycle::transition followed by publish. *)
Transition(phase, generation) ==
  /\ snapshot' = [revision |-> snapshot.revision + 1,
                  generation |-> generation, phase |-> phase]
  /\ published' = snapshot'

(* Mutant: a start is accepted in every phase. *)
StartWhileBusy ==
  /\ LockFree
  /\ owned
  /\ snapshot.generation < MaxGeneration
  /\ LET g == snapshot.generation + 1
     IN  /\ Transition("Connecting", g)
         /\ lifecycle_task' = g
         /\ task' = [task EXCEPT ![g] = "connecting"]
  /\ UNCHANGED <<client, aborted, connection, stopper, opener, owned>>

(* start_with: begin_connect, publish Connecting, spawn and keep the task. *)
Start ==
  /\ LockFree
  /\ owned
  /\ snapshot.phase \in {"Stopped", "Failed"}
  /\ snapshot.generation < MaxGeneration
  /\ LET g == snapshot.generation + 1
     IN  /\ Transition("Connecting", g)
         /\ lifecycle_task' = g
         /\ task' = [task EXCEPT ![g] = "connecting"]
  /\ UNCHANGED <<client, aborted, connection, stopper, opener, owned>>

(* Client::connect ends; its own timeout bounds it. *)
ConnectEnds(g) ==
  /\ task[g] = "connecting"
  /\ \/ /\ task' = [task EXCEPT ![g] = "connected"]
        /\ connection' = [connection EXCEPT ![g] = "open"]
     \/ /\ task' = [task EXCEPT ![g] = "refused"]
        /\ UNCHANGED connection
  /\ UNCHANGED <<snapshot, published, lifecycle_task, client, aborted,
                 stopper, opener, owned>>

(* clear_lifecycle_task *)
ClearTask(g) == lifecycle_task' = IF lifecycle_task = g THEN None ELSE lifecycle_task

(* Mutant: the generation a result belongs to is not compared. *)
CurrentAttemptAnyGeneration(g) == snapshot.phase = "Connecting"

(* Mutant: the generation is compared with the one before. *)
CurrentAttemptOffByOne(g) == g + 1 = snapshot.generation /\ snapshot.phase = "Connecting"

(* Mutant: a late transport is forgotten instead of closed. *)
DiscardLateResultOpen(g) == UNCHANGED connection

(* client.close() on the result of a superseded start. *)
DiscardLateResult(g) ==
  connection' = [connection EXCEPT ![g] = IF @ = "open" THEN "closed" ELSE @]

(* The check at the head of complete_connect. *)
CurrentAttempt(g) == g = snapshot.generation /\ snapshot.phase = "Connecting"

(* The task holds a Weak reference while it connects and a strong one from *)
(* upgrade until it ends.                                                  *)
Upgradable == owned \/ \E g \in Generations : task[g] = "watching"

CompleteConnect(g) ==
  /\ LockFree
  /\ task[g] \in {"connected", "refused"}
  /\ IF Upgradable /\ CurrentAttempt(g)
     THEN IF task[g] = "connected"
          THEN /\ Transition("Online", snapshot.generation)
               /\ client' = g
               /\ task' = [task EXCEPT ![g] = "watching"]
               /\ UNCHANGED <<lifecycle_task, connection>>
          ELSE /\ Transition("Failed", snapshot.generation)
               /\ ClearTask(g)
               /\ task' = [task EXCEPT ![g] = "done"]
               /\ UNCHANGED <<client, connection>>
     ELSE /\ task' = [task EXCEPT ![g] = "done"]
          /\ DiscardLateResult(g)
          /\ UNCHANGED <<snapshot, published, lifecycle_task, client>>
  /\ UNCHANGED <<aborted, stopper, opener, owned>>

(* The peer or the network ends a connection. *)
PeerCloses(g) ==
  /\ connection[g] = "open"
  /\ connection' = [connection EXCEPT ![g] = "closed"]
  /\ UNCHANGED <<snapshot, published, lifecycle_task, client, task, aborted,
                 stopper, opener, owned>>

(* Mutant: closure is applied to whatever is online. *)
CurrentConnectionAnyGeneration(g) == snapshot.phase = "Online"

(* Lifecycle::fail_online applies. *)
CurrentConnection(g) == g = snapshot.generation /\ snapshot.phase = "Online"

(* complete_connection_closed, once client.closed() has resolved. *)
CompleteConnectionClosed(g) ==
  /\ LockFree
  /\ task[g] = "watching"
  /\ connection[g] = "closed"
  /\ task' = [task EXCEPT ![g] = "done"]
  /\ IF CurrentConnection(g)
     THEN /\ Transition("Failed", snapshot.generation)
          /\ client' = None
          /\ ClearTask(g)
     ELSE UNCHANGED <<snapshot, published, client, lifecycle_task>>
  /\ UNCHANGED <<aborted, connection, stopper, opener, owned>>

(* The executor drops an aborted task with everything it holds. *)
TaskDropped(g) ==
  /\ g \in aborted
  /\ task[g] \notin {"none", "done"}
  /\ task' = [task EXCEPT ![g] = "done"]
  /\ connection' = [connection EXCEPT
       ![g] = IF @ = "open" /\ client # g THEN "closed" ELSE @]
  /\ UNCHANGED <<snapshot, published, lifecycle_task, client, aborted,
                 stopper, opener, owned>>

-----------------------------------------------------------------------------
(* Mutant: the task is joined without being aborted. *)
StopBeginWithoutAbort(c) ==
  /\ LockFree
  /\ owned
  /\ stopper[c].state = "idle"
  /\ snapshot.phase # "Stopped"
  /\ snapshot.generation < MaxGeneration
  /\ Transition("Stopping", snapshot.generation + 1)
  /\ lifecycle_task' = None
  /\ stopper' = [stopper EXCEPT ![c] = [state |-> "stopping", task |-> lifecycle_task]]
  /\ client' = None
  /\ connection' = IF client = None THEN connection
                   ELSE [connection EXCEPT ![client] = "closed"]
  /\ UNCHANGED <<task, aborted, opener, owned>>

(* stop up to its first publication: the task is aborted and the client    *)
(* closed.                                                                 *)
StopBegin(c) ==
  /\ LockFree
  /\ owned
  /\ stopper[c].state = "idle"
  /\ snapshot.phase # "Stopped"
  /\ snapshot.generation < MaxGeneration
  /\ Transition("Stopping", snapshot.generation + 1)
  /\ lifecycle_task' = None
  /\ aborted' = IF lifecycle_task = None THEN aborted ELSE aborted \cup {lifecycle_task}
  /\ stopper' = [stopper EXCEPT ![c] = [state |-> "stopping", task |-> lifecycle_task]]
  /\ client' = None
  /\ connection' = IF client = None THEN connection
                   ELSE [connection EXCEPT ![client] = "closed"]
  /\ UNCHANGED <<task, opener, owned>>

(* complete_stop, the second publication, and release of the mutex.        *)
StopComplete(c) ==
  /\ stopper[c].state = "stopping"
  /\ Transition("Stopped", snapshot.generation)
  /\ stopper' = [stopper EXCEPT ![c].state = "joining"]
  /\ UNCHANGED <<lifecycle_task, client, task, aborted, connection, opener, owned>>

(* stop returns once the aborted task has ended. *)
StopReturns(c) ==
  /\ stopper[c].state = "joining"
  /\ stopper[c].task # None => task[stopper[c].task] = "done"
  /\ stopper' = [stopper EXCEPT ![c] = [state |-> "idle", task |-> None]]
  /\ UNCHANGED <<snapshot, published, lifecycle_task, client, task, aborted,
                 connection, opener, owned>>

-----------------------------------------------------------------------------
(* active_client *)
OpenStream(o) ==
  /\ LockFree
  /\ owned
  /\ opener[o].result = "idle"
  /\ snapshot.phase = "Online"
  /\ client # None
  /\ opener' = [opener EXCEPT ![o] = [generation |-> snapshot.generation,
                                      result |-> "pending"]]
  /\ UNCHANGED <<snapshot, published, lifecycle_task, client, task, aborted,
                 connection, stopper, owned>>

(* The await of Client::open_stream: it needs a live transport.            *)
OpenStreamAwaits(o) ==
  /\ opener[o].result = "pending"
  /\ opener' = [opener EXCEPT ![o].result =
                  IF connection[opener[o].generation] = "open" THEN "opened" ELSE "error"]
  /\ UNCHANGED <<snapshot, published, lifecycle_task, client, task, aborted,
                 connection, stopper, owned>>

(* Mutant: only the phase is looked at after the await. *)
IsGenerationOnlinePhaseOnly(generation) == published.phase = "Online"

(* is_generation_online reads the watch channel without the mutex.         *)
IsGenerationOnline(generation) ==
  published.generation = generation /\ published.phase = "Online"

OpenStreamReturns(o) ==
  /\ opener[o].result = "opened"
  /\ opener' = [opener EXCEPT ![o].result =
                  IF IsGenerationOnline(opener[o].generation) THEN "stream" ELSE "error"]
  /\ UNCHANGED <<snapshot, published, lifecycle_task, client, task, aborted,
                 connection, stopper, owned>>

(* The caller is done with the stream, or has reported the error. *)
StreamForgotten(o) ==
  /\ opener[o].result \in {"stream", "error"}
  /\ opener' = [opener EXCEPT ![o] = [generation |-> None, result |-> "idle"]]
  /\ UNCHANGED <<snapshot, published, lifecycle_task, client, task, aborted,
                 connection, stopper, owned>>

-----------------------------------------------------------------------------
(* The last outside Arc is dropped; calls in progress hold one. *)
DropOwner ==
  /\ owned
  /\ \A c \in Callers : stopper[c].state = "idle"
  /\ \A o \in Openers : opener[o].result = "idle"
  /\ owned' = FALSE
  /\ UNCHANGED <<snapshot, published, lifecycle_task, client, task, aborted,
                 connection, stopper, opener>>

(* Drop for ClientRuntime, when no strong reference is left. *)
DropRuntime ==
  /\ ~Upgradable
  /\ lifecycle_task # None
  /\ aborted' = aborted \cup {lifecycle_task}
  /\ lifecycle_task' = None
  /\ client' = None
  /\ connection' = IF client = None THEN connection
                   ELSE [connection EXCEPT ![client] = "closed"]
  /\ UNCHANGED <<snapshot, published, task, stopper, opener, owned>>

Next ==
  \/ Start
  \/ DropOwner
  \/ DropRuntime
  \/ \E g \in Generations : ConnectEnds(g)
  \/ \E g \in Generations : CompleteConnect(g)
  \/ \E g \in Generations : PeerCloses(g)
  \/ \E g \in Generations : CompleteConnectionClosed(g)
  \/ \E g \in Generations : TaskDropped(g)
  \/ \E c \in Callers : StopBegin(c)
  \/ \E c \in Callers : StopComplete(c)
  \/ \E c \in Callers : StopReturns(c)
  \/ \E o \in Openers : OpenStream(o)
  \/ \E o \in Openers : OpenStreamAwaits(o)
  \/ \E o \in Openers : OpenStreamReturns(o)
  \/ \E o \in Openers : StreamForgotten(o)

Spec == Init /\ [][Next]_vars

(* The executor runs every runnable task and drops aborted ones, and a     *)
(* thread inside stop keeps running.  Nothing obliges callers to call,     *)
(* peers to close or the network to answer.                                *)
Fairness ==
  /\ \A g \in Generations : /\ WF_vars(CompleteConnect(g))
                            /\ WF_vars(CompleteConnectionClosed(g))
                            /\ WF_vars(TaskDropped(g))
  /\ WF_vars(DropRuntime)
  /\ \A c \in Callers : WF_vars(StopComplete(c)) /\ WF_vars(StopReturns(c))

FairSpec == Spec /\ Fairness

-----------------------------------------------------------------------------
(* The state has the shape of the structs.                                 *)
TypeOK ==
  /\ snapshot \in Snapshots
  /\ published \in Snapshots
  /\ lifecycle_task \in Generations \cup {None}
  /\ client \in Generations \cup {None}
  /\ task \in [Generations -> {"none", "connecting", "connected", "refused",
                               "watching", "done"}]
  /\ aborted \subseteq Generations
  /\ connection \in [Generations -> {"none", "open", "closed"}]
  /\ stopper \in [Callers -> [state: {"idle", "stopping", "joining"},
                            task: Generations \cup {None}]]
  /\ opener \in [Openers -> [generation: Generations \cup {None},
                             result: {"idle", "pending", "opened", "stream", "error"}]]
  /\ owned \in BOOLEAN

(* client-architecture.md, Invariants: Online means the current start      *)
(* generation owns the transport; in every other phase none is owned.      *)
(* Stopped means it is closed already: only a result that no one has       *)
(* looked at yet can still be open, and its task was told to abort.        *)
OnlineOwnsItsConnection ==
  /\ snapshot.phase = "Online" => client = snapshot.generation
  /\ snapshot.phase # "Online" => client = None
  /\ snapshot.phase = "Stopped" =>
       /\ lifecycle_task = None
       /\ \A g \in Generations :
            connection[g] = "open" => task[g] = "connected" /\ g \in aborted

(* Every open transport is the owned one or still in the hands of a task   *)
(* that will publish or close it: a late result of a superseded start is   *)
(* not leaked.                                                             *)
NoOrphanConnection ==
  \A g \in Generations :
    connection[g] = "open" => client = g \/ task[g] \in {"connected", "watching"}

(* Every transport has its owner, and the phases say who it is.            *)
TransportsOwned == OnlineOwnsItsConnection /\ NoOrphanConnection

(* client-architecture.md, Failure And Recovery: an online generation      *)
(* fails only with its own connection; the end of an older one, noticed    *)
(* late, does not take down its successor.                                 *)
FailsOnlyWithItsConnection ==
  [][snapshot.phase = "Online" /\ snapshot'.phase = "Failed"
       => connection[snapshot.generation] = "closed"]_vars

(* A stream is handed out only over the connection its generation owns     *)
(* now.                                                                    *)
StreamsAreCurrent ==
  [][\A o \in Openers :
       opener[o].result = "opened" /\ opener'[o].result = "stream"
         => client = opener[o].generation]_vars

(* Generations do not disturb each other: neither the end of an old        *)
(* connection nor a stream opened over it reaches the one on line.         *)
GenerationsApart == FailsOnlyWithItsConnection /\ StreamsAreCurrent

(* An accepted start is decided, provided Client::connect itself ends (its *)
(* configured timeout).                                                    *)
StartIsDecided ==
  (\A g \in Generations : WF_vars(ConnectEnds(g)))
    => ((snapshot.phase = "Connecting") ~> (snapshot.phase # "Connecting" \/ ~owned))

(* client-architecture.md: stop waits only for local cancellation, never   *)
(* for the network; it returns even if the connection attempt never ends.  *)
StopReturnsEventually ==
  \A c \in Callers : (stopper[c].state # "idle") ~> (stopper[c].state = "idle")

(* Every start is decided and every stop returns.                          *)
CallsDecided == StartIsDecided /\ StopReturnsEventually

(* The runtime implements the lifecycle that its drivers rely on.          *)
Lifecycle == INSTANCE RuntimeLifecycle
               WITH phase <- snapshot.phase, generation <- snapshot.generation
LifecycleSpec == Lifecycle!Spec

(* client-architecture.md:207: dropping the runtime aborts any remaining   *)
(* task instead of detaching it.                                           *)
DropEndsTheTask ==
  ~owned ~> \A g \in Generations : task[g] \in {"none", "done"}
=============================================================================
