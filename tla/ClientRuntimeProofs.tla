------------------------ MODULE ClientRuntimeProofs -------------------------
(***************************************************************************)
(* Proofs about the two lifecycles of a client process: the runtime        *)
(* (module ClientRuntime) and, at the end, the Android packet engine that  *)
(* uses it (module AndroidTun).                                            *)
(*                                                                         *)
(* The runtime: LifecycleInv ties the phase to what the runtime owns.  Its *)
(* centre is UnsettledTasks: a task that has not published its result is   *)
(* that of the current attempt or was told to abort, so that a transport   *)
(* it opens late is never taken for the current one.  AbortedCurrent is    *)
(* what makes this inductive across Drop: the current task is aborted only *)
(* when nobody can upgrade to the runtime any more, and then nobody ever   *)
(* can again.                                                              *)
(***************************************************************************)
EXTENDS ClientRuntime, AndroidTun, FiniteSetTheorems, SequenceTheorems, TLAPS

(* A generation is published at most three times: Connecting, Online and   *)
(* Failed, or Stopping and Stopped.                                        *)
RevisionBound ==
  /\ snapshot.revision <= 3 * snapshot.generation
  /\ snapshot.phase \in {"Connecting", "Stopping"}
       => snapshot.revision + 2 <= 3 * snapshot.generation
  /\ snapshot.phase = "Online" => snapshot.revision + 1 <= 3 * snapshot.generation

TypeInv == TypeOK /\ published = snapshot /\ RevisionBound

(* The mutex that stop holds between its two publications has one holder.  *)
OneStopper ==
  /\ \A c \in Callers : stopper[c].state = "stopping" => snapshot.phase = "Stopping"
  /\ \A c, d \in Callers :
       stopper[c].state = "stopping" /\ stopper[d].state = "stopping" => c = d

(* The owned task is that of the current generation. *)
OwnedTask ==
  /\ lifecycle_task \in {None, snapshot.generation}
  /\ snapshot.phase \in {"Stopped", "Stopping", "Failed"} => lifecycle_task = None

(* Tasks exist and are aborted only up to the current generation. *)
NoFutureTasks ==
  \A g \in Generations : g > snapshot.generation => task[g] = "none" /\ g \notin aborted

(* g is the attempt whose result would be accepted. *)
IsAttempt(g) ==
  snapshot.phase = "Connecting" /\ g = snapshot.generation /\ lifecycle_task = g

UnsettledTasks ==
  \A g \in Generations :
    task[g] \in {"connecting", "connected", "refused"} => g \in aborted \/ IsAttempt(g)

AbortedCurrent == snapshot.generation \in aborted => snapshot.phase # "Online" /\ ~Upgradable

OwnedClient ==
  /\ snapshot.phase = "Online" => client = snapshot.generation
                                  /\ task[snapshot.generation] = "watching"
  /\ snapshot.phase # "Online" => client = None

OpenConnections ==
  \A g \in Generations : connection[g] = "open" => client = g \/ task[g] = "connected"

LifecycleInv ==
  /\ OneStopper /\ OwnedTask /\ NoFutureTasks /\ UnsettledTasks
  /\ AbortedCurrent /\ OwnedClient /\ OpenConnections

(* The fields of the snapshot, for the arithmetic on them. *)
LEMMA SnapshotTyped ==
  ASSUME TypeInv
  PROVE  /\ snapshot.revision \in Nat /\ snapshot.generation \in Nat
         /\ snapshot.generation \in Generations /\ snapshot.phase \in Phases
         /\ snapshot.generation <= MaxGeneration /\ MaxGeneration \in Nat
         /\ None \notin Generations
         /\ snapshot = [revision |-> snapshot.revision,
                        generation |-> snapshot.generation, phase |-> snapshot.phase]
BY RuntimeAssumption DEF TypeInv, TypeOK, Snapshots, Generations, MaxRevision

(* Lifecycle::transition followed by publish gives a snapshot of its type, *)
(* and its fields are those given.                                         *)
LEMMA TransitionTyped ==
  ASSUME TypeInv, NEW p \in Phases, NEW g \in Generations, Transition(p, g),
         snapshot.revision + 1 <= 3 * g
  PROVE  /\ snapshot' \in Snapshots /\ published' = snapshot'
         /\ snapshot'.revision = snapshot.revision + 1
         /\ snapshot'.generation = g /\ snapshot'.phase = p
<1>1. /\ snapshot' = [revision |-> snapshot.revision + 1, generation |-> g, phase |-> p]
      /\ published' = snapshot'
  BY DEF Transition
<1>2. snapshot.revision + 1 \in 0 .. MaxRevision
  BY SnapshotTyped DEF MaxRevision, Generations
<1> QED BY <1>1, <1>2 DEF Snapshots

(* The types, the exact publication and the bound on revisions hold        *)
(* together.                                                               *)
LEMMA TypeStep ==
  ASSUME TypeInv, OneStopper, [Next]_vars
  PROVE  TypeInv'
<1>0. USE SnapshotTyped DEF TypeInv, TypeOK
<1>1. CASE Start
  <2> DEFINE g == snapshot.generation + 1
  <2>1. g \in Generations /\ Transition("Connecting", g) /\ "Connecting" \in Phases
        /\ snapshot.revision + 1 <= 3 * g
        /\ snapshot.revision + 3 <= 3 * g
    BY <1>1 DEF Start, Generations, RevisionBound, Phases
  <2>2. /\ snapshot' \in Snapshots /\ published' = snapshot'
        /\ snapshot'.revision = snapshot.revision + 1
        /\ snapshot'.generation = g /\ snapshot'.phase = "Connecting"
    BY <2>1, TransitionTyped
  <2>3. RevisionBound'
    BY <2>1, <2>2 DEF RevisionBound
  <2> QED BY <1>1, <2>1, <2>2, <2>3 DEF Start
<1>2. CASE DropOwner
  BY <1>2 DEF DropOwner, RevisionBound
<1>3. CASE DropRuntime
  BY <1>3 DEF DropRuntime, RevisionBound
<1>4. ASSUME NEW g \in Generations, ConnectEnds(g)
      PROVE  TypeInv'
  BY <1>4 DEF ConnectEnds, RevisionBound
<1>5. ASSUME NEW g \in Generations, CompleteConnect(g)
      PROVE  TypeInv'
  <2>1. CASE Upgradable /\ CurrentAttempt(g) /\ task[g] = "connected"
    <3>1. snapshot.revision + 2 <= 3 * snapshot.generation /\ "Online" \in Phases
          /\ Transition("Online", snapshot.generation)
      BY <1>5, <2>1 DEF RevisionBound, CurrentAttempt, Phases, CompleteConnect
    <3>2. /\ snapshot' \in Snapshots /\ published' = snapshot'
          /\ snapshot'.revision = snapshot.revision + 1
          /\ snapshot'.generation = snapshot.generation /\ snapshot'.phase = "Online"
      BY <3>1, TransitionTyped
    <3>3. RevisionBound'
      BY <3>1, <3>2 DEF RevisionBound
    <3> QED BY <1>5, <2>1, <3>2, <3>3 DEF CompleteConnect
  <2>2. CASE Upgradable /\ CurrentAttempt(g) /\ task[g] # "connected"
    <3>1. snapshot.revision + 2 <= 3 * snapshot.generation /\ "Failed" \in Phases
          /\ Transition("Failed", snapshot.generation)
      BY <1>5, <2>2 DEF RevisionBound, CurrentAttempt, Phases, CompleteConnect
    <3>2. /\ snapshot' \in Snapshots /\ published' = snapshot'
          /\ snapshot'.revision = snapshot.revision + 1
          /\ snapshot'.generation = snapshot.generation /\ snapshot'.phase = "Failed"
      BY <3>1, TransitionTyped
    <3>3. RevisionBound'
      BY <3>1, <3>2 DEF RevisionBound
    <3> QED BY <1>5, <2>2, <3>2, <3>3 DEF CompleteConnect, ClearTask
  <2>3. CASE ~(Upgradable /\ CurrentAttempt(g))
    BY <1>5, <2>3 DEF CompleteConnect, DiscardLateResult, RevisionBound
  <2> QED BY <2>1, <2>2, <2>3
<1>6. ASSUME NEW g \in Generations, PeerCloses(g)
      PROVE  TypeInv'
  BY <1>6 DEF PeerCloses, RevisionBound
<1>7. ASSUME NEW g \in Generations, CompleteConnectionClosed(g)
      PROVE  TypeInv'
  <2>1. CASE CurrentConnection(g)
    <3>1. snapshot.revision + 1 <= 3 * snapshot.generation /\ "Failed" \in Phases
          /\ Transition("Failed", snapshot.generation)
      BY <1>7, <2>1 DEF RevisionBound, CurrentConnection, Phases, CompleteConnectionClosed
    <3>2. /\ snapshot' \in Snapshots /\ published' = snapshot'
          /\ snapshot'.revision = snapshot.revision + 1
          /\ snapshot'.generation = snapshot.generation /\ snapshot'.phase = "Failed"
      BY <3>1, TransitionTyped
    <3>3. RevisionBound'
      BY <3>1, <3>2 DEF RevisionBound
    <3> QED BY <1>7, <2>1, <3>2, <3>3 DEF CompleteConnectionClosed, ClearTask
  <2>2. CASE ~CurrentConnection(g)
    BY <1>7, <2>2 DEF CompleteConnectionClosed, RevisionBound
  <2> QED BY <2>1, <2>2
<1>8. ASSUME NEW g \in Generations, TaskDropped(g)
      PROVE  TypeInv'
  BY <1>8 DEF TaskDropped, RevisionBound
<1>9. ASSUME NEW c \in Callers, StopBegin(c)
      PROVE  TypeInv'
  <2> DEFINE g == snapshot.generation + 1
  <2>1. g \in Generations /\ Transition("Stopping", g) /\ "Stopping" \in Phases
        /\ snapshot.revision + 3 <= 3 * g /\ snapshot.revision + 1 <= 3 * g
    BY <1>9 DEF StopBegin, Generations, RevisionBound, Phases
  <2>2. /\ snapshot' \in Snapshots /\ published' = snapshot'
        /\ snapshot'.revision = snapshot.revision + 1
        /\ snapshot'.generation = g /\ snapshot'.phase = "Stopping"
    BY <2>1, TransitionTyped
  <2>3. RevisionBound'
    BY <2>1, <2>2 DEF RevisionBound
  <2> QED BY <1>9, <2>1, <2>2, <2>3 DEF StopBegin
<1>10. ASSUME NEW c \in Callers, StopComplete(c)
       PROVE  TypeInv'
  <2>1. snapshot.revision + 2 <= 3 * snapshot.generation /\ "Stopped" \in Phases
        /\ Transition("Stopped", snapshot.generation)
    BY <1>10 DEF StopComplete, RevisionBound, Phases, OneStopper
  <2>2. /\ snapshot' \in Snapshots /\ published' = snapshot'
        /\ snapshot'.revision = snapshot.revision + 1
        /\ snapshot'.generation = snapshot.generation /\ snapshot'.phase = "Stopped"
    BY <2>1, TransitionTyped
  <2>3. RevisionBound'
    BY <2>1, <2>2 DEF RevisionBound
  <2> QED BY <1>10, <2>2, <2>3 DEF StopComplete
<1>11. ASSUME NEW c \in Callers, StopReturns(c)
       PROVE  TypeInv'
  BY <1>11 DEF StopReturns, RevisionBound
<1>12. ASSUME NEW o \in Openers,
              OpenStream(o) \/ OpenStreamAwaits(o) \/ OpenStreamReturns(o) \/ StreamForgotten(o)
       PROVE  TypeInv'
  BY <1>12 DEF OpenStream, OpenStreamAwaits, OpenStreamReturns, StreamForgotten, RevisionBound
<1>13. CASE UNCHANGED vars
  BY <1>13 DEF vars, RevisionBound
<1> QED BY <1>1, <1>2, <1>3, <1>4, <1>5, <1>6, <1>7, <1>8, <1>9, <1>10, <1>11, <1>12, <1>13
        DEF Next

-----------------------------------------------------------------------------
(* The phase and the generation that a transition publishes. *)
LEMMA TransitionFields ==
  ASSUME NEW p, NEW g, Transition(p, g)
  PROVE  snapshot'.phase = p /\ snapshot'.generation = g
BY DEF Transition

(* start_with keeps the ties between phase, tasks and transports. *)
LEMMA StartKeeps ==
  ASSUME TypeInv, LifecycleInv, Start
  PROVE  LifecycleInv'
<1> DEFINE g == snapshot.generation + 1
<1>1. /\ snapshot'.phase = "Connecting" /\ snapshot'.generation = g
      /\ g \in Generations /\ g > snapshot.generation /\ g # None
      /\ snapshot.phase \in {"Stopped", "Failed"}
      /\ lifecycle_task' = g /\ task' = [task EXCEPT ![g] = "connecting"]
      /\ UNCHANGED <<client, aborted, connection, stopper, owned>>
  BY SnapshotTyped, TransitionFields DEF Start, Generations
<1>2. task \in [Generations -> {"none", "connecting", "connected", "refused",
                                "watching", "done"}]
  BY DEF TypeInv, TypeOK
<1>3. /\ task'[g] = "connecting" /\ task[g] = "none" /\ g \notin aborted
      /\ \A h \in Generations : h # g => task'[h] = task[h]
  BY <1>1, <1>2 DEF LifecycleInv, NoFutureTasks
<1> HIDE DEF g
<1>4. OneStopper' /\ OwnedTask' /\ OwnedClient' /\ AbortedCurrent'
  BY <1>1, <1>3 DEF LifecycleInv, OneStopper, OwnedTask, OwnedClient, AbortedCurrent
<1>5. NoFutureTasks'
  BY <1>1, <1>3, SnapshotTyped DEF LifecycleInv, NoFutureTasks, Generations, g
<1>6. UnsettledTasks'
  BY <1>1, <1>3 DEF LifecycleInv, UnsettledTasks, IsAttempt
<1>7. OpenConnections'
  BY <1>1, <1>3 DEF LifecycleInv, OpenConnections
<1> QED BY <1>4, <1>5, <1>6, <1>7 DEF LifecycleInv

(* ConnectEnds, PeerCloses and TaskDropped: the phase does not move. *)
LEMMA TasksKeep ==
  ASSUME TypeInv, LifecycleInv, NEW g \in Generations,
         ConnectEnds(g) \/ PeerCloses(g) \/ TaskDropped(g)
  PROVE  LifecycleInv'
<1>1. /\ UNCHANGED <<snapshot, lifecycle_task, client, aborted, stopper, owned>>
      /\ \A h \in Generations : h # g => task'[h] = task[h] /\ connection'[h] = connection[h]
  BY DEF ConnectEnds, PeerCloses, TaskDropped, TypeInv, TypeOK
<1>2. \/ /\ task[g] = "connecting"
         /\ \/ task'[g] = "connected"
            \/ task'[g] = "refused" /\ connection'[g] = connection[g]
      \/ task'[g] = task[g] /\ connection'[g] = "closed"
      \/ /\ g \in aborted /\ task[g] # "none" /\ task'[g] = "done"
         /\ connection'[g] = "open" => client = g
  BY DEF ConnectEnds, PeerCloses, TaskDropped, TypeInv, TypeOK
<1>3. OneStopper' /\ OwnedTask'
  BY <1>1 DEF LifecycleInv, OneStopper, OwnedTask
<1>4. NoFutureTasks'
  BY <1>1, <1>2 DEF LifecycleInv, NoFutureTasks
<1>5. UnsettledTasks'
  BY <1>1, <1>2 DEF LifecycleInv, UnsettledTasks, IsAttempt
<1>6. AbortedCurrent'
  BY <1>1, <1>2 DEF LifecycleInv, AbortedCurrent, Upgradable
<1>7. OwnedClient'
  BY <1>1, <1>2, SnapshotTyped DEF LifecycleInv, OwnedClient, AbortedCurrent
<1>8. OpenConnections'
  BY <1>1, <1>2 DEF LifecycleInv, OpenConnections
<1> QED BY <1>3, <1>4, <1>5, <1>6, <1>7, <1>8 DEF LifecycleInv

(* complete_connect: the current attempt is published, any other result is *)
(* closed.                                                                 *)
LEMMA CompleteConnectKeeps ==
  ASSUME TypeInv, LifecycleInv, NEW g \in Generations, CompleteConnect(g)
  PROVE  LifecycleInv'
<1>1. /\ UNCHANGED <<aborted, stopper, owned>>
      /\ task[g] \in {"connected", "refused"} /\ snapshot.phase # "Stopping"
      /\ \A h \in Generations : h # g => task'[h] = task[h] /\ connection'[h] = connection[h]
  BY DEF CompleteConnect, LockFree, DiscardLateResult, TypeInv, TypeOK
<1>2. CASE Upgradable /\ CurrentAttempt(g) /\ task[g] = "connected"
  <2>1. /\ snapshot'.phase = "Online" /\ snapshot'.generation = snapshot.generation
        /\ client' = g /\ task'[g] = "watching"
        /\ UNCHANGED <<lifecycle_task, connection>>
        /\ g = snapshot.generation /\ snapshot.phase = "Connecting"
    BY <1>2, TransitionFields DEF CompleteConnect, CurrentAttempt, TypeInv, TypeOK
  <2>2. g \notin aborted
    BY <1>2, <2>1 DEF LifecycleInv, AbortedCurrent
  <2>3. client = None
    BY <2>1 DEF LifecycleInv, OwnedClient
  <2>4. OneStopper' /\ OwnedTask'
    BY <1>1, <2>1 DEF LifecycleInv, OneStopper, OwnedTask
  <2>5. NoFutureTasks'
    BY <1>1, <2>1, SnapshotTyped DEF LifecycleInv, NoFutureTasks
  <2>6. UnsettledTasks'
    BY <1>1, <2>1 DEF LifecycleInv, UnsettledTasks, IsAttempt
  <2>7. AbortedCurrent' /\ OwnedClient'
    BY <1>1, <2>1, <2>2 DEF AbortedCurrent, OwnedClient
  <2>8. OpenConnections'
    BY <1>1, <2>1, <2>3, SnapshotTyped DEF LifecycleInv, OpenConnections
  <2> QED BY <2>4, <2>5, <2>6, <2>7, <2>8 DEF LifecycleInv
<1>3. CASE Upgradable /\ CurrentAttempt(g) /\ task[g] # "connected"
  <2>1. /\ snapshot'.phase = "Failed" /\ snapshot'.generation = snapshot.generation
        /\ UNCHANGED <<client, connection>> /\ task'[g] = "done"
        /\ lifecycle_task' = IF lifecycle_task = g THEN None ELSE lifecycle_task
        /\ g = snapshot.generation /\ snapshot.phase = "Connecting"
    BY <1>3, TransitionFields DEF CompleteConnect, CurrentAttempt, ClearTask, TypeInv, TypeOK
  <2>2. g \notin aborted
    BY <1>3, <2>1 DEF LifecycleInv, AbortedCurrent
  <2>4. OneStopper' /\ OwnedTask'
    BY <1>1, <2>1 DEF LifecycleInv, OneStopper, OwnedTask
  <2>5. NoFutureTasks'
    BY <1>1, <2>1, SnapshotTyped DEF LifecycleInv, NoFutureTasks
  <2>6. UnsettledTasks'
    BY <1>1, <2>1 DEF LifecycleInv, UnsettledTasks, IsAttempt
  <2>7. AbortedCurrent' /\ OwnedClient'
    BY <1>1, <2>1, <2>2 DEF LifecycleInv, AbortedCurrent, OwnedClient
  <2>8. OpenConnections'
    BY <1>1, <1>3, <2>1 DEF LifecycleInv, OpenConnections
  <2> QED BY <2>4, <2>5, <2>6, <2>7, <2>8 DEF LifecycleInv
<1>4. CASE ~(Upgradable /\ CurrentAttempt(g))
  <2>1. /\ UNCHANGED <<snapshot, lifecycle_task, client>>
        /\ task'[g] = "done" /\ connection'[g] # "open"
    BY <1>4 DEF CompleteConnect, DiscardLateResult, TypeInv, TypeOK
  <2>4. OneStopper' /\ OwnedTask'
    BY <1>1, <2>1 DEF LifecycleInv, OneStopper, OwnedTask
  <2>5. NoFutureTasks'
    BY <1>1, <2>1 DEF LifecycleInv, NoFutureTasks
  <2>6. UnsettledTasks'
    BY <1>1, <2>1 DEF LifecycleInv, UnsettledTasks, IsAttempt
  <2>7. AbortedCurrent' /\ OwnedClient'
    BY <1>1, <2>1, SnapshotTyped DEF LifecycleInv, AbortedCurrent, OwnedClient, Upgradable
  <2>8. OpenConnections'
    BY <1>1, <2>1 DEF LifecycleInv, OpenConnections
  <2> QED BY <2>4, <2>5, <2>6, <2>7, <2>8 DEF LifecycleInv
<1> QED BY <1>2, <1>3, <1>4

(* complete_connection_closed: only the connection on line takes the       *)
(* runtime down.                                                           *)
LEMMA ConnectionClosedKeeps ==
  ASSUME TypeInv, LifecycleInv, NEW g \in Generations, CompleteConnectionClosed(g)
  PROVE  LifecycleInv'
<1>1. /\ UNCHANGED <<aborted, connection, stopper, owned>>
      /\ task[g] = "watching" /\ connection[g] = "closed" /\ task'[g] = "done"
      /\ \A h \in Generations : h # g => task'[h] = task[h]
  BY DEF CompleteConnectionClosed, TypeInv, TypeOK
<1>2. CASE CurrentConnection(g)
  <2>1. /\ snapshot'.phase = "Failed" /\ snapshot'.generation = snapshot.generation
        /\ client' = None
        /\ lifecycle_task' = IF lifecycle_task = g THEN None ELSE lifecycle_task
        /\ g = snapshot.generation /\ snapshot.phase = "Online" /\ client = g
    BY <1>2, TransitionFields
       DEF CompleteConnectionClosed, CurrentConnection, ClearTask, LifecycleInv, OwnedClient
  <2>2. g \notin aborted
    BY <2>1 DEF LifecycleInv, AbortedCurrent
  <2>4. OneStopper' /\ OwnedTask'
    BY <1>1, <2>1 DEF LifecycleInv, OneStopper, OwnedTask
  <2>5. NoFutureTasks'
    BY <1>1, <2>1, SnapshotTyped DEF LifecycleInv, NoFutureTasks
  <2>6. UnsettledTasks'
    BY <1>1, <2>1 DEF LifecycleInv, UnsettledTasks, IsAttempt
  <2>7. AbortedCurrent' /\ OwnedClient'
    BY <1>1, <2>1, <2>2 DEF AbortedCurrent, OwnedClient
  <2>8. OpenConnections'
    BY <1>1, <2>1 DEF LifecycleInv, OpenConnections
  <2> QED BY <2>4, <2>5, <2>6, <2>7, <2>8 DEF LifecycleInv
<1>3. CASE ~CurrentConnection(g)
  <2>1. UNCHANGED <<snapshot, lifecycle_task, client>>
    BY <1>3 DEF CompleteConnectionClosed
  <2>4. OneStopper' /\ OwnedTask'
    BY <1>1, <2>1 DEF LifecycleInv, OneStopper, OwnedTask
  <2>5. NoFutureTasks'
    BY <1>1, <2>1 DEF LifecycleInv, NoFutureTasks
  <2>6. UnsettledTasks'
    BY <1>1, <2>1 DEF LifecycleInv, UnsettledTasks, IsAttempt
  <2>7. AbortedCurrent' /\ OwnedClient'
    BY <1>1, <1>3, <2>1, SnapshotTyped
       DEF LifecycleInv, AbortedCurrent, OwnedClient, Upgradable, CurrentConnection
  <2>8. OpenConnections'
    BY <1>1, <2>1 DEF LifecycleInv, OpenConnections
  <2> QED BY <2>4, <2>5, <2>6, <2>7, <2>8 DEF LifecycleInv
<1> QED BY <1>2, <1>3

(* stop up to its first publication takes the task and the client out, and *)
(* every task left without a result was told to abort.                     *)
LEMMA StopBeginKeeps ==
  ASSUME TypeInv, LifecycleInv, NEW c \in Callers, StopBegin(c)
  PROVE  LifecycleInv'
<1>1. /\ snapshot'.phase = "Stopping" /\ snapshot'.generation = snapshot.generation + 1
      /\ snapshot.generation + 1 \in Generations /\ snapshot.phase # "Stopping"
      /\ lifecycle_task' = None /\ client' = None /\ owned
      /\ aborted' = IF lifecycle_task = None THEN aborted ELSE aborted \cup {lifecycle_task}
      /\ UNCHANGED <<task, owned>>
  BY SnapshotTyped, TransitionFields DEF StopBegin, LockFree, Generations
<1>2. /\ \A d \in Callers : d # c => stopper'[d] = stopper[d]
      /\ \A g \in Generations : connection'[g] = "open" => connection[g] = "open" /\ client # g
  <2>1. \A d \in Callers : d # c => stopper'[d] = stopper[d]
    BY DEF StopBegin, TypeInv, TypeOK
  <2>2. CASE client = None
    BY <2>1, <2>2, SnapshotTyped DEF StopBegin
  <2>3. CASE client # None
    <3>1. client \in Generations /\ connection' = [connection EXCEPT ![client] = "closed"]
      BY <2>3 DEF StopBegin, TypeInv, TypeOK
    <3> QED BY <2>1, <3>1 DEF TypeInv, TypeOK
  <2> QED BY <2>2, <2>3
<1>3. OneStopper' /\ OwnedTask'
  BY <1>1, <1>2 DEF LifecycleInv, OneStopper, OwnedTask
<1>4. NoFutureTasks' /\ snapshot'.generation \notin aborted'
  BY <1>1, SnapshotTyped DEF LifecycleInv, NoFutureTasks, OwnedTask, Generations
<1>5. UnsettledTasks'
  BY <1>1, SnapshotTyped DEF LifecycleInv, UnsettledTasks, IsAttempt
<1>6. AbortedCurrent' /\ OwnedClient'
  BY <1>1, <1>4 DEF AbortedCurrent, OwnedClient
<1>7. OpenConnections'
  BY <1>1, <1>2 DEF LifecycleInv, OpenConnections
<1> QED BY <1>3, <1>4, <1>5, <1>6, <1>7 DEF LifecycleInv

(* complete_stop is the step of the caller that holds the mutex. *)
LEMMA StopCompleteKeeps ==
  ASSUME TypeInv, LifecycleInv, NEW c \in Callers, StopComplete(c)
  PROVE  LifecycleInv'
<1>1. /\ snapshot'.phase = "Stopped" /\ snapshot'.generation = snapshot.generation
      /\ snapshot.phase = "Stopping"
      /\ UNCHANGED <<lifecycle_task, client, task, aborted, connection, owned>>
  BY TransitionFields DEF StopComplete, LifecycleInv, OneStopper
<1>2. \A d \in Callers : stopper'[d].state # "stopping"
  BY DEF StopComplete, LifecycleInv, OneStopper, TypeInv, TypeOK
<1> QED BY <1>1, <1>2 DEF LifecycleInv, OneStopper, OwnedTask, NoFutureTasks, UnsettledTasks,
                          IsAttempt, AbortedCurrent, OwnedClient, OpenConnections, Upgradable

(* Drop for ClientRuntime finds no client: while one is on line, its task  *)
(* holds a strong reference.                                               *)
LEMMA DropRuntimeKeeps ==
  ASSUME TypeInv, LifecycleInv, DropRuntime
  PROVE  LifecycleInv'
<1>1. /\ ~Upgradable /\ lifecycle_task = snapshot.generation
      /\ aborted' = aborted \cup {lifecycle_task}
      /\ lifecycle_task' = None /\ client' = None
      /\ UNCHANGED <<snapshot, task, stopper, owned>>
  BY DEF DropRuntime, LifecycleInv, OwnedTask
<1>2. snapshot.phase # "Online"
  BY <1>1, SnapshotTyped DEF LifecycleInv, OwnedClient, Upgradable
<1>3. client = None /\ connection' = connection
  BY <1>2 DEF LifecycleInv, OwnedClient, DropRuntime
<1>4. OneStopper' /\ OwnedTask' /\ OwnedClient' /\ OpenConnections'
  BY <1>1, <1>2, <1>3 DEF LifecycleInv, OneStopper, OwnedTask, OwnedClient, OpenConnections
<1>5. NoFutureTasks'
  BY <1>1, SnapshotTyped DEF LifecycleInv, NoFutureTasks
<1>6. UnsettledTasks'
  BY <1>1 DEF LifecycleInv, UnsettledTasks, IsAttempt
<1>7. AbortedCurrent'
  BY <1>1, <1>2 DEF AbortedCurrent, Upgradable
<1> QED BY <1>4, <1>5, <1>6, <1>7 DEF LifecycleInv

(* Steps that touch neither the lifecycle nor the transports. *)
LEMMA OthersKeep ==
  ASSUME TypeInv, LifecycleInv,
         UNCHANGED <<snapshot, lifecycle_task, client, task, aborted, connection>>,
         owned' => owned,
         \A c \in Callers : stopper'[c].state = "stopping" => stopper[c].state = "stopping"
  PROVE  LifecycleInv'
BY DEF LifecycleInv, OneStopper, OwnedTask, NoFutureTasks, UnsettledTasks,
       IsAttempt, AbortedCurrent, OwnedClient, OpenConnections, Upgradable

(* Every step of the runtime keeps its lifecycle invariant. *)
LEMMA LifecycleStep ==
  ASSUME TypeInv, LifecycleInv, [Next]_vars
  PROVE  LifecycleInv'
<1>1. CASE DropOwner
  BY <1>1, OthersKeep DEF DropOwner
<1>2. ASSUME NEW c \in Callers, StopReturns(c)
      PROVE  LifecycleInv'
  <2>1. \A d \in Callers : stopper'[d].state = "stopping" => stopper[d].state = "stopping"
    BY <1>2 DEF StopReturns, TypeInv, TypeOK
  <2> QED BY <1>2, <2>1, OthersKeep DEF StopReturns
<1>3. ASSUME NEW o \in Openers,
             OpenStream(o) \/ OpenStreamAwaits(o) \/ OpenStreamReturns(o) \/ StreamForgotten(o)
      PROVE  LifecycleInv'
  BY <1>3, OthersKeep DEF OpenStream, OpenStreamAwaits, OpenStreamReturns, StreamForgotten
<1>4. CASE UNCHANGED vars
  BY <1>4, OthersKeep DEF vars
<1> QED BY <1>1, <1>2, <1>3, <1>4, StartKeeps, TasksKeep, CompleteConnectKeeps,
           ConnectionClosedKeeps, StopBeginKeeps, StopCompleteKeeps, DropRuntimeKeeps DEF Next

(* Both invariants hold of every behaviour of the runtime. *)
LEMMA RuntimeInvariant == Spec => [](TypeInv /\ LifecycleInv)
<1>1. Init => TypeInv /\ LifecycleInv
  BY RuntimeAssumption
     DEF Init, TypeInv, TypeOK, RevisionBound, Snapshots, Generations, Phases, MaxRevision,
         LifecycleInv, OneStopper, OwnedTask, NoFutureTasks, UnsettledTasks, AbortedCurrent,
         OwnedClient, OpenConnections
<1>2. TypeInv /\ LifecycleInv /\ [Next]_vars => TypeInv'
  BY TypeStep DEF LifecycleInv
<1>3. TypeInv /\ LifecycleInv /\ [Next]_vars => LifecycleInv'
  BY LifecycleStep
<1> QED BY <1>1, <1>2, <1>3, PTL DEF Spec

(* The state of a runtime keeps its types, and however often it is started *)
(* and stopped each generation is published at most three times.           *)
THEOREM RuntimeTypeCorrect == Spec => []TypeOK
<1>1. TypeInv => TypeOK
  BY DEF TypeInv
<1> QED BY <1>1, RuntimeInvariant, PTL

(* client-architecture.md, Invariants: Online means that the current       *)
(* generation owns the transport; otherwise none is owned, and a stopped   *)
(* runtime leaves open only what an aborted task has not looked at yet.    *)
THEOREM TransportsAlwaysOwned == Spec => []TransportsOwned
<1>1. TypeInv /\ LifecycleInv => TransportsOwned
  BY SnapshotTyped
     DEF LifecycleInv, OwnedTask, UnsettledTasks, IsAttempt, OwnedClient, OpenConnections,
         TransportsOwned, OnlineOwnsItsConnection, NoOrphanConnection
<1> QED BY <1>1, RuntimeInvariant, PTL

(* A late end of an older connection does not fail the runtime, and        *)
(* open_stream returns no stream of a connection that is not the owned one *)
(* any more, however stop and start interleave with its await.             *)
THEOREM GenerationsStayApart == Spec => GenerationsApart
<1> DEFINE Fails == snapshot.phase = "Online" /\ snapshot'.phase = "Failed"
                      => connection[snapshot.generation] = "closed"
           Current == \A o \in Openers :
                        opener[o].result = "opened" /\ opener'[o].result = "stream"
                          => client = opener[o].generation
<1>1. TypeInv /\ LifecycleInv /\ [Next]_vars => [Fails]_vars
  <2> SUFFICES ASSUME TypeInv, LifecycleInv, Next
               PROVE  Fails
    OBVIOUS
  <2>1. CASE Start \/ DropOwner \/ DropRuntime
    BY <2>1, TransitionFields DEF Start, DropOwner, DropRuntime
  <2>2. ASSUME NEW g \in Generations, ConnectEnds(g) \/ PeerCloses(g) \/ TaskDropped(g)
        PROVE  Fails
    BY <2>2 DEF ConnectEnds, PeerCloses, TaskDropped
  <2>3. ASSUME NEW g \in Generations, CompleteConnect(g)
        PROVE  Fails
    BY <2>3 DEF CompleteConnect, CurrentAttempt
  <2>4. ASSUME NEW g \in Generations, CompleteConnectionClosed(g)
        PROVE  Fails
    BY <2>4 DEF CompleteConnectionClosed, CurrentConnection
  <2>5. ASSUME NEW c \in Callers, StopBegin(c) \/ StopComplete(c) \/ StopReturns(c)
        PROVE  Fails
    BY <2>5, TransitionFields DEF StopBegin, StopComplete, StopReturns
  <2>6. ASSUME NEW o \in Openers,
               OpenStream(o) \/ OpenStreamAwaits(o) \/ OpenStreamReturns(o) \/ StreamForgotten(o)
        PROVE  Fails
    BY <2>6 DEF OpenStream, OpenStreamAwaits, OpenStreamReturns, StreamForgotten
  <2> HIDE DEF Fails
  <2> QED BY <2>1, <2>2, <2>3, <2>4, <2>5, <2>6 DEF Next
<1>2. TypeInv /\ LifecycleInv /\ [Next]_vars => [Current]_vars
  <2> SUFFICES ASSUME TypeInv, LifecycleInv, Next,
                      NEW o \in Openers,
                      opener[o].result = "opened", opener'[o].result = "stream"
               PROVE  client = opener[o].generation
    OBVIOUS
  <2>1. OpenStreamReturns(o)
    <3>1. opener' # opener
      OBVIOUS
    <3>2. PICK p \in Openers : \/ OpenStream(p) \/ OpenStreamAwaits(p)
                               \/ OpenStreamReturns(p) \/ StreamForgotten(p)
      BY <3>1 DEF Next, Start, DropOwner, DropRuntime, ConnectEnds, CompleteConnect, PeerCloses,
                  CompleteConnectionClosed, TaskDropped, StopBegin, StopComplete, StopReturns
    <3>3. p = o
      BY <3>2 DEF OpenStream, OpenStreamAwaits, OpenStreamReturns, StreamForgotten,
                  TypeInv, TypeOK
    <3> QED BY <3>2, <3>3 DEF OpenStream, OpenStreamAwaits, StreamForgotten
  <2>2. published.generation = opener[o].generation /\ published.phase = "Online"
    BY <2>1 DEF OpenStreamReturns, IsGenerationOnline, TypeInv, TypeOK
  <2> QED BY <2>2 DEF TypeInv, LifecycleInv, OwnedClient
<1>3. Spec => [][Fails]_vars /\ [][Current]_vars
  <2> HIDE DEF Fails, Current
  <2> QED BY <1>1, <1>2, RuntimeInvariant, PTL DEF Spec
<1> QED BY <1>3 DEF GenerationsApart, FailsOnlyWithItsConnection, StreamsAreCurrent

(* Seen through its snapshot, the runtime is the lifecycle of module       *)
(* RuntimeLifecycle: begin_connect, complete_connect, fail_online and the  *)
(* two halves of stop in the order that module allows, whatever the tasks  *)
(* and callers do.                                                         *)
THEOREM RuntimeImplementsLifecycle == Spec => LifecycleSpec
<1>1. Init => Lifecycle!Init
  BY DEF Init, Lifecycle!Init
<1>2. TypeInv /\ LifecycleInv /\ [Next]_vars
        => [Lifecycle!Next]_<<snapshot.phase, snapshot.generation>>
  <2> SUFFICES ASSUME TypeInv, LifecycleInv, Next
               PROVE  Lifecycle!Next \/ UNCHANGED snapshot
    BY DEF vars
  <2>1. CASE Start
    BY <2>1, TransitionFields DEF Start, Lifecycle!Next, Lifecycle!Connect
  <2>2. ASSUME NEW g \in Generations, CompleteConnect(g)
        PROVE  Lifecycle!Next \/ UNCHANGED snapshot
    BY <2>2, TransitionFields
       DEF CompleteConnect, CurrentAttempt, Lifecycle!Next, Lifecycle!Settle
  <2>3. ASSUME NEW g \in Generations, CompleteConnectionClosed(g)
        PROVE  Lifecycle!Next \/ UNCHANGED snapshot
    BY <2>3, TransitionFields
       DEF CompleteConnectionClosed, CurrentConnection, Lifecycle!Next, Lifecycle!Fail
  <2>4. ASSUME NEW c \in Callers, StopBegin(c)
        PROVE  Lifecycle!Next
    BY <2>4, TransitionFields, SnapshotTyped
       DEF StopBegin, LockFree, Phases, Lifecycle!Next, Lifecycle!BeginStop
  <2>5. ASSUME NEW c \in Callers, StopComplete(c)
        PROVE  Lifecycle!Next
    BY <2>5, TransitionFields
       DEF StopComplete, LifecycleInv, OneStopper, Lifecycle!Next, Lifecycle!CompleteStop
  <2>6. CASE DropOwner \/ DropRuntime
    BY <2>6 DEF DropOwner, DropRuntime
  <2>7. ASSUME NEW g \in Generations, ConnectEnds(g) \/ PeerCloses(g) \/ TaskDropped(g)
        PROVE  UNCHANGED snapshot
    BY <2>7 DEF ConnectEnds, PeerCloses, TaskDropped
  <2>8. ASSUME NEW c \in Callers, StopReturns(c)
        PROVE  UNCHANGED snapshot
    BY <2>8 DEF StopReturns
  <2>9. ASSUME NEW o \in Openers,
               OpenStream(o) \/ OpenStreamAwaits(o) \/ OpenStreamReturns(o) \/ StreamForgotten(o)
        PROVE  UNCHANGED snapshot
    BY <2>9 DEF OpenStream, OpenStreamAwaits, OpenStreamReturns, StreamForgotten
  <2> QED BY <2>1, <2>2, <2>3, <2>4, <2>5, <2>6, <2>7, <2>8, <2>9 DEF Next
<1> QED BY <1>1, <1>2, RuntimeInvariant, PTL DEF Spec, LifecycleSpec, Lifecycle!Spec

-----------------------------------------------------------------------------
(* The Android engine.  A datagram reaches the flow it belongs to because  *)
(* NEXT_SESSION never goes back: a session is that of one task for good,   *)
(* so that a copy of a route, however old, names the task its session      *)
(* still belongs to.                                                       *)

UdpTask == [at : Busy \cup {"none", "done"}, run : Runs \cup {Nobody},
            target : TunTargets \cup {Nobody}, session : Nat \cup {Nobody}]

Response == [session : Nat, source : TunTargets]

(* The tasks that have a session.                                          *)
Assigned == {t \in UdpTasks : udp[t].session # Nobody}

(* Sessions are handed out one after the other, to one task each.          *)
SessionsDistinct ==
  /\ udp \in [UdpTasks -> UdpTask]
  /\ nextSessionId \in Nat \ {0}
  /\ Cardinality(Assigned) + 1 = nextSessionId
  /\ \A t \in UdpTasks :
       /\ udp[t].session # Nobody => udp[t].session < nextSessionId
       /\ udp[t].at \in {"none", "starting"} <=> udp[t].session = Nobody
       /\ udp[t].at # "none" => udp[t].run \in Runs
  /\ \A t, u \in UdpTasks :
       t # u /\ udp[t].session # Nobody => udp[t].session # udp[u].session

(* A route leads to the task that has its session.                         *)
RoutesLead ==
  /\ DOMAIN routes = Runs
  /\ \A r \in Runs : \A s \in DOMAIN routes[r] :
       s \in Nat /\ routes[r][s] \in UdpTasks /\ udp[routes[r][s]].session = s

(* What a receiver has copied from a route is still true of its task.      *)
CopiesTrue ==
  /\ DOMAIN packetReceiver = Runs
  /\ \A r \in Runs : packetReceiver[r].at = "sending" =>
       /\ packetReceiver[r].to \in UdpTasks
       /\ packetReceiver[r].session \in Nat /\ packetReceiver[r].source \in TunTargets
       /\ packetReceiver[r].session = udp[packetReceiver[r].to].session
       /\ packetReceiver[r].source = udp[packetReceiver[r].to].target

(* A channel holds responses to its task only.                             *)
ResponsesTrue ==
  /\ DOMAIN responses = UdpTasks
  /\ \A t \in UdpTasks :
       /\ responses[t] \in Seq(Response)
       /\ udp[t].session = Nobody => responses[t] = << >>
       /\ \A i \in DOMAIN responses[t] :
            responses[t][i] = [session |-> udp[t].session, source |-> udp[t].target]

EngineInv == SessionsDistinct /\ RoutesLead /\ CopiesTrue /\ ResponsesTrue

(* The least of a set of numbers, when one of its members is known to be.  *)
LEMMA MinIs ==
  ASSUME NEW S \in SUBSET Nat, NEW k \in S, \A y \in S : k <= y
  PROVE  Min(S) = k
<1>1. Min(S) \in S /\ \A y \in S : Min(S) <= y
  BY DEF Min
<1>2. Min(S) <= k /\ k <= Min(S) /\ k \in Nat /\ Min(S) \in Nat
  BY <1>1
<1> QED BY ONLY <1>2

(* Nothing has a session before the first run.                             *)
LEMMA EngineInitial == AndroidInit => EngineInv
<1> SUFFICES ASSUME AndroidInit PROVE EngineInv
  OBVIOUS
<1> DEFINE idle == [at |-> "none", run |-> Nobody, target |-> Nobody, session |-> Nobody]
<1>1. /\ udp = [t \in UdpTasks |-> idle] /\ nextSessionId = 1
      /\ routes = [r \in Runs |-> << >>] /\ responses = [t \in UdpTasks |-> << >>]
      /\ packetReceiver = [r \in Runs |-> Receiver("idle")]
  BY DEF AndroidInit
<1>2. /\ idle \in UdpTask /\ idle.session = Nobody /\ idle.at = "none"
  BY DEF UdpTask
<1> HIDE DEF idle
<1>3. Assigned = {} /\ Cardinality({}) = 0
  BY <1>1, <1>2, FS_EmptySet DEF Assigned
<1>4. SessionsDistinct
  BY <1>1, <1>2, <1>3 DEF SessionsDistinct
<1>5. << >> \in Seq(Response) /\ DOMAIN << >> = {}
  OBVIOUS
<1>6. RoutesLead /\ ResponsesTrue
  BY <1>1, <1>5 DEF RoutesLead, ResponsesTrue
<1>7. CopiesTrue
  BY <1>1 DEF CopiesTrue, Receiver
<1> QED BY <1>4, <1>6, <1>7 DEF EngineInv

(* Steps that leave tasks, routes and channels alone; a receiver stays as  *)
(* it is or holds no copy.                                                 *)
LEMMA EngineQuiet ==
  ASSUME EngineInv, UNCHANGED <<udp, routes, responses, nextSessionId>>,
         DOMAIN packetReceiver' = Runs,
         \A r \in Runs : packetReceiver'[r].at = "sending" => packetReceiver'[r] = packetReceiver[r]
  PROVE  EngineInv'
<1>1. Assigned' = Assigned
  BY DEF Assigned
<1>2. SessionsDistinct' /\ RoutesLead' /\ ResponsesTrue'
  BY <1>1 DEF EngineInv, SessionsDistinct, RoutesLead, ResponsesTrue
<1>3. CopiesTrue'
  BY DEF EngineInv, CopiesTrue
<1> QED BY <1>2, <1>3 DEF EngineInv

(* The receiver of one run is given up or starts over.                     *)
LEMMA ReceiverReplaced ==
  ASSUME EngineInv, NEW run \in Runs, NEW at, at # "sending",
         packetReceiver' = [packetReceiver EXCEPT ![run] = Receiver(at)],
         UNCHANGED <<udp, routes, responses, nextSessionId>>
  PROVE  EngineInv'
<1>1. DOMAIN packetReceiver = Runs
  BY DEF EngineInv, CopiesTrue
<1>2. Receiver(at).at # "sending"
  BY DEF Receiver
<1>3. \A r \in Runs : packetReceiver'[r] = IF r = run THEN Receiver(at) ELSE packetReceiver[r]
  BY <1>1
<1> QED BY <1>1, <1>2, <1>3, EngineQuiet

(* A task moves on and keeps its session and its target.                   *)
LEMMA TaskMoved ==
  ASSUME EngineInv, NEW t \in UdpTasks, NEW to \in Busy \cup {"none", "done"},
         udp[t].at \notin {"none", "starting"}, to \notin {"none", "starting"},
         udp' = [udp EXCEPT ![t].at = to], UNCHANGED nextSessionId
  PROVE  /\ SessionsDistinct'
         /\ \A u \in UdpTasks : udp'[u].session = udp[u].session /\ udp'[u].target = udp[u].target
<1>0. /\ udp \in [UdpTasks -> UdpTask] /\ nextSessionId \in Nat \ {0}
      /\ Cardinality(Assigned) + 1 = nextSessionId
      /\ \A u \in UdpTasks :
           /\ udp[u].session # Nobody => udp[u].session < nextSessionId
           /\ udp[u].at \in {"none", "starting"} <=> udp[u].session = Nobody
           /\ udp[u].at # "none" => udp[u].run \in Runs
      /\ \A u, v \in UdpTasks :
           u # v /\ udp[u].session # Nobody => udp[u].session # udp[v].session
  BY DEF EngineInv, SessionsDistinct
<1> DEFINE relay == udp[t]
           next == [relay EXCEPT !.at = to]
<1>1. udp' = [udp EXCEPT ![t] = next] /\ relay \in UdpTask
  BY <1>0
<1> HIDE DEF relay
<1>2. /\ next \in UdpTask /\ next.at = to /\ next.run = relay.run
      /\ next.session = relay.session /\ next.target = relay.target
  BY ONLY <1>1, to \in Busy \cup {"none", "done"} DEF UdpTask
<1> HIDE DEF next
<1>3. udp' \in [UdpTasks -> UdpTask] /\ \A u \in UdpTasks : udp'[u] = IF u = t THEN next ELSE udp[u]
  BY <1>0, <1>1, <1>2
<1>4. \A u \in UdpTasks : /\ udp'[u].session = udp[u].session /\ udp'[u].target = udp[u].target
                          /\ udp'[u].run = udp[u].run
                          /\ u # t => udp'[u].at = udp[u].at
  BY <1>2, <1>3 DEF relay
<1>5. udp'[t].at = to
  BY <1>2, <1>3
<1>6. Assigned' = Assigned
  BY <1>4 DEF Assigned
<1>7. \A u \in UdpTasks :
        /\ udp'[u].session # Nobody => udp'[u].session < nextSessionId
        /\ udp'[u].at \in {"none", "starting"} <=> udp'[u].session = Nobody
        /\ udp'[u].at # "none" => udp'[u].run \in Runs
  BY <1>0, <1>4, <1>5
<1>8. \A u, v \in UdpTasks :
        u # v /\ udp'[u].session # Nobody => udp'[u].session # udp'[v].session
  BY <1>0, <1>4
<1> QED BY <1>0, <1>3, <1>4, <1>6, <1>7, <1>8 DEF SessionsDistinct

(* ... and the rest stays as it is.                                        *)
LEMMA TaskMovesKeeps ==
  ASSUME EngineInv, NEW t \in UdpTasks, NEW from, NEW to \in Busy \cup {"none", "done"},
         from \notin {"none", "starting"}, to \notin {"none", "starting"},
         TaskMoves(t, from, to), UNCHANGED responses
  PROVE  EngineInv'
<1>1. /\ udp[t].at = from /\ udp' = [udp EXCEPT ![t].at = to]
      /\ UNCHANGED <<packetReceiver, routes, nextSessionId>>
  BY DEF TaskMoves
<1>2. /\ SessionsDistinct'
      /\ \A u \in UdpTasks : udp'[u].session = udp[u].session /\ udp'[u].target = udp[u].target
  BY <1>1, TaskMoved
<1>3. RoutesLead'
  BY <1>1, <1>2 DEF EngineInv, RoutesLead
<1>4. CopiesTrue'
  BY <1>1, <1>2 DEF EngineInv, CopiesTrue
<1>5. ResponsesTrue'
  BY <1>1, <1>2 DEF EngineInv, ResponsesTrue
<1> QED BY <1>2, <1>3, <1>4, <1>5 DEF EngineInv

(* A task that has no session is named by no route, no copy, no response:  *)
(* it may be given its flow and its session.                               *)
LEMMA TaskStarts ==
  ASSUME EngineInv, NEW t \in UdpTasks, udp[t].session = Nobody,
         NEW next, udp' = [udp EXCEPT ![t] = next], UNCHANGED <<packetReceiver, routes, responses>>
  PROVE  RoutesLead' /\ CopiesTrue' /\ ResponsesTrue'
<1>0. /\ DOMAIN udp = UdpTasks /\ Nobody \notin Nat
      /\ RoutesLead /\ CopiesTrue /\ ResponsesTrue
  BY AndroidAssumption DEF EngineInv, SessionsDistinct
<1>1. \A u \in UdpTasks : u # t => udp'[u] = udp[u]
  BY <1>0
<1>2. RoutesLead'
  <2> SUFFICES ASSUME NEW r \in Runs, NEW s \in DOMAIN routes[r]
               PROVE  s \in Nat /\ routes[r][s] \in UdpTasks /\ udp'[routes[r][s]].session = s
    BY <1>0 DEF RoutesLead
  <2>1. s \in Nat /\ routes[r][s] \in UdpTasks /\ udp[routes[r][s]].session = s
    BY <1>0 DEF RoutesLead
  <2>2. routes[r][s] # t
    BY <1>0, <2>1
  <2> QED BY <1>1, <2>1, <2>2
<1>3. CopiesTrue'
  <2> SUFFICES ASSUME NEW r \in Runs, packetReceiver[r].at = "sending"
               PROVE  LET c == packetReceiver[r]
                      IN /\ c.to \in UdpTasks /\ c.session \in Nat /\ c.source \in TunTargets
                         /\ c.session = udp'[c.to].session /\ c.source = udp'[c.to].target
    BY <1>0 DEF CopiesTrue
  <2> DEFINE c == packetReceiver[r]
  <2>1. /\ c.to \in UdpTasks /\ c.session \in Nat /\ c.source \in TunTargets
        /\ c.session = udp[c.to].session /\ c.source = udp[c.to].target
    BY <1>0 DEF CopiesTrue
  <2>2. c.to # t
    BY <1>0, <2>1
  <2> QED BY <1>1, <2>1, <2>2
<1>4. ResponsesTrue'
  <2>1. responses[t] = << >> /\ DOMAIN << >> = {}
    BY <1>0 DEF ResponsesTrue
  <2>2. \A u \in UdpTasks :
          /\ responses[u] \in Seq(Response)
          /\ udp'[u].session = Nobody => responses[u] = << >>
          /\ \A i \in DOMAIN responses[u] :
               responses[u][i] = [session |-> udp'[u].session, source |-> udp'[u].target]
    BY <1>0, <1>1, <2>1 DEF ResponsesTrue
  <2> QED BY <1>0, <2>2 DEF ResponsesTrue
<1> QED BY <1>2, <1>3, <1>4

(* The accept loop starts a task.                                          *)
LEMMA AcceptUdpKeeps ==
  ASSUME EngineInv, NEW run \in Runs, NEW t \in UdpTasks, AcceptUdp(run, t)
  PROVE  EngineInv'
<1> DEFINE next == [at |-> "starting", run |-> run, target |-> TargetOf[t], session |-> Nobody]
<1>0. SessionsDistinct
  BY DEF EngineInv
<1>1. /\ udp[t].at = "none" /\ udp' = [udp EXCEPT ![t] = next]
      /\ UNCHANGED <<packetReceiver, routes, responses, nextSessionId>>
  BY DEF AcceptUdp
<1>2. udp \in [UdpTasks -> UdpTask] /\ udp[t].session = Nobody
  BY <1>0, <1>1 DEF SessionsDistinct
<1>3. /\ next \in UdpTask /\ next.session = Nobody /\ next.at = "starting" /\ next.run = run
  BY AndroidAssumption DEF UdpTask, Busy
<1> HIDE DEF next
<1>4. RoutesLead' /\ CopiesTrue' /\ ResponsesTrue'
  BY <1>1, <1>2, TaskStarts
<1>5. udp' \in [UdpTasks -> UdpTask] /\ \A u \in UdpTasks : udp'[u] = IF u = t THEN next ELSE udp[u]
  BY <1>1, <1>2, <1>3
<1>6. \A u \in UdpTasks : udp'[u].session = udp[u].session
  BY <1>2, <1>3, <1>5
<1>7. Assigned' = Assigned
  BY <1>6 DEF Assigned
<1>8. SessionsDistinct'
  BY <1>0, <1>1, <1>2, <1>3, <1>5, <1>6, <1>7 DEF SessionsDistinct
<1> QED BY <1>4, <1>8 DEF EngineInv

(* allocate_session finds the very next session free: no route has one     *)
(* that was not handed out.                                                *)
LEMMA AllocateKeeps ==
  ASSUME EngineInv, NEW t \in UdpTasks, AllocateSession(t)
  PROVE  EngineInv'
<1>0. /\ SessionsDistinct /\ RoutesLead /\ Nobody \notin Nat /\ IsFiniteSet(UdpTasks)
  BY AndroidAssumption DEF EngineInv
<1> DEFINE relay == udp[t]
           free == {i \in Sessions : i >= nextSessionId /\ i \notin DOMAIN routes[udp[t].run]}
           id == Min(free)
           next == [relay EXCEPT !.at = "allocated", !.session = id]
<1>1. /\ udp[t].at = "starting" /\ udp' = [udp EXCEPT ![t] = next] /\ nextSessionId' = id + 1
      /\ UNCHANGED <<packetReceiver, routes, responses>>
  BY <1>0 DEF AllocateSession, SessionsDistinct
<1>2. /\ udp \in [UdpTasks -> UdpTask] /\ relay \in UdpTask /\ udp[t].session = Nobody
      /\ udp[t].run \in Runs
      /\ nextSessionId \in Nat \ {0} /\ Cardinality(Assigned) + 1 = nextSessionId
      /\ \A u \in UdpTasks : udp[u].session # Nobody =>
           udp[u].session \in Nat /\ udp[u].session < nextSessionId
  BY <1>0, <1>1 DEF SessionsDistinct, UdpTask
<1>3. /\ Assigned \in SUBSET UdpTasks /\ t \notin Assigned
      /\ IsFiniteSet(Assigned) /\ Cardinality(Assigned) \in Nat /\ Cardinality(UdpTasks) \in Nat
      /\ Cardinality(Assigned) < Cardinality(UdpTasks)
  <2>1. Assigned \in SUBSET UdpTasks /\ t \notin Assigned
    BY <1>2 DEF Assigned
  <2>2. /\ IsFiniteSet(Assigned) /\ Cardinality(Assigned) <= Cardinality(UdpTasks)
        /\ Cardinality(UdpTasks) = Cardinality(Assigned) => UdpTasks = Assigned
    BY <1>0, <2>1, FS_Subset
  <2>3. Cardinality(Assigned) \in Nat /\ Cardinality(UdpTasks) \in Nat
    BY <1>0, <2>2, FS_CardinalityType
  <2> QED BY <2>1, <2>2, <2>3
<1>4. nextSessionId \in Sessions
  BY <1>2, <1>3 DEF Sessions
<1>5. id = nextSessionId
  <2>1. nextSessionId \notin DOMAIN routes[udp[t].run]
    <3> SUFFICES ASSUME nextSessionId \in DOMAIN routes[udp[t].run] PROVE FALSE
      OBVIOUS
    <3>1. PICK u \in UdpTasks : udp[u].session = nextSessionId
      BY <1>0, <1>2 DEF RoutesLead
    <3> QED BY <1>0, <1>2, <3>1
  <2>2. nextSessionId \in free /\ free \in SUBSET Nat /\ \A y \in free : nextSessionId <= y
    BY <1>2, <1>4, <2>1 DEF Sessions
  <2> HIDE DEF free
  <2> QED BY <2>2, MinIs
<1> HIDE DEF id, relay
<1>6. /\ next \in UdpTask /\ next.at = "allocated" /\ next.session = nextSessionId
      /\ next.run = relay.run
  BY ONLY <1>2, <1>5, "allocated" \in Busy DEF UdpTask, Busy
<1> HIDE DEF next
<1>7. RoutesLead' /\ CopiesTrue' /\ ResponsesTrue'
  BY <1>1, <1>2, TaskStarts
<1>8. udp' \in [UdpTasks -> UdpTask] /\ \A u \in UdpTasks : udp'[u] = IF u = t THEN next ELSE udp[u]
  BY <1>1, <1>2, <1>6
<1>9. /\ nextSessionId' = nextSessionId + 1 /\ nextSessionId' \in Nat \ {0}
  BY <1>1, <1>2, <1>5
<1>10. Assigned' = Assigned \cup {t}
  <2>1. nextSessionId # Nobody
    BY <1>0, <1>2
  <2> QED BY <1>6, <1>8, <2>1 DEF Assigned
<1>11. Cardinality(Assigned') + 1 = nextSessionId'
  <2>1. Cardinality(Assigned \cup {t}) = Cardinality(Assigned) + 1
    BY <1>3, FS_AddElement
  <2>2. Cardinality(Assigned') = Cardinality(Assigned) + 1
    BY <1>10, <2>1
  <2> QED BY <1>2, <1>9, <2>2
<1>12. \A u \in UdpTasks :
         /\ udp'[u].session # Nobody => udp'[u].session < nextSessionId'
         /\ udp'[u].at \in {"none", "starting"} <=> udp'[u].session = Nobody
         /\ udp'[u].at # "none" => udp'[u].run \in Runs
  <2> SUFFICES ASSUME NEW u \in UdpTasks
               PROVE  /\ udp'[u].session # Nobody => udp'[u].session < nextSessionId'
                      /\ udp'[u].at \in {"none", "starting"} <=> udp'[u].session = Nobody
                      /\ udp'[u].at # "none" => udp'[u].run \in Runs
    OBVIOUS
  <2>1. CASE u = t
    <3>1. nextSessionId # Nobody /\ nextSessionId < nextSessionId + 1
      BY <1>0, <1>2
    <3> QED BY <1>2, <1>6, <1>8, <1>9, <2>1, <3>1 DEF relay
  <2>2. CASE u # t
    <3>1. udp'[u] = udp[u]
      BY <1>8, <2>2
    <3>2. udp[u].session # Nobody => udp[u].session < nextSessionId + 1
      BY <1>2
    <3> QED BY <1>0, <1>9, <3>1, <3>2 DEF SessionsDistinct
  <2> QED BY <2>1, <2>2
<1>13. \A u, v \in UdpTasks :
         u # v /\ udp'[u].session # Nobody => udp'[u].session # udp'[v].session
  <2>1. \A u \in UdpTasks : udp[u].session # nextSessionId
    BY <1>0, <1>2
  <2>2. udp'[t].session = nextSessionId
    BY <1>6, <1>8
  <2>3. \A u \in UdpTasks : u # t => udp'[u].session = udp[u].session
    BY <1>8
  <2> QED BY <1>0, <2>1, <2>2, <2>3 DEF SessionsDistinct
<1>14. SessionsDistinct'
  BY <1>8, <1>9, <1>11, <1>12, <1>13 DEF SessionsDistinct
<1> QED BY <1>7, <1>14 DEF EngineInv

(* The route of a session that its task has.                               *)
LEMMA InsertKeeps ==
  ASSUME EngineInv, NEW t \in UdpTasks, InsertRoute(t)
  PROVE  EngineInv'
<1>0. /\ SessionsDistinct /\ RoutesLead /\ CopiesTrue /\ ResponsesTrue /\ Nobody \notin Nat
  BY AndroidAssumption DEF EngineInv
<1> DEFINE run == udp[t].run
           session == udp[t].session
           table == [s \in DOMAIN routes[run] \cup {session} |->
                       IF s = session THEN t ELSE routes[run][s]]
<1>1. /\ udp[t].at = "allocated" /\ udp' = [udp EXCEPT ![t].at = "serving"]
      /\ routes' = [routes EXCEPT ![run] = table]
      /\ UNCHANGED <<packetReceiver, responses, nextSessionId>>
  BY DEF InsertRoute
<1>2. run \in Runs /\ session \in Nat
  BY <1>0, <1>1 DEF SessionsDistinct, UdpTask
<1>3. /\ SessionsDistinct'
      /\ \A u \in UdpTasks : udp'[u].session = udp[u].session /\ udp'[u].target = udp[u].target
  <2>1. /\ "serving" \in Busy \cup {"none", "done"} /\ "serving" \notin {"none", "starting"}
        /\ udp[t].at \notin {"none", "starting"}
    BY <1>1 DEF Busy
  <2> QED BY <1>1, <2>1, TaskMoved
<1>4. RoutesLead'
  <2>1. /\ DOMAIN table = DOMAIN routes[run] \cup {session}
        /\ \A s \in DOMAIN table : table[s] = IF s = session THEN t ELSE routes[run][s]
    OBVIOUS
  <2>2. \A s \in DOMAIN table : s \in Nat /\ table[s] \in UdpTasks /\ udp[table[s]].session = s
    <3> HIDE DEF table, run
    <3> SUFFICES ASSUME NEW s \in DOMAIN table
                 PROVE  s \in Nat /\ table[s] \in UdpTasks /\ udp[table[s]].session = s
      OBVIOUS
    <3>1. CASE s = session
      BY <1>2, <2>1, <3>1
    <3>2. CASE s # session
      BY <1>0, <1>2, <2>1, <3>2 DEF RoutesLead
    <3> QED BY <3>1, <3>2
  <2> HIDE DEF table, run, session
  <2>3. DOMAIN routes' = Runs /\ \A r \in Runs : routes'[r] = IF r = run THEN table ELSE routes[r]
    BY <1>0, <1>1 DEF RoutesLead
  <2>4. ASSUME NEW r \in Runs, NEW s \in DOMAIN routes'[r]
        PROVE  s \in Nat /\ routes'[r][s] \in UdpTasks /\ udp'[routes'[r][s]].session = s
    <3>1. CASE r = run
      <4>1. routes'[r] = table
        BY <2>3, <3>1
      <4> QED BY <1>3, <2>2, <2>4, <4>1
    <3>2. CASE r # run
      <4>1. routes'[r] = routes[r]
        BY <2>3, <3>2
      <4> QED BY <1>0, <1>3, <2>4, <4>1 DEF RoutesLead
    <3> QED BY <3>1, <3>2
  <2> QED BY <2>3, <2>4 DEF RoutesLead
<1>5. CopiesTrue' /\ ResponsesTrue'
  BY <1>0, <1>1, <1>3 DEF CopiesTrue, ResponsesTrue
<1> QED BY <1>3, <1>4, <1>5 DEF EngineInv

(* Routes go, one by one or all of a run's.                                *)
LEMMA RoutesShrink ==
  ASSUME RoutesLead, DOMAIN routes' = Runs,
         \A r \in Runs : /\ DOMAIN routes'[r] \subseteq DOMAIN routes[r]
                         /\ \A s \in DOMAIN routes'[r] : routes'[r][s] = routes[r][s],
         \A u \in UdpTasks : udp'[u].session = udp[u].session
  PROVE  RoutesLead'
BY DEF RoutesLead

(* A stop clears the routes of its run.                                    *)
LEMMA ClearKeeps ==
  ASSUME EngineInv, NEW run \in Runs, ClearRoutes(run)
  PROVE  EngineInv'
<1>0. /\ SessionsDistinct /\ RoutesLead /\ CopiesTrue /\ ResponsesTrue
  BY DEF EngineInv
<1>1. /\ routes' = [routes EXCEPT ![run] = << >>]
      /\ UNCHANGED <<packetReceiver, udp, responses, nextSessionId>>
  BY DEF ClearRoutes
<1>2. DOMAIN << >> = {}
  OBVIOUS
<1>3. RoutesLead'
  <2>1. DOMAIN routes' = Runs /\ \A r \in Runs : routes'[r] = IF r = run THEN << >> ELSE routes[r]
    BY <1>0, <1>1 DEF RoutesLead
  <2> QED BY <1>0, <1>1, <1>2, <2>1, RoutesShrink
<1>4. Assigned' = Assigned
  BY <1>1 DEF Assigned
<1>5. SessionsDistinct' /\ CopiesTrue' /\ ResponsesTrue'
  BY <1>0, <1>1, <1>4 DEF SessionsDistinct, CopiesTrue, ResponsesTrue
<1> QED BY <1>3, <1>5 DEF EngineInv

(* A channel loses its oldest response, or all.                            *)
LEMMA ResponsesShrink ==
  ASSUME EngineInv, NEW t \in UdpTasks, udp[t].session # Nobody, NEW rest,
         rest = << >> \/ (responses[t] # << >> /\ rest = Tail(responses[t])),
         responses' = [responses EXCEPT ![t] = rest],
         \A u \in UdpTasks : udp'[u].session = udp[u].session /\ udp'[u].target = udp[u].target
  PROVE  ResponsesTrue'
<1>0. ResponsesTrue
  BY DEF EngineInv
<1>1. DOMAIN responses' = UdpTasks /\ \A u \in UdpTasks : responses'[u] = IF u = t THEN rest ELSE responses[u]
  BY <1>0 DEF ResponsesTrue
<1>2. PICK q \in Seq(Response) : q = responses[t]
  BY <1>0 DEF ResponsesTrue
<1>3. \A i \in 1 .. Len(q) : q[i] = [session |-> udp[t].session, source |-> udp[t].target]
  BY <1>0, <1>2 DEF ResponsesTrue
<1>4. /\ rest \in Seq(Response)
      /\ \A i \in DOMAIN rest : rest[i] = [session |-> udp[t].session, source |-> udp[t].target]
  <2>1. CASE rest = << >>
    <3>1. << >> \in Seq(Response) /\ DOMAIN << >> = {}
      OBVIOUS
    <3> QED BY ONLY <2>1, <3>1
  <2>2. CASE q # << >> /\ rest = Tail(q)
    <3>1. /\ rest \in Seq(Response) /\ DOMAIN rest = 1 .. (Len(q) - 1)
          /\ \A i \in 1 .. (Len(q) - 1) : rest[i] = q[i + 1] /\ i + 1 \in 1 .. Len(q)
      BY ONLY <2>2, q \in Seq(Response)
    <3> QED BY <1>3, <3>1
  <2> QED BY <1>2, <2>1, <2>2
<1>5. \A u \in UdpTasks :
        /\ responses'[u] \in Seq(Response)
        /\ udp'[u].session = Nobody => responses'[u] = << >>
        /\ \A i \in DOMAIN responses'[u] :
             responses'[u][i] = [session |-> udp'[u].session, source |-> udp'[u].target]
  <2> SUFFICES ASSUME NEW u \in UdpTasks
               PROVE  /\ responses'[u] \in Seq(Response)
                      /\ udp'[u].session = Nobody => responses'[u] = << >>
                      /\ \A i \in DOMAIN responses'[u] :
                           responses'[u][i] = [session |-> udp'[u].session, source |-> udp'[u].target]
    OBVIOUS
  <2>1. CASE u = t
    <3>1. responses'[u] = rest
      BY <1>1, <2>1
    <3> QED BY <1>4, <2>1, <3>1
  <2>2. CASE u # t
    <3>1. responses'[u] = responses[u]
      BY <1>1, <2>2
    <3> QED BY <1>0, <3>1 DEF ResponsesTrue
  <2> QED BY <2>1, <2>2
<1> QED BY <1>1, <1>5 DEF ResponsesTrue

(* A relay takes a response to write it.                                   *)
LEMMA TakesKeeps ==
  ASSUME EngineInv, NEW t \in UdpTasks, TakesResponse(t)
  PROVE  EngineInv'
<1>0. /\ SessionsDistinct /\ RoutesLead /\ CopiesTrue
  BY DEF EngineInv
<1>1. /\ udp[t].at = "serving" /\ udp' = [udp EXCEPT ![t].at = "writing"]
      /\ responses[t] # << >> /\ responses' = [responses EXCEPT ![t] = Tail(responses[t])]
      /\ UNCHANGED <<packetReceiver, routes, nextSessionId>>
  BY DEF TakesResponse, TaskMoves
<1>2. /\ SessionsDistinct'
      /\ \A u \in UdpTasks : udp'[u].session = udp[u].session /\ udp'[u].target = udp[u].target
  <2>1. /\ "writing" \in Busy \cup {"none", "done"} /\ "writing" \notin {"none", "starting"}
        /\ udp[t].at \notin {"none", "starting"}
    BY <1>1 DEF Busy
  <2> QED BY <1>1, <2>1, TaskMoved
<1>3. udp[t].session # Nobody
  BY <1>0, <1>1 DEF SessionsDistinct
<1>4. ResponsesTrue'
  BY <1>1, <1>2, <1>3, ResponsesShrink
<1>5. RoutesLead' /\ CopiesTrue'
  BY <1>0, <1>1, <1>2 DEF RoutesLead, CopiesTrue
<1> QED BY <1>2, <1>4, <1>5 DEF EngineInv

(* A relay ends and takes its route with it.                               *)
LEMMA RemoveKeeps ==
  ASSUME EngineInv, NEW t \in UdpTasks, RemoveRoute(t)
  PROVE  EngineInv'
<1>0. /\ SessionsDistinct /\ RoutesLead /\ CopiesTrue
  BY DEF EngineInv
<1> DEFINE run == udp[t].run
           ids == DOMAIN routes[run] \ {udp[t].session}
           table == Restrict(routes[run], ids)
<1>1. /\ udp[t].at = "removing" /\ udp' = [udp EXCEPT ![t].at = "done"]
      /\ routes' = [routes EXCEPT ![run] = table]
      /\ responses' = [responses EXCEPT ![t] = << >>]
      /\ UNCHANGED <<packetReceiver, nextSessionId>>
  BY DEF RemoveRoute
<1>2. run \in Runs /\ udp[t].session # Nobody
  BY <1>0, <1>1 DEF SessionsDistinct
<1>3. /\ SessionsDistinct'
      /\ \A u \in UdpTasks : udp'[u].session = udp[u].session /\ udp'[u].target = udp[u].target
  <2>1. /\ "done" \in Busy \cup {"none", "done"} /\ "done" \notin {"none", "starting"}
        /\ udp[t].at \notin {"none", "starting"}
    BY <1>1 DEF Busy
  <2> QED BY <1>1, <2>1, TaskMoved
<1>4. /\ ids \subseteq DOMAIN routes[run] /\ DOMAIN table = ids
      /\ \A s \in ids : table[s] = routes[run][s]
  BY DEF Restrict
<1> HIDE DEF run, ids, table
<1>5. RoutesLead'
  <2>1. DOMAIN routes' = Runs /\ \A r \in Runs : routes'[r] = IF r = run THEN table ELSE routes[r]
    BY <1>0, <1>1 DEF RoutesLead
  <2>2. \A r \in Runs : /\ DOMAIN routes'[r] \subseteq DOMAIN routes[r]
                        /\ \A s \in DOMAIN routes'[r] : routes'[r][s] = routes[r][s]
    BY <1>4, <2>1
  <2> QED BY <1>0, <1>3, <2>1, <2>2, RoutesShrink
<1>6. ResponsesTrue'
  BY <1>1, <1>2, <1>3, ResponsesShrink
<1>7. CopiesTrue'
  BY <1>0, <1>1, <1>3 DEF CopiesTrue
<1> QED BY <1>3, <1>5, <1>6, <1>7 DEF EngineInv

(* The receiver copies a route.                                            *)
LEMMA ArrivesKeeps ==
  ASSUME EngineInv, NEW run \in Runs, NEW session \in Sessions, NEW source \in TunTargets,
         ResponseArrives(run, session, source)
  PROVE  EngineInv'
<1>0. /\ SessionsDistinct /\ RoutesLead /\ CopiesTrue /\ ResponsesTrue
  BY DEF EngineInv
<1> DEFINE copy == [at |-> "sending", to |-> routes[run][session], session |-> session,
                    source |-> source]
<1>1. /\ session \in DOMAIN routes[run] /\ udp[routes[run][session]].target = source
      /\ packetReceiver' = [packetReceiver EXCEPT ![run] = copy]
      /\ UNCHANGED <<routes, udp, responses, nextSessionId>>
  BY DEF ResponseArrives, Routed
<1>2. /\ copy.to \in UdpTasks /\ copy.session \in Nat /\ copy.source \in TunTargets
      /\ copy.session = udp[copy.to].session /\ copy.source = udp[copy.to].target
  BY <1>0, <1>1 DEF RoutesLead
<1> HIDE DEF copy
<1>3. /\ DOMAIN packetReceiver' = Runs
      /\ \A r \in Runs : packetReceiver'[r] = IF r = run THEN copy ELSE packetReceiver[r]
  BY <1>0, <1>1 DEF CopiesTrue
<1>4. CopiesTrue'
  BY <1>0, <1>1, <1>2, <1>3 DEF CopiesTrue
<1>5. Assigned' = Assigned
  BY <1>1 DEF Assigned
<1>6. SessionsDistinct' /\ RoutesLead' /\ ResponsesTrue'
  BY <1>0, <1>1, <1>5 DEF SessionsDistinct, RoutesLead, ResponsesTrue
<1> QED BY <1>4, <1>6 DEF EngineInv

(* The receiver sends what it copied to the task.                          *)
LEMMA SentKeeps ==
  ASSUME EngineInv, NEW run \in Runs, ResponseSent(run)
  PROVE  EngineInv'
<1>0. /\ SessionsDistinct /\ RoutesLead /\ CopiesTrue /\ ResponsesTrue /\ Nobody \notin Nat
  BY AndroidAssumption DEF EngineInv
<1> DEFINE c == packetReceiver[run]
           response == [session |-> c.session, source |-> c.source]
<1>1. /\ c.at = "sending" /\ packetReceiver' = [packetReceiver EXCEPT ![run] = Receiver("waiting")]
      /\ UNCHANGED <<routes, udp, nextSessionId>>
      /\ \/ UNCHANGED responses
         \/ responses' = [responses EXCEPT ![c.to] = Append(responses[c.to], response)]
  BY DEF ResponseSent
<1>2. /\ c.to \in UdpTasks /\ c.session \in Nat /\ c.source \in TunTargets
      /\ c.session = udp[c.to].session /\ c.source = udp[c.to].target
  BY <1>0, <1>1 DEF CopiesTrue
<1>3. /\ response \in Response /\ udp[c.to].session # Nobody
      /\ response = [session |-> udp[c.to].session, source |-> udp[c.to].target]
  BY <1>0, <1>2 DEF Response
<1> HIDE DEF c, response
<1>4. /\ DOMAIN packetReceiver' = Runs
      /\ \A r \in Runs : packetReceiver'[r] = IF r = run THEN Receiver("waiting") ELSE packetReceiver[r]
  BY <1>0, <1>1 DEF CopiesTrue
<1>5. CopiesTrue'
  <2>1. Receiver("waiting").at # "sending"
    BY DEF Receiver
  <2> QED BY <1>0, <1>1, <1>4, <2>1 DEF CopiesTrue
<1>6. Assigned' = Assigned
  BY <1>1 DEF Assigned
<1>7. SessionsDistinct' /\ RoutesLead'
  BY <1>0, <1>1, <1>6 DEF SessionsDistinct, RoutesLead
<1>8. ResponsesTrue'
  <2>1. CASE UNCHANGED responses
    BY <1>0, <1>1, <2>1 DEF ResponsesTrue
  <2>2. CASE responses' = [responses EXCEPT ![c.to] = Append(responses[c.to], response)]
    <3>1. PICK t \in UdpTasks : t = c.to
      BY <1>2
    <3>2. PICK q \in Seq(Response) : q = responses[t]
      BY <1>0 DEF ResponsesTrue
    <3>3. \A i \in 1 .. Len(q) : q[i] = response
      BY <1>0, <1>3, <3>1, <3>2 DEF ResponsesTrue
    <3>4. /\ Append(q, response) \in Seq(Response)
          /\ \A i \in DOMAIN Append(q, response) : Append(q, response)[i] = response
      <4>1. response \in Response
        BY <1>3
      <4> QED BY ONLY <3>3, <4>1, q \in Seq(Response)
    <3>5. /\ DOMAIN responses' = UdpTasks
          /\ \A u \in UdpTasks : responses'[u] = IF u = t THEN Append(q, response) ELSE responses[u]
      BY <1>0, <2>2, <3>1, <3>2 DEF ResponsesTrue
    <3>6. \A u \in UdpTasks :
            /\ responses'[u] \in Seq(Response)
            /\ udp[u].session = Nobody => responses'[u] = << >>
            /\ \A i \in DOMAIN responses'[u] :
                 responses'[u][i] = [session |-> udp[u].session, source |-> udp[u].target]
      <4> SUFFICES ASSUME NEW u \in UdpTasks
                   PROVE  /\ responses'[u] \in Seq(Response)
                          /\ udp[u].session = Nobody => responses'[u] = << >>
                          /\ \A i \in DOMAIN responses'[u] :
                               responses'[u][i] = [session |-> udp[u].session, source |-> udp[u].target]
        OBVIOUS
      <4>1. CASE u = t
        <5>1. responses'[u] = Append(q, response)
          BY <3>5, <4>1
        <5> QED BY <1>3, <3>1, <3>4, <4>1, <5>1
      <4>2. CASE u # t
        <5>1. responses'[u] = responses[u]
          BY <3>5, <4>2
        <5> QED BY <1>0, <5>1 DEF ResponsesTrue
      <4> QED BY <4>1, <4>2
    <3> QED BY <1>1, <3>5, <3>6 DEF ResponsesTrue
  <2> QED BY <1>1, <2>1, <2>2
<1> QED BY <1>5, <1>7, <1>8 DEF EngineInv

(* Every step of the engine, its receivers and its relays.                 *)
LEMMA EngineStep == EngineInv /\ [AndroidNext]_androidVars => EngineInv'
<1> SUFFICES ASSUME EngineInv, [AndroidNext]_androidVars PROVE EngineInv'
  OBVIOUS
<1>0. DOMAIN packetReceiver = Runs
  BY DEF EngineInv, CopiesTrue
<1>1. ASSUME UNCHANGED <<packetReceiver, udp, routes, responses, nextSessionId>> PROVE EngineInv'
  BY <1>0, <1>1, EngineQuiet
<1>2. CASE EngineNext
  <2>1. ASSUME NEW r \in Runs, RunBegins(r) PROVE EngineInv'
    <3>1. PICK at \in {"waiting", "ended"} :
            packetReceiver' = [packetReceiver EXCEPT ![r] = Receiver(at)]
      BY <2>1 DEF RunBegins
    <3>2. UNCHANGED <<udp, routes, responses, nextSessionId>>
      BY <2>1 DEF RunBegins
    <3> QED BY <3>1, <3>2, ReceiverReplaced
  <2>2. ASSUME NEW r \in Runs, AcceptFails(r) \/ AcceptStops(r) \/ ReceiverFails(r) \/ ReceiverEnds(r) PROVE EngineInv'
    <3>1. /\ packetReceiver' = [packetReceiver EXCEPT ![r] = Receiver("ended")]
          /\ UNCHANGED <<udp, routes, responses, nextSessionId>>
      BY <2>2 DEF AcceptFails, AcceptStops, ReceiverFails, ReceiverEnds
    <3> QED BY <3>1, ReceiverReplaced
  <2>3. ASSUME NEW r \in Runs, RunRefused(r) \/ RunReturns(r) PROVE EngineInv'
    BY <1>1, <2>3 DEF RunRefused, RunReturns
  <2>4. CASE Stop \/ RuntimeChanges
    BY <1>1, <2>4 DEF Stop, RuntimeChanges
  <2>5. ASSUME NEW r \in Runs, ClearRoutes(r) PROVE EngineInv'
    BY <2>5, ClearKeeps
  <2> QED BY <1>2, <2>1, <2>2, <2>3, <2>4, <2>5 DEF EngineNext
<1>3. CASE UdpRelayNext
  <2>1. ASSUME NEW t \in UdpTasks, TunReads(t) \/ TunEnds(t) \/ Sent(t) \/ ChannelCloses(t)
                 \/ Written(t) \/ SeesShutdown(t)
        PROVE  EngineInv'
    <3>1. \E from \in {"serving", "sending", "writing"}, to \in {"serving", "sending", "removing"} :
            TaskMoves(t, from, to)
      BY <2>1 DEF TunReads, TunEnds, Sent, ChannelCloses, Written, SeesShutdown
    <3>2. UNCHANGED responses
      BY <2>1 DEF TunReads, TunEnds, Sent, ChannelCloses, Written, SeesShutdown
    <3>3. PICK from \in {"serving", "sending", "writing"}, to \in {"serving", "sending", "removing"} :
            TaskMoves(t, from, to)
      BY <3>1
    <3> QED BY <3>2, <3>3, TaskMovesKeeps DEF Busy
  <2>2. ASSUME NEW t \in UdpTasks,
               AllocateSession(t) \/ InsertRoute(t) \/ TakesResponse(t) \/ RemoveRoute(t)
        PROVE  EngineInv'
    BY <2>2, AllocateKeeps, InsertKeeps, TakesKeeps, RemoveKeeps
  <2>3. ASSUME NEW r \in Runs, NEW t \in UdpTasks, AcceptUdp(r, t) PROVE EngineInv'
    BY <2>3, AcceptUdpKeeps
  <2>4. ASSUME NEW r \in Runs, NEW s \in Sessions, NEW a \in TunTargets, ResponseArrives(r, s, a)
        PROVE  EngineInv'
    BY <2>4, ArrivesKeeps
  <2>5. ASSUME NEW r \in Runs, ResponseSent(r) PROVE EngineInv'
    BY <2>5, SentKeeps
  <2> QED BY <1>3, <2>1, <2>2, <2>3, <2>4, <2>5 DEF UdpRelayNext
<1>4. CASE TcpRelayNext
  BY <1>1, <1>4 DEF TcpRelayNext, AcceptTcp, TcpOpened, TcpEnds, TcpStops, TcpMoves
<1>5. CASE UNCHANGED androidVars
  BY <1>1, <1>5 DEF androidVars
<1> QED BY <1>2, <1>3, <1>4, <1>5 DEF AndroidNext

(* For every number of runs and tasks and every size of the channels: a datagram is
   only ever queued for the flow that its session belongs to and whose target it
   claims to come from, although the route was copied before the lock was released,
   and no two flows of the process share a session. *)
THEOREM DatagramsAlwaysReachTheirFlow == AndroidSpec => []DatagramsReachTheirFlow
<1>1. EngineInv => DatagramsReachTheirFlow
  BY DEF EngineInv, SessionsDistinct, ResponsesTrue, DatagramsReachTheirFlow
<1> QED BY <1>1, EngineInitial, EngineStep, PTL DEF AndroidSpec
=============================================================================
