------------------------ MODULE ClientControlProofs -------------------------
(***************************************************************************)
(* Proofs about module ClientControl.  Calls check the table, the phase or *)
(* `destroyed` in one critical section and act in another, so HandlesSound *)
(* is not inductive: ControlInv says what a thread that is between the two *)
(* may rely on, because it holds the command mutex of its entry.           *)
(***************************************************************************)
EXTENDS ClientControl, TLAPS

(* Where a thread holds the command mutex of its entry. *)
Inside == Commands \cup {"destroy", "stopping", "joining", "inserting"}

(* A call keeps its operation and a handle that was handed out. *)
CallShape ==
  \A t \in Threads :
    /\ thread[t].at # "idle" => thread[t].handle \in 1 .. next_handle
    /\ thread[t].at = "waiting" => thread[t].op \in Commands \cup {"destroy"}
    /\ thread[t].at \in Commands \cup {"destroy"} => thread[t].op = thread[t].at
    /\ thread[t].at \in {"stopping", "joining"} => thread[t].op \in {"stop", "destroy"}
    /\ thread[t].at \in {"opening", "opened", "publishing", "inserting"} => thread[t].op = "open"
    /\ thread[t].at \in {"queued", "transfer"} => thread[t].op \in Transfers

CommandMutex ==
  \A h \in Handles, t \in Threads :
    command[h].holder = t <=> thread[t].at \in Inside /\ thread[t].handle = h

(* Generations left for the stop of a runtime that is not stopped. *)
RoomToStop ==
  \A h \in Handles : runtime[h].phase \in {"Connecting", "Online", "Failed"}
                       => runtime[h].generation < MaxGeneration

(* Stopping lasts as long as the thread that stops is inside runtime.stop. *)
StoppingHeld ==
  /\ \A h \in Handles : runtime[h].phase = "Stopping" =>
       \E t \in Threads : thread[t].at = "joining" /\ thread[t].handle = h
  /\ \A t \in Threads : thread[t].at = "joining" =>
       runtime[thread[t].handle].phase \in {"Stopping", "Stopped"}

(* What publish_stream_handle saw under the mutex still holds when it      *)
(* inserts, but for the connection's own end.                              *)
InsertingOnline ==
  \A t \in Threads : thread[t].at = "inserting" =>
    runtime[thread[t].handle].phase \in {"Online", "Failed"}

(* No stream of the runtime is left, and none comes, while it is stopped.  *)
StreamsGone ==
  \A t \in Threads : thread[t].at \in {"stopping", "joining"} =>
    \A k \in streams : stream[k].client # thread[t].handle

(* destroy works on an entry that is out of the table, and any other       *)
(* command on one that is not destroyed.                                   *)
Destroying ==
  \A t \in Threads :
    /\ thread[t].at # "idle" /\ thread[t].op = "destroy" => thread[t].handle \notin clients
    /\ thread[t].at \in Inside /\ thread[t].op # "destroy" =>
         ~command[thread[t].handle].destroyed

Destroyed ==
  \A h \in Handles : command[h].destroyed =>
    /\ h \in 1 .. next_handle
    /\ h \notin clients
    /\ h \notin proxy
    /\ command[h].holder = None => runtime[h].phase = "Stopped"

ControlInv ==
  /\ TypeOK /\ CallShape /\ CommandMutex /\ RoomToStop /\ StoppingHeld
  /\ InsertingOnline /\ StreamsGone /\ Destroying /\ Destroyed
  /\ NoStreamOutlivesItsRuntime

-----------------------------------------------------------------------------
(* The types of the entries and of the threads. *)
Places == {"idle", "opening", "waiting", "opened", "publishing", "inserting", "stopping",
           "joining", "queued", "transfer", "destroy"} \cup Commands
Operations == Commands \cup Transfers \cup {"open", "destroy", None}
ThreadType == [at: Places, op: Operations, handle: 0 .. MaxHandle, generation: Generations]
StreamType == [client: 0 .. MaxHandle, generation: Generations, cancelled: BOOLEAN,
               send: Threads \cup {None}, receive: Threads \cup {None}]
RuntimeType == [phase: {"Stopped", "Connecting", "Online", "Stopping", "Failed"},
                generation: Generations]
CommandType == [holder: Threads \cup {None}, destroyed: BOOLEAN]

(* The bounds, for the arithmetic on handles and generations. *)
LEMMA Bounds ==
  /\ MaxHandle \in Nat /\ MaxGeneration \in Nat /\ MaxGeneration > 1 /\ None \notin Threads
  /\ \A h : h \in Handles <=> h \in Nat /\ 1 <= h /\ h <= MaxHandle
  /\ \A g : g \in Generations <=> g \in Nat /\ g <= MaxGeneration
BY ControlAssumption DEF Handles, Generations

(* TypeOK by components. *)
LEMMA TypeParts ==
  TypeOK <=> /\ next_handle \in 0 .. MaxHandle
             /\ clients \subseteq 1 .. next_handle
             /\ streams \subseteq 1 .. next_handle
             /\ clients \cap streams = {}
             /\ runtime \in [Handles -> RuntimeType]
             /\ command \in [Handles -> CommandType]
             /\ proxy \subseteq Handles
             /\ stream \in [Handles -> StreamType]
             /\ thread \in [Threads -> ThreadType]
BY DEF TypeOK, RuntimeType, CommandType, StreamType, ThreadType, Places, Operations

(* The same, put together again after a step.                              *)
LEMMA TypePartsNext ==
  ASSUME next_handle' \in 0 .. MaxHandle,
         clients' \subseteq 1 .. next_handle',
         streams' \subseteq 1 .. next_handle',
         clients' \cap streams' = {},
         runtime' \in [Handles -> RuntimeType],
         command' \in [Handles -> CommandType],
         proxy' \subseteq Handles,
         stream' \in [Handles -> StreamType],
         thread' \in [Threads -> ThreadType]
  PROVE  TypeOK'
BY DEF TypeOK, RuntimeType, CommandType, StreamType, ThreadType, Places, Operations

(* A thread moves on within its call. *)
LEMMA Moves ==
  ASSUME thread \in [Threads -> ThreadType], NEW t \in Threads, NEW a \in Places, Goto(t, a)
  PROVE  /\ thread' \in [Threads -> ThreadType]
         /\ thread'[t].at = a /\ thread'[t].op = thread[t].op
         /\ thread'[t].handle = thread[t].handle
         /\ thread'[t].generation = thread[t].generation
         /\ \A u \in Threads : u # t => thread'[u] = thread[u]
BY DEF Goto, ThreadType

(* A call returns. *)
LEMMA Ends ==
  ASSUME thread \in [Threads -> ThreadType], NEW t \in Threads, Returns(t)
  PROVE  /\ thread' \in [Threads -> ThreadType]
         /\ thread'[t].at = "idle"
         /\ \A u \in Threads : u # t => thread'[u] = thread[u]
BY Bounds DEF Returns, ThreadType, Idle, Places, Operations

(* A call is made. *)
LEMMA Begins ==
  ASSUME thread \in [Threads -> ThreadType], NEW t \in Threads, NEW op \in Operations,
         NEW h \in Handles, NEW a \in Places, Enters(t, op, h, a)
  PROVE  /\ thread' \in [Threads -> ThreadType]
         /\ thread'[t].at = a /\ thread'[t].op = op /\ thread'[t].handle = h
         /\ \A u \in Threads : u # t => thread'[u] = thread[u]
<1>1. thread' = [thread EXCEPT ![t] = [at |-> a, op |-> op, handle |-> h, generation |-> 0]]
  BY DEF Enters
<1>2. [at |-> a, op |-> op, handle |-> h, generation |-> 0] \in ThreadType
  BY Bounds DEF ThreadType
<1> QED BY <1>1, <1>2

(* The command mutex of an entry is taken or left. *)
LEMMA Locks ==
  ASSUME command \in [Handles -> CommandType], NEW t \in Threads, NEW h \in Handles,
         Acquires(t, h)
  PROVE  /\ command' \in [Handles -> CommandType]
         /\ command'[h].holder = t
         /\ \A j \in Handles : command'[j].destroyed = command[j].destroyed
         /\ \A j \in Handles : j # h => command'[j] = command[j]
BY DEF Acquires, CommandType

(* A command mutex is given back.                                          *)
LEMMA Unlocks ==
  ASSUME command \in [Handles -> CommandType], NEW h \in Handles, Releases(h)
  PROVE  /\ command' \in [Handles -> CommandType]
         /\ command'[h].holder = None
         /\ \A j \in Handles : command'[j].destroyed = command[j].destroyed
         /\ \A j \in Handles : j # h => command'[j] = command[j]
BY DEF Releases, CommandType

(* invalidate_streams takes out the streams of one client and no other.    *)
LEMMA Invalidates ==
  ASSUME stream \in [Handles -> StreamType], NEW h \in Handles, InvalidateStreams(h),
         streams \subseteq Handles
  PROVE  /\ stream' \in [Handles -> StreamType]
         /\ streams' = {k \in streams : stream[k].client # h}
         /\ \A k \in streams' : stream'[k] = stream[k]
<1>1. ASSUME NEW k \in Handles PROVE [stream[k] EXCEPT !.cancelled = TRUE] \in StreamType
  <2>1. stream[k] \in StreamType OBVIOUS
  <2> QED BY ONLY <2>1 DEF StreamType
<1>2. stream' \in [Handles -> StreamType] BY <1>1 DEF InvalidateStreams
<1>3. streams' = {k \in streams : stream[k].client # h} BY DEF InvalidateStreams
<1>4. \A k \in streams' : stream'[k] = stream[k] BY <1>3 DEF InvalidateStreams
<1> QED BY <1>2, <1>3, <1>4

(* A half of a stream is locked or released: nothing else of it changes.   *)
LEMMA HalfChanges ==
  ASSUME stream \in [Handles -> StreamType], NEW k \in Handles, NEW op,
         NEW v \in Threads \cup {None},
         stream' = [stream EXCEPT ![k][Half(op)] = v]
  PROVE  /\ stream' \in [Handles -> StreamType]
         /\ \A j \in Handles : /\ stream'[j].client = stream[j].client
                               /\ stream'[j].cancelled = stream[j].cancelled
<1>1. CASE Half(op) = "send"
  BY <1>1 DEF StreamType
<1>2. CASE Half(op) = "receive"
  BY <1>2 DEF StreamType
<1> QED BY <1>1, <1>2 DEF Half

-----------------------------------------------------------------------------
(* What the steps of a call start from. *)
LEMMA Facts ==
  ASSUME ControlInv
  PROVE  /\ next_handle \in Nat /\ next_handle <= MaxHandle
         /\ clients \subseteq 1 .. next_handle /\ streams \subseteq 1 .. next_handle
         /\ 1 .. next_handle \subseteq Handles
         /\ clients \subseteq Handles /\ streams \subseteq Handles
         /\ clients \cap streams = {} /\ proxy \subseteq Handles
         /\ runtime \in [Handles -> RuntimeType] /\ command \in [Handles -> CommandType]
         /\ stream \in [Handles -> StreamType] /\ thread \in [Threads -> ThreadType]
         /\ \A t \in Threads : thread[t].at # "idle" => thread[t].handle \in Handles
         /\ None \notin Threads
<1>1. /\ next_handle \in 0 .. MaxHandle
      /\ clients \subseteq 1 .. next_handle /\ streams \subseteq 1 .. next_handle
      /\ clients \cap streams = {} /\ proxy \subseteq Handles
      /\ runtime \in [Handles -> RuntimeType] /\ command \in [Handles -> CommandType]
      /\ stream \in [Handles -> StreamType] /\ thread \in [Threads -> ThreadType]
  BY TypeParts DEF ControlInv
<1>2. 1 .. next_handle \subseteq Handles
  BY <1>1, Bounds
<1>3. \A t \in Threads : thread[t].at # "idle" => thread[t].handle \in 1 .. next_handle
  BY DEF ControlInv, CallShape
<1> QED BY <1>1, <1>2, <1>3, Bounds

(* velum_client_runtime_create and velum_client_connect: the new handle is *)
(* known to nobody.                                                        *)
LEMMA CreateKeeps ==
  ASSUME ControlInv, NEW t \in Threads, Create(t) \/ Connect(t)
  PROVE  ControlInv'
<1> DEFINE n == next_handle + 1
<1>1. /\ next_handle < MaxHandle /\ next_handle' = n /\ clients' = clients \cup {n}
      /\ UNCHANGED <<streams, command, proxy, stream, thread>>
      /\ \A h \in Handles : h # n => runtime'[h] = runtime[h]
  BY Facts DEF Create, Connect
<1>2. n \in Handles /\ n \notin 1 .. next_handle /\ n \in 1 .. n
      /\ 1 .. next_handle \subseteq 1 .. n
  BY <1>1, Facts, Bounds
<1>3. /\ runtime' \in [Handles -> RuntimeType]
      /\ \/ runtime'[n] = runtime[n]
         \/ runtime'[n].phase \in {"Online", "Failed"} /\ runtime'[n].generation = 1
  BY <1>2, Facts, Bounds, SMTT(30) DEF Create, Connect, RuntimeType
<1>4. TypeOK'
  <2>1. next_handle' \in 0 .. MaxHandle /\ clients' \subseteq 1 .. next_handle'
        /\ streams' \subseteq 1 .. next_handle' /\ clients' \cap streams' = {}
    BY <1>1, <1>2, Facts, Bounds
  <2> QED BY <1>1, <1>3, <2>1, Facts, TypePartsNext
<1>5. CallShape' /\ CommandMutex'
  BY <1>1, <1>2 DEF ControlInv, CallShape, CommandMutex
<1>6. RoomToStop'
  BY <1>1, <1>3, Bounds DEF ControlInv, RoomToStop
<1>7. \A u \in Threads : thread[u].at # "idle" => thread[u].handle # n
  BY <1>2 DEF ControlInv, CallShape
<1>8. StoppingHeld' /\ InsertingOnline' /\ StreamsGone'
  BY <1>1, <1>3, <1>7, Facts DEF ControlInv, StoppingHeld, InsertingOnline, StreamsGone
<1>9. Destroying' /\ Destroyed'
  BY <1>1, <1>2, <1>7, Facts DEF ControlInv, Destroying, Destroyed, Inside, Commands
<1>10. NoStreamOutlivesItsRuntime'
  BY <1>1, <1>2, Facts DEF ControlInv, NoStreamOutlivesItsRuntime
<1> QED BY <1>4, <1>5, <1>6, <1>8, <1>9, <1>10 DEF ControlInv

(* Steps that only move a thread that neither holds nor takes a command    *)
(* mutex: lookups, the opening of a stream, transfers.                     *)
LEMMA MovesKeep ==
  ASSUME ControlInv, NEW t \in Threads,
         UNCHANGED <<next_handle, clients, streams, runtime, command, proxy>>,
         stream' \in [Handles -> StreamType],
         \A k \in Handles : /\ stream'[k].client = stream[k].client
                            /\ stream'[k].cancelled = stream[k].cancelled,
         thread' \in [Threads -> ThreadType],
         \A u \in Threads : u # t => thread'[u] = thread[u],
         thread[t].at \notin Inside, thread'[t].at \notin Inside,
         CallShape',
         thread'[t].at # "idle" /\ thread'[t].op = "destroy" => thread'[t].handle \notin clients
  PROVE  ControlInv'
<1>1. TypeOK'
  BY Facts, TypePartsNext
<1>2. CommandMutex' /\ RoomToStop'
  BY DEF ControlInv, CommandMutex, RoomToStop
<1>3. StoppingHeld' /\ InsertingOnline'
  BY DEF ControlInv, StoppingHeld, InsertingOnline, Inside
<1>6. StreamsGone'
  BY Facts DEF ControlInv, StreamsGone, Inside
<1>4. Destroying' /\ Destroyed'
  BY DEF ControlInv, Destroying, Destroyed
<1>5. NoStreamOutlivesItsRuntime'
  BY Facts DEF ControlInv, NoStreamOutlivesItsRuntime
<1> QED BY <1>1, <1>2, <1>3, <1>4, <1>5, <1>6 DEF ControlInv

(* One thread moves: what it needs for the shape of all calls. *)
LEMMA ShapeKept ==
  ASSUME ControlInv, NEW t \in Threads,
         1 .. next_handle \subseteq 1 .. next_handle',
         \A u \in Threads : u # t => thread'[u] = thread[u],
         thread'[t].at # "idle" => thread'[t].handle \in 1 .. next_handle',
         thread'[t].at = "waiting" => thread'[t].op \in Commands \cup {"destroy"},
         thread'[t].at \in Commands \cup {"destroy"} => thread'[t].op = thread'[t].at,
         thread'[t].at \in {"stopping", "joining"} => thread'[t].op \in {"stop", "destroy"},
         thread'[t].at \in {"opening", "opened", "publishing", "inserting"} => thread'[t].op = "open",
         thread'[t].at \in {"queued", "transfer"} => thread'[t].op \in Transfers
  PROVE  CallShape'
BY DEF ControlInv, CallShape

(* A thread that found the entry of a handle, and nothing else changed. *)
LEMMA EntersKeep ==
  ASSUME ControlInv, NEW t \in Threads, NEW op, NEW h \in Handles,
         NEW a \in {"opening", "waiting", "queued"}, Enters(t, op, h, a),
         a = "opening" => op = "open", a = "waiting" => op \in Commands,
         a = "queued" => op \in Transfers,
         thread[t].at = "idle", h \in 1 .. next_handle,
         UNCHANGED <<next_handle, clients, streams, runtime, command, proxy, stream>>
  PROVE  ControlInv'
<1>1. op \in Operations /\ op # "destroy"
  BY DEF Operations, Commands, Transfers
<1>2. /\ thread' \in [Threads -> ThreadType]
      /\ thread'[t].at = a /\ thread'[t].op = op /\ thread'[t].handle = h
      /\ \A u \in Threads : u # t => thread'[u] = thread[u]
  BY <1>1, Facts, Begins DEF Places
<1>3. a \notin Commands \cup {"destroy", "stopping", "joining", "inserting", "idle", "opened"}
  BY DEF Commands
<1>4. CallShape'
  BY <1>2, <1>3, ShapeKept
<1>5. thread[t].at \notin Inside /\ thread'[t].at \notin Inside
  BY <1>2, <1>3 DEF Inside, Commands
<1> QED BY <1>1, <1>2, <1>4, <1>5, Facts, MovesKeep

(* A command or open_stream finds the entry of its handle. *)
LEMMA FindKeeps ==
  ASSUME ControlInv, NEW t \in Threads, NEW op, NEW h \in Handles,
         op \in Commands \/ op = "open", Find(t, op, h)
  PROVE  ControlInv'
<1>1. /\ thread[t].at = "idle" /\ h \in 1 .. next_handle
      /\ UNCHANGED <<next_handle, clients, streams, runtime, command, proxy, stream>>
      /\ \/ op = "open" /\ Enters(t, op, h, "opening")
         \/ op \in Commands /\ Enters(t, op, h, "waiting")
  BY Facts DEF Find
<1> QED BY <1>1, EntersKeep

(* A transfer finds the entry of its stream. *)
LEMMA FindStreamKeeps ==
  ASSUME ControlInv, NEW t \in Threads, NEW op \in Transfers, NEW k \in Handles,
         FindStream(t, op, k)
  PROVE  ControlInv'
BY Facts, EntersKeep DEF FindStream

(* The await of open_stream, and the locks of a stream's halves. *)
LEMMA OpensKeep ==
  ASSUME ControlInv, NEW t \in Threads,
         StreamOpens(t) \/ StreamOpened(t) \/ LockHalf(t) \/ TransferEnds(t)
           \/ TransferCancelled(t)
  PROVE  ControlInv'
<1>1. /\ UNCHANGED <<next_handle, clients, streams, runtime, command, proxy>>
      /\ thread[t].at \in {"opening", "opened", "queued", "transfer"}
      /\ thread[t].handle \in 1 .. next_handle /\ thread[t].handle \in Handles
  BY Facts DEF StreamOpens, StreamOpened, LockHalf, TransferEnds, TransferCancelled, ReleaseHalf,
               ControlInv, CallShape
<1>2. /\ stream' \in [Handles -> StreamType]
      /\ \A k \in Handles : /\ stream'[k].client = stream[k].client
                            /\ stream'[k].cancelled = stream[k].cancelled
  <2>1. CASE UNCHANGED stream
    BY <2>1, Facts
  <2>2. CASE ~UNCHANGED stream
    <3>1. PICK v \in Threads \cup {None} :
            stream' = [stream EXCEPT ![thread[t].handle][Half(thread[t].op)] = v]
      BY <2>2 DEF StreamOpens, StreamOpened, LockHalf, TransferEnds, TransferCancelled,
                  ReleaseHalf
    <3> QED BY <3>1, <1>1, Facts, HalfChanges
  <2> QED BY <2>1, <2>2
<1>3. /\ thread' \in [Threads -> ThreadType]
      /\ \A u \in Threads : u # t => thread'[u] = thread[u]
      /\ \/ thread'[t].at = "idle"
         \/ /\ thread[t].at \in {"opening", "opened"}
            /\ thread'[t].at \in {"opened", "publishing"}
            /\ thread'[t].op = thread[t].op /\ thread'[t].handle = thread[t].handle
         \/ /\ thread[t].at = "queued" /\ thread'[t].at = "transfer"
            /\ thread'[t].op = thread[t].op /\ thread'[t].handle = thread[t].handle
  <2>1. CASE Returns(t)
    BY <2>1, Facts, Ends
  <2>2. CASE StreamOpens(t) /\ ~Returns(t)
    <3>1. /\ thread' = [thread EXCEPT ![t].at = "opened",
                                      ![t].generation = runtime[thread[t].handle].generation]
          /\ runtime[thread[t].handle].generation \in Generations
          /\ "opened" \in Places
      BY <1>1, <2>2, Facts DEF StreamOpens, RuntimeType, Places
    <3>2. PICK g \in Generations : g = runtime[thread[t].handle].generation BY <3>1
    <3>3. thread[t] \in ThreadType /\ thread \in [Threads -> ThreadType] BY Facts
    <3>4. /\ thread'[t] = [thread[t] EXCEPT !.at = "opened", !.generation = g]
          /\ thread' = [thread EXCEPT ![t] = [thread[t] EXCEPT !.at = "opened", !.generation = g]]
      BY <3>1, <3>2, <3>3
    <3>5. /\ [thread[t] EXCEPT !.at = "opened", !.generation = g] \in ThreadType
          /\ thread'[t].at = "opened" /\ thread'[t].op = thread[t].op
          /\ thread'[t].handle = thread[t].handle
      BY ONLY <3>1, <3>2, <3>3, <3>4 DEF ThreadType
    <3>6. thread' \in [Threads -> ThreadType] /\ \A u \in Threads : u # t => thread'[u] = thread[u]
      BY ONLY <3>3, <3>4, <3>5
    <3>7. thread[t].at \in {"opening", "opened"} BY <2>2 DEF StreamOpens
    <3> QED BY ONLY <3>5, <3>6, <3>7
  <2>3. CASE StreamOpened(t) /\ Goto(t, "publishing")
    BY <2>3, Facts, Moves DEF StreamOpened, Places
  <2>4. CASE LockHalf(t)
    BY <2>4, Facts, Moves DEF LockHalf, Places
  <2> QED BY <2>1, <2>2, <2>3, <2>4
          DEF StreamOpened, TransferEnds, TransferCancelled, ReleaseHalf
<1>4. thread[t].at \notin Inside /\ thread'[t].at \notin Inside
      /\ thread'[t].at \notin Commands \cup {"waiting", "destroy", "stopping", "joining"}
  BY <1>1, <1>3 DEF Inside, Commands
<1>5. /\ thread[t].at \in {"opening", "opened"} => thread[t].op = "open"
      /\ thread[t].at = "queued" => thread[t].op \in Transfers
  BY DEF ControlInv, CallShape
<1>6. CallShape'
  BY <1>1, <1>3, <1>4, <1>5, ShapeKept
<1>7. thread'[t].at # "idle" => thread'[t].op # "destroy"
  BY <1>3, <1>5 DEF Transfers
<1> QED BY <1>1, <1>2, <1>3, <1>4, <1>6, <1>7, MovesKeep

(* retire_runtime up to the command mutex: the handle and its streams go   *)
(* together.                                                               *)
LEMMA RetireKeeps ==
  ASSUME ControlInv, NEW t \in Threads, NEW h \in Handles, Retire(t, h)
  PROVE  ControlInv'
<1>1. /\ UNCHANGED <<next_handle, runtime, command, proxy>>
      /\ thread[t].at = "idle" /\ h \in clients /\ h \in 1 .. next_handle
      /\ clients' = clients \ {h}
  BY Facts DEF Retire
<1>2. /\ thread' \in [Threads -> ThreadType]
      /\ thread'[t].at = "waiting" /\ thread'[t].op = "destroy" /\ thread'[t].handle = h
      /\ \A u \in Threads : u # t => thread'[u] = thread[u]
  BY Facts, Begins DEF Retire, Places, Operations
<1>3. /\ stream' \in [Handles -> StreamType]
      /\ streams' = {k \in streams : stream[k].client # h}
      /\ \A k \in streams' : stream'[k] = stream[k]
  BY Facts, Invalidates DEF Retire
<1>4. TypeOK'
  <2>1. clients' \subseteq 1 .. next_handle' /\ streams' \subseteq 1 .. next_handle'
        /\ clients' \cap streams' = {} /\ next_handle' \in 0 .. MaxHandle
    BY <1>1, <1>3, Facts, Bounds
  <2> QED BY <1>1, <1>2, <1>3, <2>1, Facts, TypePartsNext
<1>5. CallShape'
  BY <1>1, <1>2, ShapeKept DEF Commands
<1>6. thread[t].at \notin Inside /\ "waiting" \notin Inside
  BY <1>1 DEF Inside, Commands
<1>7. CommandMutex' /\ RoomToStop'
  BY <1>1, <1>2, <1>6 DEF ControlInv, CommandMutex, RoomToStop
<1>8. StoppingHeld' /\ InsertingOnline'
  BY <1>1, <1>2 DEF ControlInv, StoppingHeld, InsertingOnline
<1>9. StreamsGone'
  BY <1>2, <1>3 DEF ControlInv, StreamsGone
<1>10. Destroying' /\ Destroyed'
  BY <1>1, <1>2, <1>6 DEF ControlInv, Destroying, Destroyed
<1>11. NoStreamOutlivesItsRuntime'
  BY <1>1, <1>3 DEF ControlInv, NoStreamOutlivesItsRuntime
<1> QED BY <1>4, <1>5, <1>7, <1>8, <1>9, <1>10, <1>11 DEF ControlInv

(* A thread takes the command mutex of its entry, which nobody holds, and  *)
(* goes on with its operation or with the insertion of a stream.           *)
LEMMA LocksKeep ==
  ASSUME ControlInv, NEW t \in Threads, NEW a \in Commands \cup {"destroy", "inserting"},
         thread[t].at \in {"waiting", "publishing"},
         command[thread[t].handle].holder = None,
         ~command[thread[t].handle].destroyed,
         a = "inserting" => thread[t].op = "open"
                            /\ runtime[thread[t].handle].phase = "Online",
         a # "inserting" => thread[t].op = a,
         Acquires(t, thread[t].handle), Goto(t, a),
         UNCHANGED <<next_handle, clients, streams, runtime, proxy, stream>>
  PROVE  ControlInv'
<1> DEFINE h == thread[t].handle
<1>1. a \in Places /\ a \in Inside /\ a \notin {"waiting", "idle", "stopping", "joining", "queued",
        "transfer", "opening", "opened", "publishing"} /\ thread[t].at \notin Inside
  BY DEF Places, Inside, Commands
<1>2. h \in Handles /\ h \in 1 .. next_handle
  BY Facts DEF ControlInv, CallShape
<1>3. /\ thread' \in [Threads -> ThreadType]
      /\ thread'[t].at = a /\ thread'[t].op = thread[t].op /\ thread'[t].handle = h
      /\ \A u \in Threads : u # t => thread'[u] = thread[u]
  BY <1>1, Facts, Moves
<1>4. /\ command' \in [Handles -> CommandType] /\ command'[h].holder = t
      /\ \A j \in Handles : command'[j].destroyed = command[j].destroyed
      /\ \A j \in Handles : j # h => command'[j] = command[j]
  BY <1>2, Facts, Locks
<1> HIDE DEF h
<1>5. TypeOK'
  BY <1>3, <1>4, Facts, Bounds, TypePartsNext
<1>6. CallShape'
  <2>1. a \notin {"opening", "opened", "publishing", "inserting"} \/ thread[t].op = "open"
    BY <1>1
  <2>2. a \in Commands \cup {"destroy"} => thread[t].op = a
    BY DEF Commands
  <2> QED BY <1>1, <1>2, <1>3, <2>1, <2>2, ShapeKept
<1>7. CommandMutex'
  <2>1. \A u \in Threads : ~(thread[u].at \in Inside /\ thread[u].handle = h)
    BY <1>2, Facts DEF ControlInv, CommandMutex, h
  <2>2. \A j \in Handles : j # h => command[j].holder # t
    BY <1>1 DEF ControlInv, CommandMutex
  <2> QED BY <1>1, <1>3, <1>4, <2>1, <2>2 DEF ControlInv, CommandMutex
<1>8. RoomToStop' /\ StoppingHeld'
  BY <1>1, <1>3 DEF ControlInv, RoomToStop, StoppingHeld
<1>9. InsertingOnline' /\ StreamsGone'
  BY <1>1, <1>3 DEF ControlInv, InsertingOnline, StreamsGone, h
<1>10. Destroying'
  <2>1. thread[t].at # "idle" /\ "idle" \notin Inside
    BY DEF Inside, Commands
  <2>2. ASSUME NEW u \in Threads, u # t
        PROVE  /\ thread'[u].at # "idle" /\ thread'[u].op = "destroy"
                    => thread'[u].handle \notin clients'
               /\ thread'[u].at \in Inside /\ thread'[u].op # "destroy"
                    => ~command'[thread'[u].handle].destroyed
    BY <1>3, <1>4, <2>1, <2>2, Facts DEF ControlInv, Destroying
  <2>3. thread[t].op = "destroy" => h \notin clients
    BY <2>1 DEF ControlInv, Destroying, h
  <2>4. ~command'[h].destroyed
    BY <1>2, <1>4 DEF h
  <2> QED BY <1>3, <2>2, <2>3, <2>4 DEF Destroying
<1>11. Destroyed'
  BY <1>4 DEF ControlInv, Destroyed, h
<1>12. NoStreamOutlivesItsRuntime'
  BY DEF ControlInv, NoStreamOutlivesItsRuntime
<1> QED BY <1>5, <1>6, <1>7, <1>8, <1>9, <1>10, <1>11, <1>12 DEF ControlInv

(* A command finds its entry destroyed, or an open is not published.       *)
LEMMA RefusedKeeps ==
  ASSUME ControlInv, NEW t \in Threads, thread[t].at \in {"waiting", "publishing"}, Returns(t),
         UNCHANGED <<next_handle, clients, streams, runtime, command, proxy, stream>>
  PROVE  ControlInv'
<1>1. /\ thread' \in [Threads -> ThreadType]
      /\ thread'[t].at = "idle"
      /\ \A u \in Threads : u # t => thread'[u] = thread[u]
  BY Facts, Ends
<1>2. thread[t].at \notin Inside /\ thread'[t].at \notin Inside
      /\ "idle" \notin Commands \cup {"destroy"}
  BY <1>1 DEF Inside, Commands
<1>3. CallShape'
  BY <1>1, <1>2, ShapeKept
<1> QED BY <1>1, <1>2, <1>3, Facts, MovesKeep

(* entry.command.lock() and the check that follows it. *)
LEMMA LockCommandKeeps ==
  ASSUME ControlInv, NEW t \in Threads, LockCommand(t) \/ PublishChecks(t)
  PROVE  ControlInv'
<1>1. CASE LockCommand(t) /\ ~command[thread[t].handle].destroyed
  <2>1. thread[t].op \in Commands \cup {"destroy"} /\ "inserting" \notin Commands
    BY <1>1 DEF LockCommand, ControlInv, CallShape, Commands
  <2> QED BY <1>1, <2>1, LocksKeep DEF LockCommand
<1>2. CASE /\ PublishChecks(t) /\ ~command[thread[t].handle].destroyed
           /\ Publishable(thread[t].handle, thread[t].generation)
  <2>1. thread[t].op = "open"
    BY <1>2 DEF PublishChecks, ControlInv, CallShape
  <2> QED BY <1>2, <2>1, LocksKeep DEF PublishChecks, Publishable
<1>3. CASE LockCommand(t) /\ command[thread[t].handle].destroyed
  BY <1>3, RefusedKeeps DEF LockCommand
<1>4. CASE /\ PublishChecks(t)
           /\ \/ command[thread[t].handle].destroyed
              \/ ~Publishable(thread[t].handle, thread[t].generation)
  BY <1>4, RefusedKeeps DEF PublishChecks
<1> QED BY <1>1, <1>2, <1>3, <1>4

(* The thread that holds the command mutex of an entry is alone on it. *)
LEMMA Alone ==
  ASSUME ControlInv, NEW t \in Threads, thread[t].at \in Inside
  PROVE  /\ thread[t].handle \in Handles /\ thread[t].handle \in 1 .. next_handle
         /\ command[thread[t].handle].holder = t
         /\ \A u \in Threads : u # t /\ thread[u].at \in Inside
                                 => thread[u].handle # thread[t].handle
         /\ thread[t].op # "destroy" => ~command[thread[t].handle].destroyed
<1>1. thread[t].at # "idle"
  BY DEF Inside, Commands
<1>2. thread[t].handle \in Handles /\ thread[t].handle \in 1 .. next_handle
  BY <1>1, Facts DEF ControlInv, CallShape
<1>3. command[thread[t].handle].holder = t
  BY <1>2 DEF ControlInv, CommandMutex
<1>4. \A u \in Threads : thread[u].at \in Inside /\ thread[u].handle = thread[t].handle => u = t
  BY <1>2, <1>3 DEF ControlInv, CommandMutex
<1> QED BY <1>2, <1>3, <1>4 DEF ControlInv, Destroying

(* The end of a command: the mutex is released and the thread returns. *)
LEMMA Leaves ==
  ASSUME ControlInv, NEW t \in Threads, thread[t].at \in Inside,
         Releases(thread[t].handle), Returns(t),
         1 .. next_handle \subseteq 1 .. next_handle', UNCHANGED clients
  PROVE  /\ thread' \in [Threads -> ThreadType]
         /\ thread'[t].at = "idle"
         /\ \A u \in Threads : u # t => thread'[u] = thread[u]
         /\ command' \in [Handles -> CommandType]
         /\ \A j \in Handles : command'[j].destroyed = command[j].destroyed
         /\ \A j \in Handles : j # thread[t].handle => command'[j] = command[j]
         /\ CallShape' /\ CommandMutex' /\ Destroying'
<1> DEFINE h == thread[t].handle
<1>1. /\ h \in Handles
      /\ \A u \in Threads : u # t /\ thread[u].at \in Inside => thread[u].handle # h
  BY Alone
<1>2. /\ thread' \in [Threads -> ThreadType]
      /\ thread'[t].at = "idle"
      /\ \A u \in Threads : u # t => thread'[u] = thread[u]
  BY Facts, Ends
<1>3. /\ command' \in [Handles -> CommandType] /\ command'[h].holder = None
      /\ \A j \in Handles : command'[j].destroyed = command[j].destroyed
      /\ \A j \in Handles : j # h => command'[j] = command[j]
  BY <1>1, Facts, Unlocks
<1> HIDE DEF h
<1>4. "idle" \notin Inside /\ "idle" \notin Commands \cup {"destroy"}
  BY DEF Inside, Commands
<1>5. CallShape'
  BY <1>2, <1>4, ShapeKept
<1>6. CommandMutex'
  <2> SUFFICES ASSUME NEW j \in Handles, NEW u \in Threads
               PROVE  command'[j].holder = u <=> thread'[u].at \in Inside /\ thread'[u].handle = j
    BY DEF CommandMutex
  <2>1. CASE j = h
    BY <1>1, <1>2, <1>3, <1>4, <2>1, Facts
  <2>2. CASE j # h /\ u = t
    <3>1. command[j].holder # t
      BY <2>2 DEF ControlInv, CommandMutex, h
    <3> QED BY <1>2, <1>3, <1>4, <2>2, <3>1
  <2>3. CASE j # h /\ u # t
    BY <1>2, <1>3, <2>3 DEF ControlInv, CommandMutex
  <2> QED BY <2>1, <2>2, <2>3
<1>7. Destroying'
  <2>1. ASSUME NEW u \in Threads, u # t
        PROVE  /\ thread'[u].at # "idle" /\ thread'[u].op = "destroy"
                    => thread'[u].handle \notin clients'
               /\ thread'[u].at \in Inside /\ thread'[u].op # "destroy"
                    => ~command'[thread'[u].handle].destroyed
    BY <1>2, <1>3, <1>4, <2>1, Facts DEF ControlInv, Destroying
  <2> QED BY <1>2, <1>4, <2>1 DEF Destroying
<1> QED BY <1>2, <1>3, <1>5, <1>6, <1>7 DEF h

(* start, snapshot and the two proxy commands. *)
LEMMA CommandsKeep ==
  ASSUME ControlInv, NEW t \in Threads,
         Start(t) \/ Snapshot(t) \/ ProxyStart(t) \/ ProxyStop(t)
  PROVE  ControlInv'
<1> DEFINE h == thread[t].handle
<1>1. /\ thread[t].at \in {"start", "snapshot", "proxy_start", "proxy_stop"}
      /\ Releases(h) /\ Returns(t)
      /\ UNCHANGED <<next_handle, clients, streams, stream>>
  BY DEF Start, Snapshot, ProxyStart, ProxyStop
<1>2. /\ thread[t].at \in Inside /\ thread[t].op # "destroy"
      /\ thread[t].at \notin {"joining", "inserting", "stopping"}
  BY <1>1 DEF Inside, Commands, ControlInv, CallShape
<1>3. /\ h \in Handles /\ ~command[h].destroyed
      /\ \A u \in Threads : u # t /\ thread[u].at \in Inside => thread[u].handle # h
  BY <1>2, Alone
<1>4. /\ thread' \in [Threads -> ThreadType]
      /\ thread'[t].at = "idle"
      /\ \A u \in Threads : u # t => thread'[u] = thread[u]
      /\ command' \in [Handles -> CommandType]
      /\ \A j \in Handles : command'[j].destroyed = command[j].destroyed
      /\ \A j \in Handles : j # h => command'[j] = command[j]
      /\ CallShape' /\ CommandMutex' /\ Destroying'
  BY <1>1, <1>2, Leaves
<1>5. /\ proxy' \subseteq proxy \cup {h}
      /\ runtime' \in [Handles -> RuntimeType]
      /\ \A j \in Handles : j # h => runtime'[j] = runtime[j]
      /\ \/ runtime'[h] = runtime[h]
         \/ /\ runtime'[h].phase = "Connecting" /\ runtime'[h].generation < MaxGeneration
            /\ runtime[h].phase \in {"Stopped", "Failed"}
  <2>1. CASE UNCHANGED runtime
    BY <1>3, <2>1, Facts DEF Start, Snapshot, ProxyStart, ProxyStop
  <2>2. CASE ~UNCHANGED runtime
    <3>1. /\ runtime' = [runtime EXCEPT ![h] = [phase |-> "Connecting",
                                                generation |-> runtime[h].generation + 1]]
          /\ runtime[h].generation + 1 < MaxGeneration /\ UNCHANGED proxy
          /\ runtime[h].phase \in {"Stopped", "Failed"}
      BY <2>2 DEF Start, Snapshot, ProxyStart, ProxyStop
    <3>2. runtime[h].generation + 1 \in Generations
      BY <1>3, <3>1, Facts, Bounds DEF RuntimeType
    <3>3. [phase |-> "Connecting", generation |-> runtime[h].generation + 1] \in RuntimeType
      BY <3>2 DEF RuntimeType
    <3> QED BY <1>3, <3>1, <3>3, Facts
  <2> QED BY <2>1, <2>2
<1> HIDE DEF h
<1>6. TypeOK'
  BY <1>1, <1>3, <1>4, <1>5, Facts, Bounds, TypePartsNext
<1>7. RoomToStop'
  BY <1>3, <1>5 DEF ControlInv, RoomToStop
<1>8. \A u \in Threads : u # t /\ thread[u].at \in {"joining", "inserting"}
                           => thread[u].handle \in Handles /\ thread[u].handle # h
  BY <1>3, Facts DEF Inside
<1>9. StoppingHeld'
  BY <1>2, <1>3, <1>4, <1>5, <1>8 DEF ControlInv, StoppingHeld, h
<1>10. InsertingOnline' /\ StreamsGone'
  BY <1>1, <1>4, <1>5, <1>8 DEF ControlInv, InsertingOnline, StreamsGone
<1>11. Destroyed'
  BY <1>1, <1>3, <1>4, <1>5 DEF ControlInv, Destroyed
<1>12. NoStreamOutlivesItsRuntime'
  <2>1. \A k \in streams : stream[k].client \in Handles
    BY Facts DEF ControlInv, NoStreamOutlivesItsRuntime
  <2> QED BY <1>1, <1>5, <2>1 DEF ControlInv, NoStreamOutlivesItsRuntime
<1> QED BY <1>4, <1>6, <1>7, <1>9, <1>10, <1>11, <1>12 DEF ControlInv

(* stop and destroy end: Stopped is published, the mutex released.         *)
LEMMA StoppedKeeps ==
  ASSUME ControlInv, NEW t \in Threads, RuntimeStopped(t)
  PROVE  ControlInv'
<1> DEFINE h == thread[t].handle
<1>1. /\ thread[t].at = "joining" /\ Releases(h) /\ Returns(t)
      /\ runtime' = [runtime EXCEPT ![h].phase = "Stopped"]
      /\ UNCHANGED <<next_handle, clients, streams, stream, proxy>>
  BY DEF RuntimeStopped
<1>2. thread[t].at \in Inside
  BY <1>1 DEF Inside
<1>3. /\ h \in Handles
      /\ \A u \in Threads : u # t /\ thread[u].at \in Inside => thread[u].handle # h
  BY <1>2, Alone
<1>4. /\ thread' \in [Threads -> ThreadType]
      /\ thread'[t].at = "idle"
      /\ \A u \in Threads : u # t => thread'[u] = thread[u]
      /\ command' \in [Handles -> CommandType]
      /\ \A j \in Handles : command'[j].destroyed = command[j].destroyed
      /\ \A j \in Handles : j # h => command'[j] = command[j]
      /\ CallShape' /\ CommandMutex' /\ Destroying'
  BY <1>1, <1>2, Leaves
<1>5. /\ runtime' \in [Handles -> RuntimeType]
      /\ \A j \in Handles : j # h => runtime'[j] = runtime[j]
      /\ runtime'[h].phase = "Stopped"
  BY <1>1, <1>3, Facts DEF RuntimeType
<1> HIDE DEF h
<1>6. TypeOK'
  BY <1>1, <1>4, <1>5, Facts, Bounds, TypePartsNext
<1>7. RoomToStop'
  BY <1>5 DEF ControlInv, RoomToStop
<1>8. \A u \in Threads : u # t /\ thread[u].at \in {"joining", "inserting"}
                           => thread[u].handle \in Handles /\ thread[u].handle # h
  BY <1>3, Facts DEF Inside
<1>9. StoppingHeld'
  BY <1>3, <1>4, <1>5, <1>8 DEF ControlInv, StoppingHeld, h
<1>10. InsertingOnline' /\ StreamsGone'
  BY <1>1, <1>4, <1>5, <1>8 DEF ControlInv, InsertingOnline, StreamsGone
<1>11. Destroyed'
  BY <1>1, <1>4, <1>5 DEF ControlInv, Destroyed
<1>12. NoStreamOutlivesItsRuntime'
  <2>1. \A k \in streams : stream[k].client \in Handles /\ stream[k].client # h
    BY <1>1, Facts DEF ControlInv, NoStreamOutlivesItsRuntime, StreamsGone, h
  <2> QED BY <1>1, <1>5, <2>1 DEF ControlInv, NoStreamOutlivesItsRuntime
<1> QED BY <1>4, <1>6, <1>7, <1>9, <1>10, <1>11, <1>12 DEF ControlInv

(* publish_stream_handle inserts: the client is still in the table and its *)
(* runtime was not stopped since the check, because the mutex is held.     *)
LEMMA PublishKeeps ==
  ASSUME ControlInv, NEW t \in Threads, PublishInserts(t)
  PROVE  ControlInv'
<1> DEFINE h == thread[t].handle
           n == next_handle + 1
<1>1. /\ thread[t].at = "inserting" /\ Releases(h) /\ Returns(t)
      /\ UNCHANGED <<clients, runtime, proxy>>
  BY DEF PublishInserts
<1>2. thread[t].at \in Inside
  BY <1>1 DEF Inside
<1>3. /\ h \in Handles
      /\ \A u \in Threads : u # t /\ thread[u].at \in Inside => thread[u].handle # h
  BY <1>2, Alone
<1>4. \/ UNCHANGED <<next_handle, streams, stream>>
      \/ /\ h \in clients /\ n \in Handles /\ next_handle' = n
         /\ streams' = streams \cup {n}
         /\ stream' = [stream EXCEPT ![n] = NewStream(h, thread[t].generation)]
  BY DEF PublishInserts
<1>5. n \notin 1 .. next_handle /\ 1 .. next_handle \subseteq 1 .. next_handle'
      /\ next_handle' \in 0 .. MaxHandle
  BY <1>4, Facts, Bounds
<1>6. /\ stream' \in [Handles -> StreamType]
      /\ \A k \in streams : stream'[k] = stream[k]
      /\ n \in streams' => /\ h \in clients /\ stream'[n].client = h
                           /\ ~stream'[n].cancelled
  <2>1. n \notin streams
    BY <1>5, Facts
  <2>2. CASE UNCHANGED <<next_handle, streams, stream>>
    BY <2>1, <2>2, Facts
  <2>3. CASE ~UNCHANGED <<next_handle, streams, stream>>
    <3> DEFINE new == NewStream(h, thread[t].generation)
    <3>2. new \in StreamType
      BY <1>3, Facts, Bounds DEF StreamType, ThreadType, NewStream
    <3>3. new.client = h /\ new.cancelled = FALSE
      BY DEF NewStream
    <3>4. stream' = [stream EXCEPT ![n] = new] /\ h \in clients /\ n \in Handles
      BY <1>4, <2>3
    <3> HIDE DEF new, n
    <3>5. stream'[n] = new /\ \A k \in Handles : k # n => stream'[k] = stream[k]
      BY <3>4, Facts
    <3> QED BY <2>1, <3>2, <3>3, <3>4, <3>5, Facts
  <2> QED BY <2>2, <2>3
<1>7. /\ thread' \in [Threads -> ThreadType]
      /\ thread'[t].at = "idle"
      /\ \A u \in Threads : u # t => thread'[u] = thread[u]
      /\ command' \in [Handles -> CommandType]
      /\ \A j \in Handles : command'[j].destroyed = command[j].destroyed
      /\ \A j \in Handles : j # h => command'[j] = command[j]
      /\ CallShape' /\ CommandMutex' /\ Destroying'
  BY <1>1, <1>2, <1>5, Leaves
<1>8. /\ runtime[h].phase \in {"Online", "Failed"}
      /\ ~command[h].destroyed
  <2>1. thread[t].op # "destroy"
    BY <1>1 DEF ControlInv, CallShape
  <2> QED BY <1>1, <1>2, <2>1, Alone DEF ControlInv, InsertingOnline
<1> HIDE DEF h
<1>9. TypeOK'
  <2>1. clients' \subseteq 1 .. next_handle' /\ streams' \subseteq 1 .. next_handle'
        /\ clients' \cap streams' = {}
    <3>1. n \notin clients
      BY <1>5, Facts
    <3>2. next_handle' = n => n \in 1 .. next_handle'
      BY Facts
    <3> HIDE DEF n
    <3> QED BY <1>1, <1>4, <1>5, <3>1, <3>2, Facts
  <2> QED BY <1>1, <1>5, <1>6, <1>7, <2>1, Facts, TypePartsNext
<1>10. RoomToStop' /\ StoppingHeld' /\ InsertingOnline'
  BY <1>1, <1>7 DEF ControlInv, RoomToStop, StoppingHeld, InsertingOnline
<1>11. streams' \subseteq streams \cup {n}
  BY <1>4
<1> HIDE DEF n
<1>12. StreamsGone'
  <2>1. \A u \in Threads : u # t /\ thread[u].at \in {"stopping", "joining"} => thread[u].handle # h
    BY <1>3 DEF Inside
  <2> QED BY <1>6, <1>7, <1>11, <2>1 DEF ControlInv, StreamsGone
<1>13. Destroyed'
  BY <1>1, <1>5, <1>7, <1>8 DEF ControlInv, Destroyed
<1>14. NoStreamOutlivesItsRuntime'
  BY <1>1, <1>6, <1>8, <1>11 DEF ControlInv, NoStreamOutlivesItsRuntime
<1> QED BY <1>7, <1>9, <1>10, <1>12, <1>13, <1>14 DEF ControlInv

(* A thread inside the command mutex moves on and keeps it. *)
LEMMA StaysInside ==
  ASSUME ControlInv, NEW t \in Threads, thread[t].at \in {"stop", "destroy", "stopping"},
         NEW a \in {"stopping", "joining"}, Goto(t, a), UNCHANGED <<next_handle, clients>>,
         \A j \in Handles : command'[j].holder = command[j].holder,
         \A j \in Handles : j # thread[t].handle => command'[j] = command[j],
         thread[t].op = "destroy" \/ UNCHANGED command
  PROVE  /\ thread' \in [Threads -> ThreadType]
         /\ thread'[t].at = a /\ thread'[t].handle = thread[t].handle
         /\ thread[t].at \in Inside
         /\ \A u \in Threads : u # t => thread'[u] = thread[u]
         /\ CallShape' /\ CommandMutex' /\ Destroying'
<1> DEFINE h == thread[t].handle
<1>1. /\ thread[t].at \in Inside /\ a \in Inside /\ a \in Places /\ "idle" \notin Inside
      /\ a \notin Commands \cup {"destroy"}
  BY DEF Inside, Commands, Places
<1>2. /\ thread' \in [Threads -> ThreadType]
      /\ thread'[t].at = a /\ thread'[t].op = thread[t].op /\ thread'[t].handle = h
      /\ \A u \in Threads : u # t => thread'[u] = thread[u]
  BY <1>1, Facts, Moves
<1>3. /\ h \in Handles /\ h \in 1 .. next_handle
      /\ \A u \in Threads : u # t /\ thread[u].at \in Inside => thread[u].handle # h
  BY <1>1, Alone
<1>4. thread[t].op \in {"stop", "destroy"}
  BY DEF ControlInv, CallShape, Commands
<1> HIDE DEF h
<1>5. CallShape'
  BY <1>1, <1>2, <1>3, <1>4, ShapeKept
<1>6. CommandMutex'
  BY <1>1, <1>2 DEF ControlInv, CommandMutex, h
<1>7. Destroying'
  <2>1. ASSUME NEW u \in Threads, u # t
        PROVE  /\ thread'[u].at # "idle" /\ thread'[u].op = "destroy"
                    => thread'[u].handle \notin clients'
               /\ thread'[u].at \in Inside /\ thread'[u].op # "destroy"
                    => ~command'[thread'[u].handle].destroyed
    BY <1>1, <1>2, <1>3, <2>1, Facts DEF ControlInv, Destroying, h
  <2>2. thread[t].op = "destroy" => h \notin clients
    BY <1>1 DEF ControlInv, Destroying, h
  <2>3. thread[t].op # "destroy" => ~command'[h].destroyed
    BY <1>1 DEF ControlInv, Destroying, h
  <2> QED BY <1>2, <2>1, <2>2, <2>3 DEF Destroying
<1> QED BY <1>1, <1>2, <1>5, <1>6, <1>7 DEF h

(* stop invalidates the streams of the runtime before it stops it. *)
LEMMA StopKeeps ==
  ASSUME ControlInv, NEW t \in Threads, StopInvalidates(t)
  PROVE  ControlInv'
<1> DEFINE h == thread[t].handle
<1>1. /\ thread[t].at = "stop" /\ Goto(t, "stopping")
      /\ UNCHANGED <<next_handle, clients, runtime, command>>
      /\ InvalidateStreams(h) /\ proxy' = proxy \ {h}
  BY DEF StopInvalidates
<1>2. /\ thread' \in [Threads -> ThreadType]
      /\ thread'[t].at = "stopping" /\ thread'[t].handle = h
      /\ \A u \in Threads : u # t => thread'[u] = thread[u]
      /\ CallShape' /\ CommandMutex' /\ Destroying' /\ thread[t].at \in Inside
  BY <1>1, StaysInside
<1>3. /\ stream' \in [Handles -> StreamType]
      /\ streams' = {k \in streams : stream[k].client # h}
      /\ \A k \in streams' : stream'[k] = stream[k]
  BY <1>1, <1>2, Alone, Facts, Invalidates
<1> HIDE DEF h
<1>4. TypeOK'
  BY <1>1, <1>2, <1>3, Facts, Bounds, TypePartsNext
<1>5. RoomToStop' /\ StoppingHeld' /\ InsertingOnline'
  BY <1>1, <1>2 DEF ControlInv, RoomToStop, StoppingHeld, InsertingOnline
<1>6. StreamsGone'
  BY <1>2, <1>3 DEF ControlInv, StreamsGone
<1>7. Destroyed' /\ NoStreamOutlivesItsRuntime'
  BY <1>1, <1>3 DEF ControlInv, Destroyed, NoStreamOutlivesItsRuntime
<1> QED BY <1>2, <1>4, <1>5, <1>6, <1>7 DEF ControlInv

(* destroy marks the entry, whose handle and streams are gone already. *)
LEMMA DestroyKeeps ==
  ASSUME ControlInv, NEW t \in Threads, DestroyEnters(t)
  PROVE  ControlInv'
<1> DEFINE h == thread[t].handle
<1>1. /\ thread[t].at = "destroy" /\ thread[t].op = "destroy" /\ Goto(t, "stopping")
      /\ UNCHANGED <<next_handle, clients, streams, runtime, stream>>
      /\ command' = [command EXCEPT ![h].destroyed = TRUE] /\ proxy' = proxy \ {h}
      /\ thread[t].at \in Inside
  BY DEF DestroyEnters, ControlInv, CallShape, Inside
<1>2. h \in Handles /\ h \in 1 .. next_handle /\ command[h].holder = t
  BY <1>1, Alone
<1>3. /\ command' \in [Handles -> CommandType]
      /\ \A j \in Handles : command'[j].holder = command[j].holder
      /\ \A j \in Handles : j # h => command'[j] = command[j]
  <2>1. command \in [Handles -> CommandType] /\ command[h] \in CommandType BY <1>2, Facts
  <2>2. /\ [command[h] EXCEPT !.destroyed = TRUE] \in CommandType
        /\ [command[h] EXCEPT !.destroyed = TRUE].holder = command[h].holder
    BY ONLY <2>1 DEF CommandType
  <2>3. command' = [command EXCEPT ![h] = [command[h] EXCEPT !.destroyed = TRUE]] BY <1>1
  <2> HIDE DEF h
  <2> QED BY ONLY <1>2, <2>1, <2>2, <2>3
<1>4. /\ thread' \in [Threads -> ThreadType]
      /\ thread'[t].at = "stopping" /\ thread'[t].handle = h
      /\ \A u \in Threads : u # t => thread'[u] = thread[u]
      /\ CallShape' /\ CommandMutex' /\ Destroying'
  BY <1>1, <1>3, StaysInside
<1>5. h \notin clients
  BY <1>1 DEF ControlInv, Destroying
<1> HIDE DEF h
<1>6. TypeOK'
  BY <1>1, <1>3, <1>4, Facts, Bounds, TypePartsNext
<1>7. RoomToStop' /\ StoppingHeld' /\ InsertingOnline'
  BY <1>1, <1>4 DEF ControlInv, RoomToStop, StoppingHeld, InsertingOnline
<1>8. StreamsGone'
  BY <1>1, <1>4, <1>5 DEF ControlInv, StreamsGone, NoStreamOutlivesItsRuntime
<1>9. Destroyed'
  BY <1>1, <1>2, <1>3, <1>5, Facts DEF ControlInv, Destroyed
<1>10. NoStreamOutlivesItsRuntime'
  BY <1>1 DEF ControlInv, NoStreamOutlivesItsRuntime
<1> QED BY <1>4, <1>6, <1>7, <1>8, <1>9, <1>10 DEF ControlInv

(* runtime.stop begins, on a runtime that no stream is left of. *)
LEMMA RuntimeStopsKeeps ==
  ASSUME ControlInv, NEW t \in Threads, RuntimeStops(t)
  PROVE  /\ ControlInv'
         /\ runtime[thread[t].handle].phase # "Stopping"
<1> DEFINE h == thread[t].handle
<1>1. /\ thread[t].at = "stopping" /\ Goto(t, "joining")
      /\ UNCHANGED <<next_handle, clients, streams, command, proxy, stream>>
      /\ thread[t].at \in Inside
  BY DEF RuntimeStops, Inside
<1>2. /\ thread' \in [Threads -> ThreadType]
      /\ thread'[t].at = "joining" /\ thread'[t].handle = h
      /\ \A u \in Threads : u # t => thread'[u] = thread[u]
      /\ CallShape' /\ CommandMutex' /\ Destroying'
  BY <1>1, StaysInside
<1>3. /\ h \in Handles /\ command[h].holder = t
      /\ \A u \in Threads : u # t /\ thread[u].at \in Inside => thread[u].handle # h
  BY <1>1, Alone
<1>4. \A u \in Threads : u # t /\ thread[u].at \in {"joining", "inserting"}
                           => thread[u].handle \in Handles /\ thread[u].handle # h
  BY <1>3, Facts DEF Inside
<1>5. runtime[h].phase # "Stopping"
  BY <1>1, <1>3, <1>4 DEF ControlInv, StoppingHeld
<1>6. /\ runtime' \in [Handles -> RuntimeType]
      /\ \A j \in Handles : j # h => runtime'[j] = runtime[j]
      /\ runtime'[h].phase \in {"Stopping", "Stopped"}
  <2>1. CASE runtime[h].phase = "Stopped"
    BY <2>1, Facts DEF RuntimeStops
  <2>2. CASE runtime[h].phase # "Stopped"
    <3>1. runtime[h].generation \in Nat /\ runtime[h].generation < MaxGeneration
      BY <1>3, <1>5, <2>2, Facts, Bounds DEF ControlInv, RoomToStop, RuntimeType
    <3>2. [phase |-> "Stopping", generation |-> runtime[h].generation + 1] \in RuntimeType
      BY <3>1, Bounds DEF RuntimeType
    <3>3. runtime' = [runtime EXCEPT ![h] = [phase |-> "Stopping",
                                             generation |-> runtime[h].generation + 1]]
      BY <2>2 DEF RuntimeStops
    <3> QED BY <1>3, <3>2, <3>3, Facts
  <2> QED BY <2>1, <2>2
<1>7. TypeOK'
  BY <1>1, <1>2, <1>6, Facts, Bounds, TypePartsNext
<1> HIDE DEF h
<1>8. RoomToStop'
  BY <1>6 DEF ControlInv, RoomToStop
<1>9. StoppingHeld'
  BY <1>1, <1>2, <1>4, <1>6 DEF ControlInv, StoppingHeld
<1>10. InsertingOnline' /\ StreamsGone'
  BY <1>1, <1>2, <1>4, <1>6 DEF ControlInv, InsertingOnline, StreamsGone, h
<1>11. Destroyed'
  BY <1>1, <1>3, <1>6, Facts DEF ControlInv, Destroyed
<1>12. NoStreamOutlivesItsRuntime'
  <2>1. \A k \in streams : stream[k].client \in Handles /\ stream[k].client # h
    BY <1>1, Facts DEF ControlInv, NoStreamOutlivesItsRuntime, StreamsGone, h
  <2> QED BY <1>1, <1>6, <2>1 DEF ControlInv, NoStreamOutlivesItsRuntime
<1> QED BY <1>2, <1>5, <1>7, <1>8, <1>9, <1>10, <1>11, <1>12 DEF ControlInv, h

(* velum_client_stream_close *)
LEMMA CloseKeeps ==
  ASSUME ControlInv, NEW t \in Threads, NEW k \in Handles, CloseStream(t, k)
  PROVE  ControlInv'
<1>1. /\ streams' = streams \ {k}
      /\ stream' = [stream EXCEPT ![k].cancelled = TRUE]
      /\ UNCHANGED <<next_handle, clients, runtime, command, proxy, thread>>
  BY DEF CloseStream
<1>2. /\ stream' \in [Handles -> StreamType]
      /\ \A j \in Handles : j # k => stream'[j] = stream[j]
  BY <1>1, Facts DEF StreamType
<1>3. \A j \in streams' : j \in streams /\ stream'[j] = stream[j]
  BY <1>1, <1>2, Facts
<1>4. TypeOK'
  BY <1>1, <1>2, Facts, Bounds, TypePartsNext
<1>5. /\ CallShape' /\ CommandMutex' /\ RoomToStop' /\ StoppingHeld' /\ InsertingOnline'
      /\ Destroying' /\ Destroyed'
  BY <1>1 DEF ControlInv, CallShape, CommandMutex, RoomToStop, StoppingHeld, InsertingOnline,
              Destroying, Destroyed
<1>6. StreamsGone' /\ NoStreamOutlivesItsRuntime'
  BY <1>1, <1>3 DEF ControlInv, StreamsGone, NoStreamOutlivesItsRuntime
<1> QED BY <1>4, <1>5, <1>6 DEF ControlInv

(* The runtime's own task decides an attempt or sees its connection end.   *)
LEMMA RuntimeTaskKeeps ==
  ASSUME ControlInv, NEW h \in Handles, Settles(h) \/ Fails(h)
  PROVE  ControlInv'
<1>1. /\ UNCHANGED <<next_handle, clients, streams, command, proxy, stream, thread>>
      /\ runtime[h].phase = "Connecting" \/ runtime[h].phase = "Online"
  BY DEF Settles, Fails
<1>2. PICK p \in {"Online", "Failed"} : /\ runtime' = [runtime EXCEPT ![h].phase = p]
                                        /\ runtime[h].phase = "Online" => p = "Failed"
  BY DEF Settles, Fails
<1>3. /\ runtime' \in [Handles -> RuntimeType]
      /\ \A j \in Handles : j # h => runtime'[j] = runtime[j]
      /\ runtime'[h].phase = p /\ runtime'[h].generation = runtime[h].generation
  BY <1>2, Facts DEF RuntimeType
<1>4. TypeOK'
  BY <1>1, <1>3, Facts, Bounds, TypePartsNext
<1>5. CallShape' /\ CommandMutex' /\ Destroying' /\ StreamsGone'
  BY <1>1 DEF ControlInv, CallShape, CommandMutex, Destroying, StreamsGone
<1>6. RoomToStop'
  BY <1>1, <1>3 DEF ControlInv, RoomToStop
<1>7. StoppingHeld'
  BY <1>1, <1>3, Facts DEF ControlInv, StoppingHeld
<1>8. InsertingOnline'
  BY <1>1, <1>2, <1>3, Facts DEF ControlInv, InsertingOnline
<1>9. Destroyed'
  BY <1>1, <1>3 DEF ControlInv, Destroyed
<1>10. NoStreamOutlivesItsRuntime'
  BY <1>1, <1>3, Facts DEF ControlInv, NoStreamOutlivesItsRuntime
<1> QED BY <1>4, <1>5, <1>6, <1>7, <1>8, <1>9, <1>10 DEF ControlInv

(* Every step of every thread keeps the invariant. *)
LEMMA ControlStep ==
  ASSUME ControlInv, [Next]_vars
  PROVE  ControlInv'
<1>1. CASE UNCHANGED vars
  BY <1>1 DEF vars, ControlInv, TypeOK, CallShape, CommandMutex, RoomToStop, StoppingHeld,
              InsertingOnline, StreamsGone, Destroying, Destroyed, NoStreamOutlivesItsRuntime
<1>2. ASSUME NEW t \in Threads, CommandStep(t)
      PROVE  ControlInv'
  BY <1>2, CommandsKeep, StopKeeps, DestroyKeeps, RuntimeStopsKeeps, StoppedKeeps, PublishKeeps
     DEF CommandStep
<1>3. ASSUME NEW t \in Threads, NEW op, op \in Commands \cup {"open"}, NEW h \in Handles,
             Find(t, op, h)
      PROVE  ControlInv'
  <2>1. op \in Commands \/ op = "open"
    BY <1>3
  <2> QED BY <1>3, <2>1, FindKeeps
<1> QED BY <1>1, <1>2, <1>3, CreateKeeps, RetireKeeps, LockCommandKeeps, OpensKeep,
           FindStreamKeeps, CloseKeeps, RuntimeTaskKeeps DEF Next

(* What the calls rely on holds in every state of the library. *)
LEMMA ControlInvariant == Spec => []ControlInv
<1>1. Init => ControlInv
  <2> SUFFICES ASSUME Init PROVE ControlInv
    OBVIOUS
  <2>1. TypeOK
    BY Bounds DEF Init, TypeOK, NoStream, NewStream, Idle
  <2>2. \A t \in Threads : thread[t].at = "idle"
    BY DEF Init, Idle
  <2>3. "idle" \notin Inside /\ "idle" \notin Commands
    BY DEF Inside, Commands
  <2>4. CallShape /\ CommandMutex
    BY <2>2, <2>3, Bounds DEF Init, CallShape, CommandMutex
  <2>5. RoomToStop /\ StoppingHeld /\ InsertingOnline /\ StreamsGone /\ Destroying /\ Destroyed
        /\ NoStreamOutlivesItsRuntime
    BY <2>2, <2>3 DEF Init, RoomToStop, StoppingHeld, InsertingOnline, StreamsGone, Destroying,
                      Destroyed, NoStreamOutlivesItsRuntime
  <2> QED BY <2>1, <2>4, <2>5 DEF ControlInv
<1>2. ControlInv /\ [Next]_vars => ControlInv'
  BY ControlStep
<1> QED BY <1>1, <1>2, PTL DEF Spec

(* The tables hold handles that were handed out, each as a client or as a  *)
(* stream, and the generations of a runtime stay within their bound.       *)
THEOREM ControlTypeCorrect == Spec => []TypeOK
<1>1. ControlInv => TypeOK
  BY DEF ControlInv
<1> QED BY <1>1, ControlInvariant, PTL

(* client-architecture.md, Native Control ABI: no stream handle outlives   *)
(* stop or destroy of its runtime, and no command that waited revives a    *)
(* destroyed one, for any number of threads and handles.                   *)
THEOREM HandlesAlwaysSound == Spec => []HandlesSound
<1>1. ControlInv => HandlesSound
  BY DEF ControlInv, HandlesSound, DestroyedStaysStopped, Destroyed
<1> QED BY <1>1, ControlInvariant, PTL

(* Whatever threads do concurrently with a handle, each runtime changes    *)
(* only as RuntimeLifecycle allows: the command mutex orders the calls.    *)
THEOREM LifecyclesFollowed == Spec => RuntimesFollowLifecycle
<1> DEFINE Follows == \A h \in 1 .. next_handle : Runtime(h)!Next \/ UNCHANGED runtime[h]
<1>1. ControlInv /\ [Next]_vars => [Follows]_vars
  <2> SUFFICES ASSUME ControlInv, Next, NEW h \in 1 .. next_handle, runtime'[h] # runtime[h]
               PROVE  Runtime(h)!Next
    BY DEF vars
  <2>1. h \in Handles /\ h # next_handle + 1
    BY Facts
  <2>2. ASSUME NEW t \in Threads, Start(t)
        PROVE  Runtime(h)!Next
    BY <2>1, <2>2, Facts DEF Start, Runtime!Next, Runtime!Connect
  <2>3. ASSUME NEW t \in Threads, RuntimeStops(t)
        PROVE  Runtime(h)!Next
    <3>1. h = thread[t].handle /\ runtime[h].phase # "Stopped"
          /\ runtime' = [runtime EXCEPT ![h] = [phase |-> "Stopping",
                                                generation |-> runtime[h].generation + 1]]
      BY <2>1, <2>3, Facts DEF RuntimeStops
    <3>2. runtime[h].phase \in {"Connecting", "Online", "Failed"}
      BY <2>1, <2>3, <3>1, RuntimeStopsKeeps, Facts DEF RuntimeType
    <3> QED BY <2>1, <3>1, <3>2, Facts DEF Runtime!Next, Runtime!BeginStop
  <2>4. ASSUME NEW t \in Threads, RuntimeStopped(t)
        PROVE  Runtime(h)!Next
    <3>1. h = thread[t].handle /\ runtime' = [runtime EXCEPT ![h].phase = "Stopped"]
      BY <2>1, <2>4, Facts DEF RuntimeStopped
    <3>2. runtime[h].phase \in {"Stopping", "Stopped"}
      BY <2>4, <3>1 DEF RuntimeStopped, ControlInv, StoppingHeld
    <3>3. runtime[h].phase = "Stopping"
      BY <2>1, <3>1, <3>2, Facts DEF RuntimeType
    <3> QED BY <2>1, <3>1, <3>3, Facts DEF Runtime!Next, Runtime!CompleteStop, RuntimeType
  <2>5. ASSUME NEW j \in Handles, Settles(j) \/ Fails(j)
        PROVE  Runtime(h)!Next
    BY <2>1, <2>5, Facts DEF Settles, Fails, Runtime!Next, Runtime!Settle, Runtime!Fail, RuntimeType
  <2>6. ASSUME NEW t \in Threads, Connect(t)
        PROVE  FALSE
    BY <2>1, <2>6, Facts DEF Connect
  <2> QED BY <2>2, <2>3, <2>4, <2>5, <2>6
          DEF Next, CommandStep, Create, Find, Retire, LockCommand, Snapshot, ProxyStart, ProxyStop,
              StopInvalidates, DestroyEnters, PublishInserts, StreamOpens, StreamOpened,
              PublishChecks, FindStream, LockHalf, TransferEnds, TransferCancelled, ReleaseHalf,
              CloseStream
<1>2. Spec => [][Follows]_vars
  <2> HIDE DEF Follows
  <2> QED BY <1>1, ControlInvariant, PTL DEF Spec
<1> QED BY <1>2 DEF RuntimesFollowLifecycle
=============================================================================
