------------------------------ MODULE NodePool ------------------------------
(***************************************************************************)
(* velum_client_engine::NodePool: one ClientRuntime per node of the active *)
(* profile.  activate and stop swap the whole pool state and then stop the *)
(* runtimes of the previous one; lookups start a node lazily under the     *)
(* mutex of its entry and re-read the generation after every await.        *)
(*                                                                         *)
(* A call is made once by the thread it is named after.  A runtime is      *)
(* named after the call that started it, and an entry by the activation    *)
(* whose profile it belongs to and its node.  The state RwLock is never    *)
(* held across an await, so each of its critical sections is one step.     *)
(* Names and aliases are resolved by pure maps and are not distinguished.  *)
(***************************************************************************)
EXTENDS Naturals, FiniteSets

CONSTANTS
  Absent,
  LastNode,       \* nodes of a profile, in the order of the BTreeMap: 1 .. LastNode
  DefaultNode,
  Activations, Stops, Lookups

ASSUME NodePoolAssumption ==
  /\ LastNode \in Nat \ {0}
  /\ DefaultNode \in 1 .. LastNode
  /\ IsFiniteSet(Activations) /\ IsFiniteSet(Stops) /\ IsFiniteSet(Lookups)
  /\ Activations \cap Stops = {} /\ Activations \cap Lookups = {} /\ Stops \cap Lookups = {}
  /\ Absent \notin Activations \cup Stops \cup Lookups

VARIABLES
  next_generation,   \* AtomicU64
  pool,              \* PoolState: generation, and the activation that built it
  entry,             \* NodeEntry.runtime: its value and the holder of its mutex
  runtime,           \* each ClientRuntime
  call               \* where each call is

vars == <<next_generation, pool, entry, runtime, call>>

Nodes   == 1 .. LastNode
Entries == Activations \X Nodes
Calls   == Activations \cup Stops \cup Lookups
Starters == Activations \cup Lookups

Call == [at: {"idle", "started", "numbered", "stopping", "joining", "found", "locked",
              "starting", "checking", "discarding", "returned", "opened", "stream", "done"},
         generation: Nat,
         profile: Activations \cup {Absent},   \* the pool state the call works on
         node: 0 .. LastNode,                \* the node, or how far stop_state got
         runtime: Starters \cup {Absent}]

Init ==
  /\ next_generation = 1
  /\ pool = [generation |-> 0, profile |-> Absent]
  /\ entry = [e \in Entries |-> [runtime |-> Absent, holder |-> Absent]]
  /\ runtime = [r \in Starters |-> "absent"]
  /\ call = [c \in Calls |-> [at |-> "idle", generation |-> 0, profile |-> Absent,
                              node |-> 0, runtime |-> Absent]]

Goto(c, at) == call' = [call EXCEPT ![c].at = at]

-----------------------------------------------------------------------------
(* activate up to the eager start of the default node; an invalid profile  *)
(* or a refused start ends the call before anything is shared.             *)
ActivateStarts(a) ==
  /\ call[a].at = "idle"
  /\ \/ /\ runtime' = [runtime EXCEPT ![a] = "running"]
        /\ entry' = [entry EXCEPT ![<<a, DefaultNode>>].runtime = a]
        /\ Goto(a, "started")
     \/ /\ Goto(a, "done")
        /\ UNCHANGED <<runtime, entry>>
  /\ UNCHANGED <<next_generation, pool>>

(* fetch_add, before the write lock is awaited. *)
ActivateNumbers(a) ==
  /\ call[a].at = "started"
  /\ call' = [call EXCEPT ![a].at = "numbered", ![a].generation = next_generation]
  /\ next_generation' = next_generation + 1
  /\ UNCHANGED <<pool, entry, runtime>>

(* mem::replace; the caller then stops what it replaced. *)
Install(c, generation, profile) ==
  /\ pool' = [generation |-> generation, profile |-> profile]
  /\ call' = [call EXCEPT ![c] = [at |-> IF pool.profile = Absent THEN "done" ELSE "stopping",
                                  generation |-> generation, profile |-> pool.profile,
                                  node |-> 1, runtime |-> Absent]]

ActivateInstalls(a) ==
  /\ call[a].at = "numbered"
  /\ Install(a, call[a].generation, a)
  /\ UNCHANGED <<next_generation, entry, runtime>>

(* stop takes its number inside the write lock. *)
StopInstalls(s) ==
  /\ call[s].at = "idle"
  /\ Install(s, next_generation, Absent)
  /\ next_generation' = next_generation + 1
  /\ UNCHANGED <<entry, runtime>>

(* stop_state is done with one entry. *)
NextEntry(c) ==
  IF call[c].node = LastNode
  THEN [call[c] EXCEPT !.at = "done", !.runtime = Absent]
  ELSE [call[c] EXCEPT !.at = "stopping", !.node = @ + 1, !.runtime = Absent]

(* stop_state locks an entry and takes its runtime; the guard lives until  *)
(* the runtime has stopped.                                                *)
StopTakes(c) ==
  /\ call[c].at = "stopping"
  /\ LET e == <<call[c].profile, call[c].node>>
     IN  /\ entry[e].holder = Absent
         /\ IF entry[e].runtime = Absent
            THEN /\ call' = [call EXCEPT ![c] = NextEntry(c)]
                 /\ UNCHANGED entry
            ELSE /\ call' = [call EXCEPT ![c].at = "joining", ![c].runtime = entry[e].runtime]
                 /\ entry' = [entry EXCEPT ![e] = [runtime |-> Absent, holder |-> c]]
  /\ UNCHANGED <<next_generation, pool, runtime>>

StopJoins(c) ==
  /\ call[c].at = "joining"
  /\ runtime' = [runtime EXCEPT ![call[c].runtime] = "stopped"]
  /\ entry' = [entry EXCEPT ![<<call[c].profile, call[c].node>>].holder = Absent]
  /\ call' = [call EXCEPT ![c] = NextEntry(c)]
  /\ UNCHANGED <<next_generation, pool>>

-----------------------------------------------------------------------------
Entry(u) == <<call[u].profile, call[u].node>>

(* generation(), the first await of open_stream and runtime_for. *)
LookupReads(u) ==
  /\ call[u].at = "idle"
  /\ call' = [call EXCEPT ![u].at = "found", ![u].generation = pool.generation]
  /\ UNCHANGED <<next_generation, pool, entry, runtime>>

(* The entry is found while the pool is read-locked; Superseded and        *)
(* UnknownNode end the call.                                               *)
LookupFinds(u, node) ==
  /\ call[u].at = "found"
  /\ call' = IF pool.generation # call[u].generation \/ pool.profile = Absent
             THEN [call EXCEPT ![u].at = "done"]
             ELSE [call EXCEPT ![u].at = "locked", ![u].profile = pool.profile,
                               ![u].node = node]
  /\ UNCHANGED <<next_generation, pool, entry, runtime>>

(* Mutant: the entry is not locked while its runtime is started. *)
LookupLocksNothing(u) ==
  /\ call[u].at = "locked"
  /\ IF entry[Entry(u)].runtime # Absent
     THEN /\ call' = [call EXCEPT ![u].at = "returned", ![u].runtime = entry[Entry(u)].runtime]
          /\ UNCHANGED entry
     ELSE /\ Goto(u, "starting")
          /\ UNCHANGED entry
  /\ UNCHANGED <<next_generation, pool, runtime>>

(* The mutex of the entry is acquired. *)
LookupLocks(u) ==
  /\ call[u].at = "locked"
  /\ entry[Entry(u)].holder = Absent
  /\ IF entry[Entry(u)].runtime # Absent
     THEN /\ call' = [call EXCEPT ![u].at = "returned", ![u].runtime = entry[Entry(u)].runtime]
          /\ UNCHANGED entry
     ELSE /\ Goto(u, "starting")
          /\ entry' = [entry EXCEPT ![Entry(u)].holder = u]
  /\ UNCHANGED <<next_generation, pool, runtime>>

(* Mutant: a refused start leaves the entry locked. *)
LookupStartsKeepingLock(u) ==
  /\ call[u].at = "starting"
  /\ \/ /\ runtime' = [runtime EXCEPT ![u] = "running"]
        /\ Goto(u, "checking")
     \/ /\ Goto(u, "done")
        /\ UNCHANGED runtime
  /\ UNCHANGED <<next_generation, pool, entry>>

(* factory.start under the mutex of the entry. *)
LookupStarts(u) ==
  /\ call[u].at = "starting"
  /\ \/ /\ runtime' = [runtime EXCEPT ![u] = "running"]
        /\ Goto(u, "checking")
        /\ UNCHANGED entry
     \/ /\ Goto(u, "done")
        /\ entry' = [entry EXCEPT ![Entry(u)].holder = Absent]
        /\ UNCHANGED runtime
  /\ UNCHANGED <<next_generation, pool>>

(* Mutant: the runtime is kept without looking at the generation again. *)
LookupChecksNothing(u) ==
  /\ call[u].at = "checking"
  /\ call' = [call EXCEPT ![u].at = "returned", ![u].runtime = u]
  /\ entry' = [entry EXCEPT ![Entry(u)] = [runtime |-> u, holder |-> Absent]]
  /\ UNCHANGED <<next_generation, pool, runtime>>

(* The generation is read again before the runtime is kept. *)
LookupChecks(u) ==
  /\ call[u].at = "checking"
  /\ IF pool.generation # call[u].generation
     THEN Goto(u, "discarding") /\ UNCHANGED entry
     ELSE /\ call' = [call EXCEPT ![u].at = "returned", ![u].runtime = u]
          /\ entry' = [entry EXCEPT ![Entry(u)] = [runtime |-> u, holder |-> Absent]]
  /\ UNCHANGED <<next_generation, pool, runtime>>

LookupDiscards(u) ==
  /\ call[u].at = "discarding"
  /\ runtime' = [runtime EXCEPT ![u] = "stopped"]
  /\ entry' = [entry EXCEPT ![Entry(u)].holder = Absent]
  /\ Goto(u, "done")
  /\ UNCHANGED <<next_generation, pool>>

(* runtime.open_stream fails on a stopped runtime, and may fail anyway. *)
StreamOpens(u) ==
  /\ call[u].at = "returned"
  /\ \/ runtime[call[u].runtime] = "running" /\ Goto(u, "opened")
     \/ Goto(u, "done")
  /\ UNCHANGED <<next_generation, pool, entry, runtime>>

(* Mutant: the generation is not read a third time. *)
StreamReturnsUnchecked(u) ==
  /\ call[u].at = "opened"
  /\ Goto(u, "stream")
  /\ UNCHANGED <<next_generation, pool, entry, runtime>>

StreamReturns(u) ==
  /\ call[u].at = "opened"
  /\ Goto(u, IF pool.generation = call[u].generation THEN "stream" ELSE "done")
  /\ UNCHANGED <<next_generation, pool, entry, runtime>>

-----------------------------------------------------------------------------
(* The calls that are made ... *)
Made ==
  \/ \E a \in Activations : ActivateStarts(a)
  \/ \E s \in Stops : StopInstalls(s)
  \/ \E u \in Lookups : LookupReads(u)

(* ... and how they go on. *)
Continues(c) ==
  \/ c \in Activations /\ (ActivateNumbers(c) \/ ActivateInstalls(c))
  \/ c \in Activations \cup Stops /\ (StopTakes(c) \/ StopJoins(c))
  \/ c \in Lookups /\ \/ \E node \in Nodes : LookupFinds(c, node)
                      \/ LookupLocks(c) \/ LookupStarts(c) \/ LookupChecks(c)
                      \/ LookupDiscards(c) \/ StreamOpens(c) \/ StreamReturns(c)

Next == Made \/ \E c \in Calls : Continues(c)

Spec == Init /\ [][Next]_vars

(* A call that was made is run to its end: tokio polls every ready task,   *)
(* and its mutex is first in, first out.                                   *)
Fairness == \A c \in Calls : SF_vars(Continues(c))

FairSpec == Spec /\ Fairness

-----------------------------------------------------------------------------
(* The state has the shape of the structs.                                 *)
TypeOK ==
  /\ next_generation \in Nat
  /\ pool \in [generation: Nat, profile: Activations \cup {Absent}]
  /\ entry \in [Entries -> [runtime: Starters \cup {Absent}, holder: Calls \cup {Absent}]]
  /\ runtime \in [Starters -> {"absent", "running", "stopped"}]
  /\ call \in [Calls -> Call]

(* The call that replaced profile p has not yet come to node n.            *)
WillBeStopped(e) ==
  \E c \in Activations \cup Stops :
    /\ call[c].at \in {"stopping", "joining"}
    /\ call[c].profile = e[1]
    /\ call[c].node <= e[2]

(* No runtime is ever orphaned: one that runs is kept by the active        *)
(* profile, by a profile that is being prepared or whose entry will still  *)
(* be visited by stop_state, or by a call that is about to keep or stop it.*)
NoRuntimeLeak ==
  \A r \in Starters : runtime[r] = "running" =>
    \/ \E e \in Entries :
         /\ entry[e].runtime = r
         /\ \/ e[1] = pool.profile
            \/ call[e[1]].at \in {"started", "numbered"}
            \/ WillBeStopped(e)
    \/ r \in Lookups /\ call[r].at \in {"checking", "discarding"}
    \/ \E c \in Activations \cup Stops : call[c].at = "joining" /\ call[c].runtime = r

(* A node is started once per profile: two lookups never run two           *)
(* connections for one entry.                                              *)
OneRuntimePerEntry ==
  \A r, q \in Lookups :
    /\ runtime[r] = "running" /\ runtime[q] = "running"
    /\ call[r].profile = call[q].profile /\ call[r].node = call[q].node
    => r = q

(* Every runtime has one keeper: none is orphaned, none is doubled.        *)
RuntimesOwned == NoRuntimeLeak /\ OneRuntimePerEntry

(* A stream is returned only from a runtime that the active profile owns:  *)
(* neither a slow start nor a slow open lets a superseded profile through. *)
StreamsFromActiveProfile ==
  [][\A u \in Lookups :
       call[u].at = "opened" /\ call'[u].at = "stream"
         => /\ runtime[call[u].runtime] = "running"
            /\ \E e \in Entries : e[1] = pool.profile /\ entry[e].runtime = call[u].runtime]_vars

(* Every call that was made comes to an end, although calls wait for the   *)
(* mutex of an entry while others hold it across awaits.                   *)
EveryCallReturns ==
  <>[](\A c \in Calls : call[c].at \in {"idle", "done", "stream"})
=============================================================================
