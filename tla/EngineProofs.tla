---------------------------- MODULE EngineProofs ----------------------------
(***************************************************************************)
(* Proofs about the client engine: its node pool (NodePool), the profiles  *)
(* it is given (ClientProfile), and its adapters' decisions: the TUN       *)
(* adapter's policy (TunPolicy) and the loopback proxy (ProxyAdapter).     *)
(*                                                                         *)
(* PoolInv has two halves.  The first is about numbers: a generation is    *)
(* installed once, so that a lookup which reads its generation again after *)
(* an await reads the same profile or a different number (SameGeneration). *)
(* The second is about places: every runtime has one entry it can be in,   *)
(* and the mutex of that entry is held by whoever is about to put it there *)
(* or has just taken it out (Holders).                                     *)
(*                                                                         *)
(* ProfileInv: a reference means one node, in the document and to the pool.*)
(*                                                                         *)
(* DecisionInv: a flow is decided on typed data, where the masks, suffixes *)
(* and ranges of the code match what the rules cover.                      *)
(*                                                                         *)
(* TableInv: the fake addresses are a circle that next_ipv4 goes round. An *)
(* address handed out d allocations ago is still so far ahead that         *)
(* FakeSpan - DnsCapacity - d free ones come before it (RecentFar).        *)
(*                                                                         *)
(* ProxyInv: what a local connection's task has done by the place it has   *)
(* come to; and the head it forwards, counted name by name.                *)
(***************************************************************************)
EXTENDS NodePool, ClientProfile, TunPolicy, ProxyAdapter, FiniteSetTheorems,
        SequenceTheorems, WellFoundedInduction, TLAPS

Stoppers == Activations \cup Stops

Shape ==
  /\ \A a \in Activations :
       call[a].at \in {"idle", "started", "numbered", "stopping", "joining", "done"}
  /\ \A s \in Stops : call[s].at \in {"idle", "stopping", "joining", "done"}
  /\ \A u \in Lookups :
       call[u].at \in {"idle", "found", "locked", "starting", "checking", "discarding",
                       "returned", "opened", "stream", "done"}
  /\ \A c \in Stoppers : call[c].at \in {"stopping", "joining"} =>
       call[c].profile \in Activations /\ call[c].node \in Nodes
  /\ \A u \in Lookups :
       call[u].at \in {"locked", "starting", "checking", "discarding", "returned", "opened"}
         => call[u].profile \in Activations /\ call[u].node \in Nodes

(* Generations are handed out once. *)
Numbers ==
  /\ pool.generation < next_generation
  /\ \A u \in Lookups : call[u].at # "idle" => call[u].generation < next_generation
  /\ \A a \in Activations : call[a].at = "numbered" =>
       /\ call[a].generation < next_generation
       /\ call[a].generation # pool.generation
       /\ \A u \in Lookups : call[u].at # "idle" => call[u].generation # call[a].generation
       /\ \A b \in Activations :
            call[b].at = "numbered" /\ call[b].generation = call[a].generation => b = a

(* The pool state of an activation is not shared before it is installed. *)
Unshared ==
  \A a \in Activations : call[a].at \in {"idle", "started", "numbered"} =>
    pool.profile # a /\ \A c \in Calls : call[c].profile # a

(* stop_state works on a profile that is not the active one. *)
Superseded ==
  \A c \in Stoppers : call[c].at \in {"stopping", "joining"} => call[c].profile # pool.profile

(* A lookup that reads its generation again reads its profile again. *)
SameGeneration ==
  \A u \in Lookups :
    /\ call[u].at \in {"locked", "starting", "checking", "discarding", "returned", "opened"}
    /\ pool.generation = call[u].generation
    => pool.profile = call[u].profile

(* Who holds the mutex of an entry, and that it is empty meanwhile. *)
Holds(c, e) ==
  /\ Entry(c) = e
  /\ \/ c \in Lookups /\ call[c].at \in {"starting", "checking", "discarding"}
     \/ c \in Stoppers /\ call[c].at = "joining"

Holders ==
  \A e \in Entries :
    /\ \A c \in Calls : entry[e].holder = c <=> Holds(c, e)
    /\ entry[e].holder # Absent => entry[e].runtime = Absent

(* The entry that a runtime is kept in, if it is kept. *)
KeptIn(r, e) ==
  \/ r \in Activations /\ e = <<r, DefaultNode>> /\ call[r].at # "idle"
  \/ r \in Lookups /\ e = Entry(r) /\ call[r].at \in {"returned", "opened", "stream", "done"}

Kept ==
  /\ \A e \in Entries : entry[e].runtime # Absent =>
       KeptIn(entry[e].runtime, e) /\ runtime[entry[e].runtime] = "running"
  /\ \A c \in Stoppers : call[c].at = "joining" => KeptIn(call[c].runtime, Entry(c))
  /\ \A u \in Lookups : call[u].at = "checking" => runtime[u] = "running"

(* While a lookup's generation is current, so is the runtime it found. *)
Current ==
  \A u \in Lookups :
    /\ call[u].at \in {"returned", "opened"}
    /\ pool.generation = call[u].generation
    => call[u].runtime # Absent /\ entry[Entry(u)].runtime = call[u].runtime

PoolInv ==
  /\ TypeOK /\ Shape /\ Numbers /\ Unshared /\ Superseded /\ SameGeneration
  /\ Holders /\ Kept /\ Current /\ NoRuntimeLeak

-----------------------------------------------------------------------------
EntryType == [runtime: Starters \cup {Absent}, holder: Calls \cup {Absent}]

(* What the steps of a call start from. *)
LEMMA Facts ==
  ASSUME PoolInv
  PROVE  /\ next_generation \in Nat /\ pool.generation \in Nat
         /\ pool.profile \in Activations \cup {Absent}
         /\ entry \in [Entries -> EntryType]
         /\ runtime \in [Starters -> {"absent", "running", "stopped"}]
         /\ call \in [Calls -> Call]
         /\ \A c \in Calls : call[c].generation \in Nat /\ call[c].node \in 0 .. LastNode
BY DEF PoolInv, TypeOK, EntryType, Call

(* Calls of the three kinds are different, and Absent is none of them.       *)
LEMMA Names ==
  /\ LastNode \in Nat \ {0} /\ DefaultNode \in Nodes
  /\ Absent \notin Calls /\ Absent \notin Starters /\ Absent \notin Activations
  /\ \A c \in Lookups : c \notin Stoppers
  /\ \A c \in Activations : c \notin Stops /\ c \in Calls /\ c \in Stoppers /\ c \in Starters
  /\ \A c \in Stops : c \in Calls /\ c \in Stoppers
  /\ \A c \in Lookups : c \in Calls /\ c \in Starters
  /\ \A p, n : <<p, n>> \in Entries <=> p \in Activations /\ n \in Nodes
BY NodePoolAssumption DEF Nodes, Calls, Starters, Stoppers, Entries

(* A call moves on. *)
LEMMA Moves ==
  ASSUME PoolInv, NEW c \in Calls,
         NEW a \in {"idle", "started", "numbered", "stopping", "joining", "found", "locked",
                    "starting", "checking", "discarding", "returned", "opened", "stream", "done"},
         Goto(c, a)
  PROVE  /\ call' \in [Calls -> Call]
         /\ call'[c].at = a /\ call'[c].generation = call[c].generation
         /\ call'[c].profile = call[c].profile /\ call'[c].node = call[c].node
         /\ call'[c].runtime = call[c].runtime
         /\ \A d \in Calls : d # c => call'[d] = call[d]
BY Facts DEF Goto, Call

(* The places that keep the runtime in entry e from being orphaned. *)
Anchored(e) ==
  \/ e[1] = pool.profile
  \/ call[e[1]].at \in {"started", "numbered"}
  \/ WillBeStopped(e)

(* The mutex of an entry has one holder. *)
LEMMA OneHolder ==
  ASSUME PoolInv, NEW c \in Calls, NEW d \in Calls, NEW e \in Entries, Holds(c, e), Holds(d, e)
  PROVE  c = d
BY DEF PoolInv, Holders

(* An entry that is held has no runtime and its holder is the call. *)
LEMMA HeldEmpty ==
  ASSUME PoolInv, NEW c \in Calls, NEW e \in Entries, Holds(c, e)
  PROVE  entry[e].holder = c /\ entry[e].runtime = Absent
BY Names DEF PoolInv, Holders

(* A runtime is in one entry, and in none while it is joined. *)
LEMMA OnePlace ==
  ASSUME NEW r, NEW e, NEW f, KeptIn(r, e), KeptIn(r, f)
  PROVE  e = f
BY Names DEF KeptIn, Stoppers

(* Steps of a lookup that changes nothing but where it is, and neither     *)
(* takes nor holds the mutex of an entry.                                  *)
LEMMA LookupMoves ==
  ASSUME PoolInv, NEW u \in Lookups,
         call' \in [Calls -> Call], \A d \in Calls : d # u => call'[d] = call[d],
         UNCHANGED <<next_generation, pool, entry, runtime>>,
         call[u].at \notin {"starting", "checking", "discarding"},
         call'[u].at \in {"found", "locked", "returned", "opened", "stream", "done"},
         call'[u].generation < next_generation,
         \A a \in Activations : call[a].at = "numbered" => call'[u].generation # call[a].generation,
         \A a \in Activations : call[a].at \in {"idle", "started", "numbered"}
                                  => call'[u].profile # a,
         call[u].at \in {"returned", "opened", "stream", "done"}
           => /\ call'[u].at \in {"returned", "opened", "stream", "done"}
              /\ Entry(u)' = Entry(u),
         call'[u].at \in {"locked", "returned", "opened"} =>
           /\ call'[u].profile \in Activations /\ call'[u].node \in Nodes
           /\ pool.generation = call'[u].generation => pool.profile = call'[u].profile,
         call'[u].at \in {"returned", "opened"} /\ pool.generation = call'[u].generation
           => call'[u].runtime # Absent /\ entry[Entry(u)'].runtime = call'[u].runtime
  PROVE  PoolInv'
<1>1. u \notin Stoppers /\ u \notin Activations /\ u \in Calls
      /\ \A c \in Stoppers : c \in Calls /\ c # u
      /\ \A a \in Activations : a \in Calls /\ a # u
  BY Names DEF Stoppers, Calls
<1>2. TypeOK'
  BY DEF PoolInv, TypeOK
<1>3. Shape'
  BY <1>1 DEF PoolInv, Shape, Calls, Stoppers
<1>4. Numbers'
  BY <1>1 DEF PoolInv, Numbers, Calls
<1>5. Unshared' /\ Superseded'
  BY <1>1 DEF PoolInv, Unshared, Superseded, Calls, Stoppers
<1>6. SameGeneration'
  BY <1>1 DEF PoolInv, SameGeneration, Calls
<1>7. \A c \in Calls : c # u => Entry(c)' = Entry(c)
  BY DEF Entry
<1>8. Holders'
  <2>1. \A c \in Calls, e \in Entries : Holds(c, e)' <=> Holds(c, e)
    BY <1>1, <1>7 DEF Holds
  <2> QED BY <2>1 DEF PoolInv, Holders
<1>9. Kept'
  <2>1. \A r, e : r \in Starters /\ KeptIn(r, e) => KeptIn(r, e)'
    BY <1>1, <1>7 DEF KeptIn, Calls
  <2>2. \A e \in Entries : entry[e].runtime # Absent => entry[e].runtime \in Starters
    BY Facts DEF EntryType
  <2>3. \A c \in Stoppers : call[c].at = "joining" => call[c].runtime \in Starters
    BY DEF PoolInv, Kept, KeptIn, Starters
  <2>4. \A v \in Lookups : call'[v].at = "checking" => runtime'[v] = "running"
    BY <1>1 DEF PoolInv, Kept, Calls
  <2> QED BY <1>1, <1>7, <2>1, <2>2, <2>3, <2>4 DEF PoolInv, Kept
<1>10. Current'
  BY <1>1, <1>7 DEF PoolInv, Current, Calls
<1>11. NoRuntimeLeak'
  <2>1. \A e \in Entries : Anchored(e) => Anchored(e)'
    BY <1>1 DEF Anchored, WillBeStopped, Entries, Stoppers
  <2> QED BY <1>1, <2>1 DEF PoolInv, NoRuntimeLeak, Anchored, Stoppers, Calls
<1> QED BY <1>2, <1>3, <1>4, <1>5, <1>6, <1>8, <1>9, <1>10, <1>11 DEF PoolInv

(* generation(): what is read is a number that was installed. *)
LEMMA ReadsKeep ==
  ASSUME PoolInv, NEW u \in Lookups, LookupReads(u)
  PROVE  PoolInv'
<1>1. /\ call[u].at = "idle" /\ u \in Calls
      /\ UNCHANGED <<next_generation, pool, entry, runtime>>
  BY Names DEF LookupReads
<1>2. /\ call' \in [Calls -> Call] /\ \A d \in Calls : d # u => call'[d] = call[d]
      /\ call'[u].at = "found" /\ call'[u].generation = pool.generation
      /\ call'[u].profile = call[u].profile
  <2>1. PICK g \in Nat : g = pool.generation BY Facts
  <2>2. call \in [Calls -> Call] /\ call[u] \in Call BY <1>1, Facts
  <2> DEFINE moved == [call[u] EXCEPT !.at = "found", !.generation = g]
  <2>3. moved \in Call /\ moved.at = "found" /\ moved.generation = g /\ moved.profile = call[u].profile
    BY ONLY <2>1, <2>2 DEF Call
  <2>4. call' = [call EXCEPT ![u] = moved] BY <2>1, <2>2 DEF LookupReads
  <2> HIDE DEF moved
  <2>5. call' \in [Calls -> Call] /\ call'[u] = moved /\ \A d \in Calls : d # u => call'[d] = call[d]
    BY <1>1, <2>2, <2>3, <2>4
  <2> QED BY <2>1, <2>3, <2>5
<1>3. /\ pool.generation < next_generation
      /\ \A a \in Activations : call[a].at = "numbered" => pool.generation # call[a].generation
      /\ \A a \in Activations : call[a].at \in {"idle", "started", "numbered"}
                                  => call[u].profile # a
  BY <1>1 DEF PoolInv, Numbers, Unshared
<1> QED BY <1>1, <1>2, <1>3, LookupMoves

(* The entry is found in the pool state of the generation that was read.   *)
LEMMA FindsKeep ==
  ASSUME PoolInv, NEW u \in Lookups, NEW node \in Nodes, LookupFinds(u, node)
  PROVE  PoolInv'
<1>1. /\ call[u].at = "found" /\ u \in Calls
      /\ UNCHANGED <<next_generation, pool, entry, runtime>>
  BY Names DEF LookupFinds
<1>2. node \in 0 .. LastNode
  BY Names DEF Nodes
<1>3. /\ call' \in [Calls -> Call] /\ \A d \in Calls : d # u => call'[d] = call[d]
      /\ call'[u].generation = call[u].generation
      /\ \/ call'[u].at = "done" /\ call'[u].profile = call[u].profile
         \/ /\ call'[u].at = "locked" /\ call'[u].profile = pool.profile
            /\ call'[u].node = node /\ pool.profile # Absent
            /\ pool.generation = call[u].generation
  <2>1. CASE pool.generation # call[u].generation \/ pool.profile = Absent
    BY <1>1, <2>1, Facts DEF LookupFinds, Call
  <2>2. CASE ~(pool.generation # call[u].generation \/ pool.profile = Absent)
    <3>1. call' = [call EXCEPT ![u].at = "locked", ![u].profile = pool.profile, ![u].node = node]
      BY <2>2 DEF LookupFinds
    <3>2. call[u] \in Call
      BY <1>1, Facts
    <3>3. /\ call'[u].at = "locked" /\ call'[u].profile = pool.profile /\ call'[u].node = node
          /\ call'[u].generation = call[u].generation
          /\ \A d \in Calls : d # u => call'[d] = call[d]
      BY <1>1, <3>1, <3>2, Facts DEF Call
    <3>4. call' \in [Calls -> Call]
      BY <1>1, <1>2, <3>1, <3>2, Facts DEF Call
    <3> QED BY <2>2, <3>3, <3>4
  <2> QED BY <2>1, <2>2
<1>4. /\ call[u].generation < next_generation
      /\ \A a \in Activations : call[a].at = "numbered" => call[u].generation # call[a].generation
      /\ \A a \in Activations : call[a].at \in {"idle", "started", "numbered"}
                                  => call[u].profile # a /\ pool.profile # a
  BY <1>1 DEF PoolInv, Numbers, Unshared
<1>5. call'[u].at = "locked" => call'[u].profile \in Activations /\ call'[u].node \in Nodes
  BY <1>3, Facts
<1> QED BY <1>1, <1>3, <1>4, <1>5, LookupMoves

(* open_stream on the runtime, and the last look at the generation.        *)
LEMMA StreamsKeep ==
  ASSUME PoolInv, NEW u \in Lookups, StreamOpens(u) \/ StreamReturns(u)
  PROVE  PoolInv'
<1>1. /\ call[u].at \in {"returned", "opened"} /\ u \in Calls
      /\ UNCHANGED <<next_generation, pool, entry, runtime>>
  BY Names DEF StreamOpens, StreamReturns
<1>2. PICK a \in {"opened", "stream", "done"} : Goto(u, a)
  BY DEF StreamOpens, StreamReturns
<1>3. /\ call' \in [Calls -> Call] /\ \A d \in Calls : d # u => call'[d] = call[d]
      /\ call'[u].at = a /\ call'[u].generation = call[u].generation
      /\ call'[u].profile = call[u].profile /\ call'[u].node = call[u].node
      /\ call'[u].runtime = call[u].runtime
  BY <1>1, <1>2, Moves
<1>4. Entry(u)' = Entry(u)
  BY <1>3 DEF Entry
<1>5. /\ call[u].generation < next_generation
      /\ \A b \in Activations : call[b].at = "numbered" => call[u].generation # call[b].generation
      /\ \A b \in Activations : call[b].at \in {"idle", "started", "numbered"}
                                  => call[u].profile # b
  BY <1>1 DEF PoolInv, Numbers, Unshared
<1>6. /\ call[u].profile \in Activations /\ call[u].node \in Nodes
      /\ pool.generation = call[u].generation => pool.profile = call[u].profile
      /\ pool.generation = call[u].generation
           => call[u].runtime # Absent /\ entry[Entry(u)].runtime = call[u].runtime
  BY <1>1 DEF PoolInv, Shape, SameGeneration, Current
<1> QED BY <1>1, <1>3, <1>4, <1>5, <1>6, LookupMoves

(* Steps of a lookup that takes, holds or leaves the mutex of its entry:   *)
(* what the rest of the pool sees of them.                                 *)
LEMMA LookupHolds ==
  ASSUME PoolInv, NEW u \in Lookups, call' \in [Calls -> Call],
         \A d \in Calls : d # u => call'[d] = call[d],
         UNCHANGED <<next_generation, pool>>,
         call[u].at \in {"locked", "starting", "checking", "discarding"},
         call'[u].at \in {"starting", "checking", "discarding", "returned", "done"},
         call'[u].generation = call[u].generation,
         call'[u].profile = call[u].profile, call'[u].node = call[u].node,
         entry' \in [Entries -> EntryType],
         \A e \in Entries : e # Entry(u) => entry'[e] = entry[e],
         runtime' \in [Starters -> {"absent", "running", "stopped"}],
         \A r \in Starters : r # u => runtime'[r] = runtime[r]
  PROVE  /\ TypeOK' /\ Shape' /\ Numbers' /\ Unshared' /\ Superseded' /\ SameGeneration'
         /\ Entry(u) \in Entries
         /\ \A c \in Calls : Entry(c)' = Entry(c)
         /\ \A c \in Calls, e \in Entries : c # u => Holds(c, e)' = Holds(c, e)
         /\ \A r \in Starters, e \in Entries : r # u => KeptIn(r, e)' = KeptIn(r, e)
         /\ \A e \in Entries : Anchored(e) => Anchored(e)'
         /\ \A e \in Entries : ~KeptIn(u, e)
<1>1. u \notin Stoppers /\ u \notin Activations /\ u \in Calls /\ u \in Starters
      /\ \A c \in Stoppers : c \in Calls /\ c # u
      /\ \A a \in Activations : a \in Calls /\ a # u
  BY Names DEF Stoppers, Calls
<1>2. TypeOK'
  BY DEF PoolInv, TypeOK, EntryType
<1>3. Shape'
  BY <1>1 DEF PoolInv, Shape, Calls, Stoppers
<1>4. Numbers'
  BY <1>1 DEF PoolInv, Numbers, Calls
<1>5. Unshared' /\ Superseded'
  BY <1>1 DEF PoolInv, Unshared, Superseded, Calls, Stoppers
<1>6. SameGeneration'
  BY <1>1 DEF PoolInv, SameGeneration, Calls
<1>7. \A c \in Calls : Entry(c)' = Entry(c)
  BY DEF Entry
<1>8. Entry(u) \in Entries
  BY Names DEF PoolInv, Shape, Entry
<1>9. \A c \in Calls, e \in Entries : c # u => Holds(c, e)' = Holds(c, e)
  BY <1>7 DEF Holds
<1>10. \A r \in Starters, e \in Entries : r # u => KeptIn(r, e)' = KeptIn(r, e)
  BY <1>7 DEF KeptIn, Starters, Calls
<1>11. \A e \in Entries : Anchored(e) => Anchored(e)'
  BY <1>1 DEF Anchored, WillBeStopped, Entries, Stoppers
<1>12. \A e \in Entries : ~KeptIn(u, e)
  BY <1>1 DEF KeptIn
<1> QED BY <1>2, <1>3, <1>4, <1>5, <1>6, <1>7, <1>8, <1>9, <1>10, <1>11, <1>12

(* The runtime of lookup u itself is kept by nobody while u is at work on  *)
(* it.                                                                     *)
LEMMA OwnRuntime ==
  ASSUME PoolInv, NEW u \in Lookups, \A e \in Entries : ~KeptIn(u, e)
  PROVE  /\ \A e \in Entries : entry[e].runtime # u
         /\ \A c \in Stoppers : call[c].at = "joining" => call[c].runtime # u
<1>1. \A e \in Entries : entry[e].runtime # u
  BY Names DEF PoolInv, Kept
<1>2. \A c \in Stoppers : call[c].at = "joining" => Entry(c) \in Entries
  BY Names DEF PoolInv, Shape, Entry
<1> QED BY <1>1, <1>2 DEF PoolInv, Kept

(* The end of a step of lookup u on its entry: given what it does to the   *)
(* entry, the mutex and its own runtime, the rest follows.                 *)
LEMMA LookupStep ==
  ASSUME PoolInv, NEW u \in Lookups, call' \in [Calls -> Call],
         \A d \in Calls : d # u => call'[d] = call[d],
         UNCHANGED <<next_generation, pool>>,
         call[u].at \in {"locked", "starting", "checking", "discarding"},
         call'[u].at \in {"starting", "checking", "discarding", "returned", "done"},
         call'[u].generation = call[u].generation,
         call'[u].profile = call[u].profile, call'[u].node = call[u].node,
         entry' \in [Entries -> EntryType],
         \A e \in Entries : e # Entry(u) => entry'[e] = entry[e],
         runtime' \in [Starters -> {"absent", "running", "stopped"}],
         \A r \in Starters : r # u => runtime'[r] = runtime[r],
         \* the entry was free and empty, or held by u
         entry[Entry(u)].runtime = Absent,
         entry[Entry(u)].holder \in {Absent, u},
         entry'[Entry(u)].holder = IF call'[u].at \in {"starting", "checking", "discarding"}
                                   THEN u ELSE Absent,
         entry'[Entry(u)].runtime = IF call'[u].at = "returned" THEN u ELSE Absent,
         call'[u].at = "returned" => /\ runtime'[u] = "running" /\ call'[u].runtime = u
                                     /\ pool.profile = call[u].profile,
         call'[u].at \in {"starting", "done"} => runtime'[u] # "running",
         call'[u].at = "checking" => runtime'[u] = "running"
  PROVE  PoolInv'
<1>1. /\ TypeOK' /\ Shape' /\ Numbers' /\ Unshared' /\ Superseded' /\ SameGeneration'
      /\ Entry(u) \in Entries
      /\ \A c \in Calls : Entry(c)' = Entry(c)
      /\ \A c \in Calls, e \in Entries : c # u => Holds(c, e)' = Holds(c, e)
      /\ \A r \in Starters, e \in Entries : r # u => KeptIn(r, e)' = KeptIn(r, e)
      /\ \A e \in Entries : Anchored(e) => Anchored(e)'
      /\ \A e \in Entries : ~KeptIn(u, e)
  BY LookupHolds
<1>2. /\ \A e \in Entries : entry[e].runtime # u
      /\ \A c \in Stoppers : call[c].at = "joining" => call[c].runtime # u
  BY <1>1, OwnRuntime
<1>3. u \in Calls /\ u \in Starters /\ u # Absent /\ u \notin Stoppers /\ u \notin Activations
  BY Names DEF Stoppers
<1>4. Holders'
  <2> SUFFICES ASSUME NEW e \in Entries
               PROVE  /\ \A c \in Calls : entry'[e].holder = c <=> Holds(c, e)'
                      /\ entry'[e].holder # Absent => entry'[e].runtime = Absent
    BY DEF Holders
  <2>1. /\ \A c \in Calls : entry[e].holder = c <=> Holds(c, e)
        /\ entry[e].holder # Absent => entry[e].runtime = Absent
    BY DEF PoolInv, Holders
  <2>2. CASE e # Entry(u)
    <3>1. ~Holds(u, e) /\ ~Holds(u, e)'
      BY <1>1, <1>3, <2>2 DEF Holds
    <3> QED BY <1>1, <2>1, <2>2, <3>1
  <2>3. CASE e = Entry(u)
    <3>1. Holds(u, e)' <=> call'[u].at \in {"starting", "checking", "discarding"}
      BY <1>1, <1>3, <2>3 DEF Holds
    <3>2. \A c \in Calls : c # u => ~Holds(c, e)'
      BY <1>1, <2>1, <2>3, Names
    <3>3. entry'[e].holder # Absent => call'[u].at \in {"starting", "checking", "discarding"}
      BY <2>3
    <3> QED BY <1>3, <2>3, <3>1, <3>2, <3>3, Names
  <2> QED BY <2>2, <2>3
<1>5. Kept'
  <2>1. ASSUME NEW e \in Entries, entry'[e].runtime # Absent
        PROVE  KeptIn(entry[e].runtime, e)' /\ (runtime[entry[e].runtime] = "running")'
    <3>1. CASE e = Entry(u)
      <4>1. entry'[e].runtime = u /\ call'[u].at = "returned"
        BY <2>1, <3>1
      <4> QED BY <1>1, <1>3, <3>1, <4>1 DEF KeptIn
    <3>2. CASE e # Entry(u)
      <4>1. entry'[e] = entry[e] /\ entry[e].runtime \in Starters /\ entry[e].runtime # u
        BY <1>2, <2>1, <3>2, Facts DEF EntryType
      <4> QED BY <1>1, <2>1, <4>1 DEF PoolInv, Kept
    <3> QED BY <3>1, <3>2
  <2>2. ASSUME NEW c \in Stoppers, call'[c].at = "joining"
        PROVE  KeptIn(call[c].runtime, Entry(c))'
    <3>1. c # u /\ c \in Calls /\ call'[c] = call[c]
      BY <1>3, Names DEF Stoppers, Calls
    <3>2. KeptIn(call[c].runtime, Entry(c)) /\ call[c].runtime # u /\ call[c].runtime \in Starters
      BY <1>2, <2>2, <3>1 DEF PoolInv, Kept, KeptIn, Starters
    <3>3. Entry(c) \in Entries
      BY <2>2, <3>1, Names DEF PoolInv, Shape, Entry
    <3> QED BY <1>1, <3>1, <3>2, <3>3
  <2>3. \A v \in Lookups : call'[v].at = "checking" => runtime'[v] = "running"
    BY Names DEF PoolInv, Kept
  <2> QED BY <2>1, <2>2, <2>3 DEF Kept
<1>6. Current'
  <2> SUFFICES ASSUME NEW v \in Lookups, call'[v].at \in {"returned", "opened"},
                      pool.generation = call'[v].generation
               PROVE  call'[v].runtime # Absent /\ entry'[Entry(v)'].runtime = call'[v].runtime
    BY DEF Current
  <2>1. CASE v = u
    BY <1>1, <1>3, <2>1
  <2>2. CASE v # u
    <3>1. v \in Calls /\ call'[v] = call[v] /\ Entry(v)' = Entry(v)
      BY <1>1, <2>2, Names
    <3>2. call[v].runtime # Absent /\ entry[Entry(v)].runtime = call[v].runtime
      BY <3>1 DEF PoolInv, Current
    <3>3. Entry(v) \in Entries
      BY <3>1, Names DEF PoolInv, Shape, Entry
    <3> QED BY <3>1, <3>2, <3>3
  <2> QED BY <2>1, <2>2
<1>7. NoRuntimeLeak'
  <2> SUFFICES ASSUME NEW r \in Starters, runtime'[r] = "running"
               PROVE  \/ \E e \in Entries : entry'[e].runtime = r /\ Anchored(e)'
                      \/ r \in Lookups /\ call'[r].at \in {"checking", "discarding"}
                      \/ \E c \in Stoppers : call'[c].at = "joining" /\ call'[c].runtime = r
    BY DEF NoRuntimeLeak, Anchored, Stoppers
  <2>1. CASE r = u
    <3>1. CASE call'[u].at = "returned"
      <4>1. Entry(u)[1] = pool.profile
        BY <3>1 DEF Entry
      <4> QED BY <1>1, <2>1, <3>1, <4>1 DEF Anchored
    <3>2. CASE call'[u].at # "returned"
      BY <2>1, <3>2
    <3> QED BY <3>1, <3>2
  <2>2. CASE r # u
    <3>1. \/ \E e \in Entries : entry[e].runtime = r /\ Anchored(e)
          \/ r \in Lookups /\ call[r].at \in {"checking", "discarding"}
          \/ \E c \in Stoppers : call[c].at = "joining" /\ call[c].runtime = r
      BY <2>2 DEF PoolInv, NoRuntimeLeak, Anchored, Stoppers
    <3>2. \A e \in Entries : entry[e].runtime = r => entry'[e].runtime = r
      BY Names
    <3>3. \A c \in Calls : c # u => call'[c] = call[c]
      OBVIOUS
    <3> QED BY <1>1, <1>3, <2>2, <3>1, <3>2, <3>3, Names DEF Calls, Stoppers
  <2> QED BY <2>1, <2>2
<1> QED BY <1>1, <1>4, <1>5, <1>6, <1>7 DEF PoolInv

(* What a lookup at work on its entry knows: the entry is one of the pool, *)
(* and its own runtime runs only between the start and the decision.       *)
LEMMA AtWork ==
  ASSUME PoolInv, NEW u \in Lookups,
         call[u].at \in {"locked", "starting", "checking", "discarding"}
  PROVE  /\ u \in Calls /\ u \in Starters /\ u # Absent /\ Entry(u) \in Entries
         /\ call[u].at \in {"locked", "starting"} => runtime[u] # "running"
         /\ call[u].at # "locked"
              => entry[Entry(u)].holder = u /\ entry[Entry(u)].runtime = Absent
<1>1. u \in Calls /\ u \in Starters /\ u # Absent /\ u \notin Activations /\ Entry(u) \in Entries
  BY Names DEF PoolInv, Shape, Entry, Stoppers
<1>2. \A e \in Entries : ~KeptIn(u, e)
  BY <1>1 DEF KeptIn
<1>3. /\ \A e \in Entries : entry[e].runtime # u
      /\ \A c \in Stoppers : call[c].at = "joining" => call[c].runtime # u
  BY <1>2, OwnRuntime
<1>4. call[u].at \in {"locked", "starting"} => runtime[u] # "running"
  BY <1>1, <1>3 DEF PoolInv, NoRuntimeLeak, Stoppers
<1>5. call[u].at # "locked" => Holds(u, Entry(u))
  BY DEF Holds
<1> QED BY <1>1, <1>4, <1>5, HeldEmpty

(* The mutex of the entry is acquired: its runtime is used, or started.    *)
LEMMA LocksKeep ==
  ASSUME PoolInv, NEW u \in Lookups, LookupLocks(u)
  PROVE  PoolInv'
<1> DEFINE e == Entry(u)
<1>1. /\ call[u].at = "locked" /\ entry[e].holder = Absent
      /\ UNCHANGED <<next_generation, pool, runtime>>
  BY DEF LookupLocks
<1>2. u \in Calls /\ u \in Starters /\ u # Absent /\ e \in Entries /\ runtime[u] # "running"
  BY <1>1, AtWork
<1>3. CASE entry[e].runtime # Absent
  <2>1. /\ call' = [call EXCEPT ![u].at = "returned", ![u].runtime = entry[e].runtime]
        /\ UNCHANGED entry
    BY <1>3 DEF LookupLocks
  <2>2. entry[e].runtime \in Starters
    BY <1>2, <1>3, Facts DEF EntryType
  <2>3. call[u] \in Call
    BY <1>2, Facts
  <2>4. /\ call' \in [Calls -> Call] /\ \A d \in Calls : d # u => call'[d] = call[d]
        /\ call'[u].at = "returned" /\ call'[u].generation = call[u].generation
        /\ call'[u].profile = call[u].profile /\ call'[u].node = call[u].node
        /\ call'[u].runtime = entry[e].runtime
    BY <1>2, <2>1, <2>2, <2>3, Facts DEF Call
  <2>5. Entry(u)' = e
    BY <2>4 DEF Entry
  <2>6. /\ call[u].generation < next_generation
        /\ \A b \in Activations : call[b].at = "numbered" => call[u].generation # call[b].generation
        /\ \A b \in Activations : call[b].at \in {"idle", "started", "numbered"}
                                    => call[u].profile # b
    BY <1>1, <1>2 DEF PoolInv, Numbers, Unshared
  <2>7. /\ call[u].profile \in Activations /\ call[u].node \in Nodes
        /\ pool.generation = call[u].generation => pool.profile = call[u].profile
    BY <1>1 DEF PoolInv, Shape, SameGeneration
  <2> HIDE DEF e
  <2> QED BY <1>1, <1>3, <2>1, <2>4, <2>5, <2>6, <2>7, LookupMoves
<1>4. CASE entry[e].runtime = Absent
  <2>1. Goto(u, "starting") /\ entry' = [entry EXCEPT ![e].holder = u]
    BY <1>4 DEF LookupLocks
  <2>2. /\ entry' \in [Entries -> EntryType] /\ \A f \in Entries : f # e => entry'[f] = entry[f]
        /\ entry'[e].holder = u /\ entry'[e].runtime = Absent
    BY <1>2, <1>4, <2>1, Facts DEF EntryType
  <2>3. /\ call' \in [Calls -> Call] /\ \A d \in Calls : d # u => call'[d] = call[d]
        /\ call'[u].at = "starting" /\ call'[u].generation = call[u].generation
        /\ call'[u].profile = call[u].profile /\ call'[u].node = call[u].node
    BY <1>2, <2>1, Moves
  <2> QED BY <1>1, <1>2, <1>4, <2>2, <2>3, Facts, LookupStep
<1> QED BY <1>3, <1>4

(* factory.start, under the mutex: it runs, or the mutex is left.          *)
LEMMA StartsKeep ==
  ASSUME PoolInv, NEW u \in Lookups, LookupStarts(u)
  PROVE  PoolInv'
<1> DEFINE e == Entry(u)
<1>1. call[u].at = "starting" /\ UNCHANGED <<next_generation, pool>>
  BY DEF LookupStarts
<1>2. /\ u \in Calls /\ u \in Starters /\ u # Absent /\ e \in Entries /\ runtime[u] # "running"
      /\ entry[e].holder = u /\ entry[e].runtime = Absent
  BY <1>1, AtWork
<1>3. CASE /\ runtime' = [runtime EXCEPT ![u] = "running"]
           /\ Goto(u, "checking") /\ UNCHANGED entry
  <2>1. /\ call' \in [Calls -> Call] /\ \A d \in Calls : d # u => call'[d] = call[d]
        /\ call'[u].at = "checking" /\ call'[u].generation = call[u].generation
        /\ call'[u].profile = call[u].profile /\ call'[u].node = call[u].node
    BY <1>2, <1>3, Moves
  <2>2. /\ runtime' \in [Starters -> {"absent", "running", "stopped"}]
        /\ \A r \in Starters : r # u => runtime'[r] = runtime[r]
    BY <1>2, <1>3, Facts
  <2> QED BY <1>1, <1>2, <1>3, <2>1, <2>2, Facts, LookupStep
<1>4. CASE /\ Goto(u, "done") /\ entry' = [entry EXCEPT ![Entry(u)].holder = Absent]
           /\ UNCHANGED runtime
  <2>1. /\ call' \in [Calls -> Call] /\ \A d \in Calls : d # u => call'[d] = call[d]
        /\ call'[u].at = "done" /\ call'[u].generation = call[u].generation
        /\ call'[u].profile = call[u].profile /\ call'[u].node = call[u].node
    BY <1>2, <1>4, Moves
  <2>2. /\ entry' \in [Entries -> EntryType] /\ \A f \in Entries : f # e => entry'[f] = entry[f]
        /\ entry'[e].holder = Absent /\ entry'[e].runtime = Absent
    BY <1>2, <1>4, Facts DEF EntryType
  <2> QED BY <1>1, <1>2, <1>4, <2>1, <2>2, Facts, LookupStep
<1> QED BY <1>3, <1>4 DEF LookupStarts

(* The generation is read again: the runtime is kept for the profile that  *)
(* is active, or stopped.                                                  *)
LEMMA ChecksKeep ==
  ASSUME PoolInv, NEW u \in Lookups, LookupChecks(u)
  PROVE  PoolInv'
<1> DEFINE e == Entry(u)
<1>1. call[u].at = "checking" /\ UNCHANGED <<next_generation, pool, runtime>>
  BY DEF LookupChecks
<1>2. /\ u \in Calls /\ u \in Starters /\ u # Absent /\ e \in Entries
      /\ entry[e].holder = u /\ entry[e].runtime = Absent
  BY <1>1, AtWork
<1>3. CASE pool.generation # call[u].generation
  <2>1. Goto(u, "discarding") /\ UNCHANGED entry
    BY <1>3 DEF LookupChecks
  <2>2. /\ call' \in [Calls -> Call] /\ \A d \in Calls : d # u => call'[d] = call[d]
        /\ call'[u].at = "discarding" /\ call'[u].generation = call[u].generation
        /\ call'[u].profile = call[u].profile /\ call'[u].node = call[u].node
    BY <1>2, <2>1, Moves
  <2> QED BY <1>1, <1>2, <2>1, <2>2, Facts, LookupStep
<1>4. CASE pool.generation = call[u].generation
  <2>1. /\ call' = [call EXCEPT ![u].at = "returned", ![u].runtime = u]
        /\ entry' = [entry EXCEPT ![e] = [runtime |-> u, holder |-> Absent]]
    BY <1>4 DEF LookupChecks
  <2>2. call[u] \in Call
    BY <1>2, Facts
  <2>3. /\ call' \in [Calls -> Call] /\ \A d \in Calls : d # u => call'[d] = call[d]
        /\ call'[u].at = "returned" /\ call'[u].generation = call[u].generation
        /\ call'[u].profile = call[u].profile /\ call'[u].node = call[u].node
        /\ call'[u].runtime = u
    BY <1>2, <2>1, <2>2, Facts DEF Call
  <2>4. /\ entry' \in [Entries -> EntryType] /\ \A f \in Entries : f # e => entry'[f] = entry[f]
        /\ entry'[e].holder = Absent /\ entry'[e].runtime = u
    BY <1>2, <2>1, Facts DEF EntryType
  <2>5. pool.profile = call[u].profile
    BY <1>1, <1>4 DEF PoolInv, SameGeneration
  <2>6. runtime[u] = "running"
    BY <1>1 DEF PoolInv, Kept
  <2> QED BY <1>1, <1>2, <2>3, <2>4, <2>5, <2>6, Facts, LookupStep
<1> QED BY <1>3, <1>4

(* A lookup that came too late stops the runtime it started.               *)
LEMMA DiscardsKeep ==
  ASSUME PoolInv, NEW u \in Lookups, LookupDiscards(u)
  PROVE  PoolInv'
<1> DEFINE e == Entry(u)
<1>1. /\ call[u].at = "discarding" /\ UNCHANGED <<next_generation, pool>> /\ Goto(u, "done")
      /\ runtime' = [runtime EXCEPT ![u] = "stopped"]
      /\ entry' = [entry EXCEPT ![e].holder = Absent]
  BY DEF LookupDiscards
<1>2. /\ u \in Calls /\ u \in Starters /\ u # Absent /\ e \in Entries
      /\ entry[e].holder = u /\ entry[e].runtime = Absent
  BY <1>1, AtWork
<1>3. /\ call' \in [Calls -> Call] /\ \A d \in Calls : d # u => call'[d] = call[d]
      /\ call'[u].at = "done" /\ call'[u].generation = call[u].generation
      /\ call'[u].profile = call[u].profile /\ call'[u].node = call[u].node
  BY <1>1, <1>2, Moves
<1>4. /\ entry' \in [Entries -> EntryType] /\ \A f \in Entries : f # e => entry'[f] = entry[f]
      /\ entry'[e].holder = Absent /\ entry'[e].runtime = Absent
  BY <1>1, <1>2, Facts DEF EntryType
<1>5. /\ runtime' \in [Starters -> {"absent", "running", "stopped"}] /\ runtime'[u] = "stopped"
      /\ \A r \in Starters : r # u => runtime'[r] = runtime[r]
  BY <1>1, <1>2, Facts
<1> QED BY <1>1, <1>2, <1>3, <1>4, <1>5, Facts, LookupStep

-----------------------------------------------------------------------------
(* The entries of a profile that is still being prepared are its own: they *)
(* are free, and empty until the default node is started.                  *)
LEMMA Private ==
  ASSUME PoolInv, NEW a \in Activations, call[a].at = "idle"
  PROVE  /\ <<a, DefaultNode>> \in Entries
         /\ entry[<<a, DefaultNode>>] = [runtime |-> Absent, holder |-> Absent]
<1> DEFINE e == <<a, DefaultNode>>
<1>1. e \in Entries
  BY Names
<1>2. \A c \in Calls : Entry(c) # e
  BY DEF PoolInv, Unshared, Entry
<1>3. entry[e].holder = Absent
  BY <1>1, <1>2, Facts DEF PoolInv, Holders, Holds, EntryType
<1>4. entry[e].runtime = Absent
  <2> SUFFICES ASSUME entry[e].runtime # Absent
               PROVE  FALSE
    OBVIOUS
  <2>1. KeptIn(entry[e].runtime, e)
    BY <1>1 DEF PoolInv, Kept
  <2> QED BY <1>2, <2>1, Names DEF KeptIn
<1>5. entry[e] \in EntryType
  BY <1>1, Facts
<1> QED BY <1>1, <1>3, <1>4, <1>5 DEF EntryType

(* activate before it installs: the default node is started, and the       *)
(* generation taken, where nobody else can see.                            *)
LEMMA Prepares ==
  ASSUME PoolInv, NEW a \in Activations, call' \in [Calls -> Call],
         \A d \in Calls : d # a => call'[d] = call[d],
         UNCHANGED pool, next_generation' \in {next_generation, next_generation + 1},
         call[a].at \in {"idle", "started"}, call'[a].at \in {"started", "numbered", "done"},
         call[a].at = "started" => call'[a].at = "numbered",
         call'[a].profile = call[a].profile, call'[a].node = call[a].node,
         call'[a].at = "numbered" => /\ call'[a].generation = next_generation
                                     /\ next_generation' = next_generation + 1,
         \/ UNCHANGED <<entry, runtime>>
         \/ /\ call[a].at = "idle" /\ call'[a].at = "started"
            /\ entry' = [entry EXCEPT ![<<a, DefaultNode>>].runtime = a]
            /\ runtime' = [runtime EXCEPT ![a] = "running"]
  PROVE  PoolInv'
<1> DEFINE e == <<a, DefaultNode>>
<1>1. /\ a \in Calls /\ a \in Stoppers /\ a \in Starters /\ a # Absent /\ a \notin Stops
      /\ a \notin Lookups /\ e \in Entries
      /\ \A u \in Lookups : u \in Calls /\ u # a
      /\ \A c \in Calls : call[c].profile # a
  BY Names DEF PoolInv, Unshared
<1>2. \A c \in Calls : Entry(c)' = Entry(c) /\ Entry(c) # e
  BY <1>1 DEF Entry
<1>3. /\ entry' \in [Entries -> EntryType]
      /\ \A f \in Entries : f # e => entry'[f] = entry[f]
      /\ entry'[e].holder = entry[e].holder
      /\ entry'[e].runtime = entry[e].runtime
         \/ /\ entry'[e].runtime = a /\ entry[e].runtime = Absent /\ entry[e].holder = Absent
            /\ call[a].at = "idle" /\ call'[a].at = "started" /\ runtime'[a] = "running"
  <2>1. CASE UNCHANGED <<entry, runtime>>
    BY <2>1, Facts
  <2>2. CASE /\ call[a].at = "idle" /\ call'[a].at = "started"
             /\ entry' = [entry EXCEPT ![<<a, DefaultNode>>].runtime = a]
             /\ runtime' = [runtime EXCEPT ![a] = "running"]
    <3>1. entry[e] = [runtime |-> Absent, holder |-> Absent]
      BY <2>2, Private
    <3> QED BY <1>1, <2>2, <3>1, Facts DEF EntryType
  <2> QED BY <2>1, <2>2
<1>4. /\ runtime' \in [Starters -> {"absent", "running", "stopped"}]
      /\ \A r \in Starters : r # a => runtime'[r] = runtime[r]
      /\ runtime[a] = "running" => runtime'[a] = "running"
      /\ runtime'[a] # runtime[a] => entry'[e].runtime = a /\ call'[a].at = "started"
  BY <1>1, Facts DEF EntryType
<1>5. TypeOK'
  BY <1>3, <1>4, Facts DEF PoolInv, TypeOK, EntryType
<1>6. Shape'
  BY <1>1 DEF PoolInv, Shape, Calls, Stoppers
<1>7. Numbers'
  BY <1>1, Facts DEF PoolInv, Numbers, Calls
<1>8. Unshared' /\ Superseded' /\ SameGeneration'
  BY <1>1 DEF PoolInv, Unshared, Superseded, SameGeneration, Calls, Stoppers
<1>9. Holders'
  <2>1. \A c \in Calls, f \in Entries : Holds(c, f)' <=> Holds(c, f)
    BY <1>1, <1>2 DEF Holds
  <2> QED BY <1>3, <2>1 DEF PoolInv, Holders
<1>10. Kept'
  <2>1. \A r, f : r \in Starters /\ KeptIn(r, f) => KeptIn(r, f)'
    BY <1>1, <1>2 DEF KeptIn, Starters, Calls
  <2>2. ASSUME NEW f \in Entries, entry'[f].runtime # Absent
        PROVE  KeptIn(entry[f].runtime, f)' /\ (runtime[entry[f].runtime] = "running")'
    <3>1. CASE entry'[f].runtime = entry[f].runtime
      <4>1. entry[f].runtime \in Starters
        BY <2>2, <3>1, Facts DEF EntryType
      <4> QED BY <1>4, <2>1, <2>2, <3>1, <4>1 DEF PoolInv, Kept
    <3>2. CASE entry'[f].runtime # entry[f].runtime
      <4>1. f = e /\ entry'[f].runtime = a /\ call'[a].at = "started" /\ runtime'[a] = "running"
        BY <1>3, <3>2
      <4> QED BY <4>1 DEF KeptIn
    <3> QED BY <3>1, <3>2
  <2>3. ASSUME NEW c \in Stoppers, call'[c].at = "joining"
        PROVE  KeptIn(call[c].runtime, Entry(c))'
    <3>1. c # a /\ c \in Calls
      BY <2>3, Names DEF Stoppers, Calls
    <3>2. KeptIn(call[c].runtime, Entry(c)) /\ call[c].runtime \in Starters
      BY <2>3, <3>1 DEF PoolInv, Kept, KeptIn, Starters
    <3> QED BY <1>2, <2>1, <3>1, <3>2
  <2>4. \A u \in Lookups : call'[u].at = "checking" => runtime'[u] = "running"
    BY <1>1, <1>4, Names DEF PoolInv, Kept
  <2> QED BY <2>2, <2>3, <2>4 DEF Kept
<1>11. Current'
  <2> SUFFICES ASSUME NEW u \in Lookups, call'[u].at \in {"returned", "opened"},
                      pool.generation = call'[u].generation
               PROVE  call'[u].runtime # Absent /\ entry'[Entry(u)'].runtime = call'[u].runtime
    BY DEF Current
  <2>1. call'[u] = call[u] /\ Entry(u)' = Entry(u) /\ Entry(u) # e
    BY <1>1, <1>2
  <2>2. Entry(u) \in Entries
    BY <2>1, Names DEF PoolInv, Shape, Entry
  <2> QED BY <1>3, <2>1, <2>2 DEF PoolInv, Current
<1>12. NoRuntimeLeak'
  <2> SUFFICES ASSUME NEW r \in Starters, runtime'[r] = "running"
               PROVE  \/ \E f \in Entries : entry'[f].runtime = r /\ Anchored(f)'
                      \/ r \in Lookups /\ call'[r].at \in {"checking", "discarding"}
                      \/ \E c \in Stoppers : call'[c].at = "joining" /\ call'[c].runtime = r
    BY DEF NoRuntimeLeak, Anchored, Stoppers
  <2>1. \A f \in Entries : Anchored(f) => Anchored(f)'
    BY <1>1 DEF Anchored, WillBeStopped, Entries, Stoppers, Calls
  <2>2. CASE runtime'[r] = runtime[r]
    <3>1. \/ \E f \in Entries : entry[f].runtime = r /\ Anchored(f)
          \/ r \in Lookups /\ call[r].at \in {"checking", "discarding"}
          \/ \E c \in Stoppers : call[c].at = "joining" /\ call[c].runtime = r
      BY <2>2 DEF PoolInv, NoRuntimeLeak, Anchored, Stoppers
    <3>2. \A f \in Entries : entry[f].runtime = r => entry'[f].runtime = r
      BY <1>3, Names
    <3>3. \A c \in Stoppers : call[c].at = "joining" => c # a /\ call'[c] = call[c]
      BY Names DEF Stoppers, Calls
    <3> QED BY <1>1, <2>1, <3>1, <3>2, <3>3
  <2>3. CASE runtime'[r] # runtime[r]
    <3>1. r = a /\ entry'[e].runtime = a /\ call'[a].at = "started"
      BY <1>4, <2>3
    <3>2. Anchored(e)'
      BY <3>1 DEF Anchored
    <3> QED BY <1>1, <3>1, <3>2
  <2> QED BY <2>2, <2>3
<1> QED BY <1>5, <1>6, <1>7, <1>8, <1>9, <1>10, <1>11, <1>12 DEF PoolInv

(* An activation checks its profile and takes a generation.                *)
LEMMA ActivatesKeep ==
  ASSUME PoolInv, NEW a \in Activations, ActivateStarts(a) \/ ActivateNumbers(a)
  PROVE  PoolInv'
<1>1. a \in Calls /\ call[a] \in Call
  BY Names, Facts
<1>2. CASE ActivateStarts(a)
  <2>1. PICK at \in {"started", "done"} : Goto(a, at)
    BY <1>2 DEF ActivateStarts
  <2>2. /\ call' \in [Calls -> Call] /\ call'[a].at = at
        /\ call'[a].profile = call[a].profile /\ call'[a].node = call[a].node
        /\ \A d \in Calls : d # a => call'[d] = call[d]
    BY <1>1, <2>1, Moves
  <2>3. call[a].at = "idle" /\ UNCHANGED <<next_generation, pool>>
    BY <1>2 DEF ActivateStarts
  <2>4. \/ UNCHANGED <<entry, runtime>>
        \/ /\ call'[a].at = "started"
           /\ entry' = [entry EXCEPT ![<<a, DefaultNode>>].runtime = a]
           /\ runtime' = [runtime EXCEPT ![a] = "running"]
    BY <1>1, <1>2, Moves DEF ActivateStarts
  <2> QED BY <2>2, <2>3, <2>4, Prepares
<1>3. CASE ActivateNumbers(a)
  <2>1. /\ call[a].at = "started" /\ next_generation' = next_generation + 1
        /\ call' = [call EXCEPT ![a].at = "numbered", ![a].generation = next_generation]
        /\ UNCHANGED <<pool, entry, runtime>>
    BY <1>3 DEF ActivateNumbers
  <2>2. /\ call' \in [Calls -> Call] /\ call'[a].at = "numbered"
        /\ call'[a].generation = next_generation
        /\ call'[a].profile = call[a].profile /\ call'[a].node = call[a].node
        /\ \A d \in Calls : d # a => call'[d] = call[d]
    BY <1>1, <2>1, Facts DEF Call
  <2> QED BY <2>1, <2>2, Prepares
<1> QED BY <1>2, <1>3

(* mem::replace: what was active is now the installer's to stop, and no    *)
(* lookup has the new generation.                                          *)
LEMMA InstallKeeps ==
  ASSUME PoolInv, NEW c \in Stoppers, NEW g \in Nat, NEW p \in Activations \cup {Absent},
         Install(c, g, p), UNCHANGED <<entry, runtime>>,
         call[c].at \in {"idle", "numbered"},
         c \in Activations => call[c].at = "numbered" /\ p = c,
         c \in Stops => p = Absent,
         next_generation' \in {next_generation, next_generation + 1}, g < next_generation',
         \A u \in Lookups : call[u].at # "idle" => call[u].generation # g,
         \A a \in Activations : call[a].at = "numbered" /\ a # c => call[a].generation # g
  PROVE  PoolInv'
<1>1. /\ c \in Calls /\ c \notin Lookups /\ Absent \notin Activations /\ p \in {c, Absent}
      /\ \A u \in Lookups : u \in Calls /\ u # c
      /\ 1 \in Nodes /\ 1 \in 0 .. LastNode
  BY Names DEF Stoppers, Nodes
<1>2. pool'.generation = g /\ pool'.profile = p /\ pool' \in [generation: Nat, profile: Activations \cup {Absent}]
  BY DEF Install
<1>3. /\ call' \in [Calls -> Call] /\ \A d \in Calls : d # c => call'[d] = call[d]
      /\ call'[c].profile = pool.profile /\ call'[c].node = 1
      /\ call'[c].at = IF pool.profile = Absent THEN "done" ELSE "stopping"
  BY <1>1, Facts DEF Install, Call
<1>4. TypeOK'
  BY <1>2, <1>3, Facts DEF PoolInv, TypeOK, EntryType
<1>5. Shape'
  BY <1>1, <1>3, Facts DEF PoolInv, Shape, Calls, Stoppers
<1>6. Numbers'
  BY <1>1, <1>2, <1>3, Facts DEF PoolInv, Numbers, Calls
<1>7. \A a \in Activations : call[a].at \in {"idle", "started", "numbered"} =>
        pool.profile # a /\ \A d \in Calls : call[d].profile # a
  BY DEF PoolInv, Unshared
<1>8. Unshared'
  BY <1>1, <1>2, <1>3, <1>7 DEF Unshared, Calls
<1>9. Superseded'
  <2> SUFFICES ASSUME NEW d \in Stoppers, call'[d].at \in {"stopping", "joining"}
               PROVE  call'[d].profile # p
    BY <1>2 DEF Superseded
  <2>1. p = Absent \/ (p \in Activations /\ call[p].at = "numbered")
    BY <1>1 DEF Stoppers
  <2>2. CASE d = c
    BY <1>3, <1>7, <2>1, <2>2
  <2>3. CASE d # c
    <3>1. d \in Calls /\ call'[d] = call[d] /\ call[d].profile \in Activations
      BY <1>3, <2>3, Names DEF PoolInv, Shape, Stoppers, Calls
    <3> QED BY <1>1, <1>7, <2>1, <3>1
  <2> QED BY <2>2, <2>3
<1>10. SameGeneration' /\ Current'
  BY <1>1, <1>2, <1>3 DEF SameGeneration, Current
<1>11. \A d \in Calls : d # c => Entry(d)' = Entry(d)
  BY <1>3 DEF Entry
<1>12. Holders'
  <2>1. \A d \in Calls, e \in Entries : Holds(d, e)' <=> Holds(d, e)
    BY <1>1, <1>3, <1>11 DEF Holds
  <2> QED BY <2>1 DEF PoolInv, Holders
<1>13. Kept'
  <2>1. \A r, e : r \in Starters /\ KeptIn(r, e) => KeptIn(r, e)'
    BY <1>1, <1>3, <1>11 DEF KeptIn, Starters, Calls
  <2>2. \A e \in Entries : entry[e].runtime # Absent => entry[e].runtime \in Starters
    BY Facts DEF EntryType
  <2>3. ASSUME NEW d \in Stoppers, call'[d].at = "joining"
        PROVE  KeptIn(call[d].runtime, Entry(d))'
    <3>1. d # c /\ d \in Calls
      BY <1>3, <2>3, Names DEF Stoppers, Calls
    <3>2. KeptIn(call[d].runtime, Entry(d)) /\ call[d].runtime \in Starters
      BY <1>3, <2>3, <3>1 DEF PoolInv, Kept, KeptIn, Starters
    <3> QED BY <1>3, <1>11, <2>1, <3>1, <3>2
  <2>4. \A u \in Lookups : call'[u].at = "checking" => runtime'[u] = "running"
    BY <1>1, <1>3 DEF PoolInv, Kept
  <2> QED BY <2>1, <2>2, <2>3, <2>4 DEF PoolInv, Kept
<1>14. NoRuntimeLeak'
  <2>1. ASSUME NEW e \in Entries, Anchored(e)
        PROVE  Anchored(e)'
    <3>1. e[1] \in Activations /\ e[1] \in Calls /\ e[2] \in Nodes
      BY DEF Entries, Calls
    <3>2. CASE e[1] = pool.profile
      <4>1. call'[c].at = "stopping" /\ call'[c].profile = e[1] /\ call'[c].node <= e[2]
        BY <1>1, <1>3, <3>1, <3>2, Names DEF Nodes
      <4> QED BY <4>1 DEF Anchored, WillBeStopped, Stoppers
    <3>3. CASE call[e[1]].at \in {"started", "numbered"}
      <4>1. CASE e[1] = c
        BY <1>2, <3>1, <4>1 DEF Anchored
      <4>2. CASE e[1] # c
        BY <1>3, <3>1, <3>3, <4>2 DEF Anchored
      <4> QED BY <4>1, <4>2
    <3>4. CASE WillBeStopped(e)
      <4>1. PICK d \in Stoppers : /\ call[d].at \in {"stopping", "joining"}
                                  /\ call[d].profile = e[1] /\ call[d].node <= e[2]
        BY <3>4 DEF WillBeStopped, Stoppers
      <4>2. call'[d] = call[d]
        BY <1>3, <4>1, Names DEF Stoppers, Calls
      <4> QED BY <4>1, <4>2 DEF Anchored, WillBeStopped, Stoppers
    <3> QED BY <2>1, <3>2, <3>3, <3>4 DEF Anchored
  <2>2. \A d \in Stoppers : call[d].at = "joining" => call'[d] = call[d]
    BY <1>3, Names DEF Stoppers, Calls
  <2> QED BY <1>1, <1>3, <2>1, <2>2 DEF PoolInv, NoRuntimeLeak, Anchored, Stoppers
<1> QED BY <1>4, <1>5, <1>6, <1>8, <1>9, <1>10, <1>12, <1>13, <1>14 DEF PoolInv

(* An activation or a stop replaces the active profile.                    *)
LEMMA InstallsKeep ==
  ASSUME PoolInv, NEW c \in Stoppers,
         \/ c \in Activations /\ ActivateInstalls(c)
         \/ c \in Stops /\ StopInstalls(c)
  PROVE  PoolInv'
<1>1. CASE c \in Activations /\ ActivateInstalls(c)
  <2>1. /\ call[c].at = "numbered" /\ Install(c, call[c].generation, c)
        /\ UNCHANGED <<next_generation, entry, runtime>>
    BY <1>1 DEF ActivateInstalls
  <2>2. c \in Calls /\ call[c].generation \in Nat /\ c \notin Stops
    BY <1>1, Names, Facts
  <2>3. /\ call[c].generation < next_generation
        /\ \A u \in Lookups : call[u].at # "idle" => call[u].generation # call[c].generation
        /\ \A a \in Activations : call[a].at = "numbered" /\ a # c
                                    => call[a].generation # call[c].generation
    BY <1>1, <2>1 DEF PoolInv, Numbers
  <2> QED BY <1>1, <2>1, <2>2, <2>3, InstallKeeps
<1>2. CASE c \in Stops /\ StopInstalls(c)
  <2>1. /\ call[c].at = "idle" /\ Install(c, next_generation, Absent)
        /\ next_generation' = next_generation + 1 /\ UNCHANGED <<entry, runtime>>
    BY <1>2 DEF StopInstalls
  <2>2. c \notin Activations /\ next_generation \in Nat
    BY <1>2, Names, Facts
  <2>3. /\ \A u \in Lookups : u \in Calls /\ (call[u].at # "idle" => call[u].generation # next_generation)
        /\ \A a \in Activations : call[a].at = "numbered" => call[a].generation # next_generation
    BY <2>2, Names, Facts DEF PoolInv, Numbers
  <2> QED BY <1>2, <2>1, <2>2, <2>3, InstallKeeps
<1> QED BY <1>1, <1>2

-----------------------------------------------------------------------------
(* stop_state is done with an entry, which it leaves empty and free: the   *)
(* entries after it are still to come.                                     *)
LEMMA StopAdvances ==
  ASSUME PoolInv, NEW c \in Stoppers, call[c].at \in {"stopping", "joining"},
         call' = [call EXCEPT ![c] = NextEntry(c)], UNCHANGED <<next_generation, pool>>,
         entry[Entry(c)].runtime = Absent, entry[Entry(c)].holder \in {Absent, c},
         entry' \in [Entries -> EntryType],
         \A e \in Entries : e # Entry(c) => entry'[e] = entry[e],
         entry'[Entry(c)].runtime = Absent, entry'[Entry(c)].holder = Absent,
         runtime' \in [Starters -> {"absent", "running", "stopped"}],
         \A r \in Starters : ~(call[c].at = "joining" /\ call[c].runtime = r)
                               => runtime'[r] = runtime[r],
         call[c].at = "joining" => runtime'[call[c].runtime] # "running"
  PROVE  PoolInv'
<1> DEFINE E == Entry(c)
<1>1. /\ c \in Calls /\ c \notin Lookups /\ c # Absent /\ call[c] \in Call
      /\ \A u \in Lookups : u \in Calls /\ u # c
      /\ call[c].profile \in Activations /\ call[c].node \in Nodes /\ E \in Entries
  BY Names, Facts DEF Stoppers, PoolInv, Shape, Entry
<1>2. /\ call' \in [Calls -> Call] /\ \A d \in Calls : d # c => call'[d] = call[d]
      /\ call'[c].profile = call[c].profile
      /\ \/ call[c].node = LastNode /\ call'[c].at = "done"
         \/ /\ call'[c].at = "stopping" /\ call'[c].node = call[c].node + 1
            /\ call'[c].node \in Nodes
  <2>1. call[c].node # LastNode => call[c].node + 1 \in Nodes /\ call[c].node + 1 \in 0 .. LastNode
    BY <1>1, Names DEF Nodes
  <2> QED BY <1>1, <2>1, Facts DEF NextEntry, Call
<1>3. TypeOK'
  BY <1>2, Facts DEF PoolInv, TypeOK, EntryType
<1>4. Shape'
  BY <1>1, <1>2 DEF PoolInv, Shape, Calls, Stoppers
<1>5. Numbers'
  BY <1>1, <1>2 DEF PoolInv, Numbers, Calls
<1>6. Unshared' /\ Superseded' /\ SameGeneration'
  BY <1>1, <1>2 DEF PoolInv, Unshared, Superseded, SameGeneration, Calls, Stoppers
<1>7. \A d \in Calls : d # c => Entry(d)' = Entry(d)
  BY <1>2 DEF Entry
<1>8. Holders'
  <2> SUFFICES ASSUME NEW e \in Entries
               PROVE  /\ \A d \in Calls : entry'[e].holder = d <=> Holds(d, e)'
                      /\ entry'[e].holder # Absent => entry'[e].runtime = Absent
    BY DEF Holders
  <2>1. \A d \in Calls : d # c => (Holds(d, e)' <=> Holds(d, e))
    BY <1>2, <1>7 DEF Holds
  <2>2. ~Holds(c, e)'
    BY <1>1, <1>2 DEF Holds
  <2>3. /\ \A d \in Calls : entry[e].holder = d <=> Holds(d, e)
        /\ entry[e].holder # Absent => entry[e].runtime = Absent
    BY DEF PoolInv, Holders
  <2>4. CASE e = E
    BY <1>1, <2>1, <2>2, <2>3, <2>4, Names
  <2>5. CASE e # E
    <3>1. ~Holds(c, e)
      BY <2>5 DEF Holds
    <3> QED BY <1>1, <2>1, <2>2, <2>3, <2>5, <3>1
  <2> QED BY <2>4, <2>5
<1>9. \A r, e : r \in Starters /\ KeptIn(r, e) => KeptIn(r, e)'
  BY <1>1, <1>2, <1>7 DEF KeptIn, Starters, Calls
<1>10. call[c].at = "joining" => KeptIn(call[c].runtime, E)
  BY DEF PoolInv, Kept
<1>11. Kept'
  <2>1. ASSUME NEW e \in Entries, entry'[e].runtime # Absent
        PROVE  KeptIn(entry[e].runtime, e)' /\ (runtime[entry[e].runtime] = "running")'
    <3>1. e # E /\ entry'[e] = entry[e] /\ entry[e].runtime \in Starters
      BY <2>1, Facts DEF EntryType
    <3>2. KeptIn(entry[e].runtime, e) /\ runtime[entry[e].runtime] = "running"
      BY <2>1, <3>1 DEF PoolInv, Kept
    <3>3. ~(call[c].at = "joining" /\ call[c].runtime = entry[e].runtime)
      BY <1>10, <3>1, <3>2, OnePlace
    <3> QED BY <1>9, <3>1, <3>2, <3>3
  <2>2. ASSUME NEW d \in Stoppers, call'[d].at = "joining"
        PROVE  KeptIn(call[d].runtime, Entry(d))'
    <3>1. d # c /\ d \in Calls
      BY <1>2, <2>2, Names DEF Stoppers, Calls
    <3>2. KeptIn(call[d].runtime, Entry(d)) /\ call[d].runtime \in Starters
      BY <1>2, <2>2, <3>1 DEF PoolInv, Kept, KeptIn, Starters
    <3> QED BY <1>2, <1>7, <1>9, <3>1, <3>2
  <2>3. ASSUME NEW u \in Lookups, call'[u].at = "checking"
        PROVE  runtime'[u] = "running"
    <3>1. call'[u] = call[u] /\ u \in Starters /\ u \notin Activations
      BY <1>1, <1>2, Names DEF Stoppers
    <3>2. ~KeptIn(u, E)
      BY <2>3, <3>1 DEF KeptIn
    <3> QED BY <1>10, <2>3, <3>1, <3>2 DEF PoolInv, Kept
  <2> QED BY <2>1, <2>2, <2>3 DEF Kept
<1>12. Current'
  <2> SUFFICES ASSUME NEW u \in Lookups, call'[u].at \in {"returned", "opened"},
                      pool.generation = call'[u].generation
               PROVE  call'[u].runtime # Absent /\ entry'[Entry(u)'].runtime = call'[u].runtime
    BY DEF Current
  <2>1. call'[u] = call[u] /\ Entry(u)' = Entry(u)
    BY <1>1, <1>2, <1>7
  <2>2. /\ Entry(u) \in Entries /\ call[u].runtime # Absent
        /\ entry[Entry(u)].runtime = call[u].runtime
    BY <2>1, Names DEF PoolInv, Shape, Current, Entry
  <2> QED BY <2>1, <2>2
<1>13. NoRuntimeLeak'
  <2> SUFFICES ASSUME NEW r \in Starters, runtime'[r] = "running"
               PROVE  \/ \E e \in Entries : entry'[e].runtime = r /\ Anchored(e)'
                      \/ r \in Lookups /\ call'[r].at \in {"checking", "discarding"}
                      \/ \E d \in Stoppers : call'[d].at = "joining" /\ call'[d].runtime = r
    BY DEF NoRuntimeLeak, Anchored, Stoppers
  <2>1. ~(call[c].at = "joining" /\ call[c].runtime = r) /\ runtime[r] = "running"
    OBVIOUS
  <2>2. \/ \E e \in Entries : entry[e].runtime = r /\ Anchored(e)
        \/ r \in Lookups /\ call[r].at \in {"checking", "discarding"}
        \/ \E d \in Stoppers : call[d].at = "joining" /\ call[d].runtime = r
    BY <2>1 DEF PoolInv, NoRuntimeLeak, Anchored, Stoppers
  <2>3. ASSUME NEW e \in Entries, entry[e].runtime = r, Anchored(e)
        PROVE  entry'[e].runtime = r /\ Anchored(e)'
    <3>1. e # E /\ entry'[e] = entry[e]
      BY <2>3, Names
    <3>2. e[1] \in Activations /\ e[1] \in Calls /\ e[2] \in Nodes /\ e = <<e[1], e[2]>>
      BY DEF Entries, Calls
    <3>3. CASE e[1] = pool.profile
      BY <2>3, <3>1, <3>3 DEF Anchored
    <3>4. CASE call[e[1]].at \in {"started", "numbered"}
      BY <1>2, <2>3, <3>1, <3>2, <3>4 DEF Anchored
    <3>5. CASE WillBeStopped(e)
      <4>1. PICK d \in Stoppers : /\ call[d].at \in {"stopping", "joining"}
                                  /\ call[d].profile = e[1] /\ call[d].node <= e[2]
        BY <3>5 DEF WillBeStopped, Stoppers
      <4>2. d \in Calls
        BY Names DEF Stoppers, Calls
      <4>3. CASE d = c
        <5>1. call[c].node # e[2]
          BY <3>1, <3>2, <4>1, <4>3 DEF Entry
        <5>2. call'[c].at = "stopping" /\ call'[c].node <= e[2]
          BY <1>1, <1>2, <3>2, <4>1, <4>3, <5>1, Names DEF Nodes
        <5> QED BY <1>2, <2>3, <3>1, <4>1, <4>3, <5>2 DEF Anchored, WillBeStopped, Stoppers
      <4>4. CASE d # c
        BY <1>2, <2>3, <3>1, <4>1, <4>2, <4>4 DEF Anchored, WillBeStopped, Stoppers
      <4> QED BY <4>3, <4>4
    <3> QED BY <2>3, <3>3, <3>4, <3>5 DEF Anchored
  <2>4. \A d \in Stoppers : call[d].at = "joining" /\ call[d].runtime = r => call'[d] = call[d]
    BY <1>2, <2>1, Names DEF Stoppers, Calls
  <2> QED BY <1>1, <1>2, <2>2, <2>3, <2>4
<1> QED BY <1>3, <1>4, <1>5, <1>6, <1>8, <1>11, <1>12, <1>13 DEF PoolInv

(* stop_state takes the runtime out of an entry and joins it under the     *)
(* mutex.  No lookup of the active profile sees this.                      *)
LEMMA TakeKeeps ==
  ASSUME PoolInv, NEW c \in Stoppers, call[c].at = "stopping",
         entry[Entry(c)].holder = Absent, entry[Entry(c)].runtime # Absent,
         call' = [call EXCEPT ![c].at = "joining", ![c].runtime = entry[Entry(c)].runtime],
         entry' = [entry EXCEPT ![Entry(c)] = [runtime |-> Absent, holder |-> c]],
         UNCHANGED <<next_generation, pool, runtime>>
  PROVE  PoolInv'
<1> DEFINE E == Entry(c)
           R == entry[E].runtime
<1>1. /\ c \in Calls /\ c \notin Lookups /\ c # Absent /\ call[c] \in Call
      /\ \A u \in Lookups : u \in Calls /\ u # c
      /\ call[c].profile \in Activations /\ call[c].node \in Nodes /\ E \in Entries
  BY Names, Facts DEF Stoppers, PoolInv, Shape, Entry
<1>2. R \in Starters
  BY <1>1, Facts DEF EntryType
<1>3. /\ call' \in [Calls -> Call] /\ \A d \in Calls : d # c => call'[d] = call[d]
      /\ call'[c].at = "joining" /\ call'[c].runtime = R
      /\ call'[c].profile = call[c].profile /\ call'[c].node = call[c].node
  <2> HIDE DEF R
  <2> QED BY <1>1, <1>2, Facts DEF Call, R
<1>4. /\ entry' \in [Entries -> EntryType] /\ \A e \in Entries : e # E => entry'[e] = entry[e]
      /\ entry'[E].runtime = Absent /\ entry'[E].holder = c
  BY <1>1, Facts DEF EntryType
<1>5. TypeOK'
  BY <1>3, <1>4, Facts DEF PoolInv, TypeOK, EntryType
<1>6. Shape'
  BY <1>1, <1>3 DEF PoolInv, Shape, Calls, Stoppers
<1>7. Numbers'
  BY <1>1, <1>3 DEF PoolInv, Numbers, Calls
<1>8. Unshared' /\ Superseded' /\ SameGeneration'
  BY <1>1, <1>3 DEF PoolInv, Unshared, Superseded, SameGeneration, Calls, Stoppers
<1>9. \A d \in Calls : Entry(d)' = Entry(d)
  BY <1>3 DEF Entry
<1>10. Holders'
  <2> SUFFICES ASSUME NEW e \in Entries
               PROVE  /\ \A d \in Calls : entry'[e].holder = d <=> Holds(d, e)'
                      /\ entry'[e].holder # Absent => entry'[e].runtime = Absent
    BY DEF Holders
  <2>1. \A d \in Calls : d # c => (Holds(d, e)' <=> Holds(d, e))
    BY <1>3, <1>9 DEF Holds
  <2>2. Holds(c, e)' <=> e = E
    BY <1>1, <1>3, <1>9 DEF Holds
  <2>3. /\ \A d \in Calls : entry[e].holder = d <=> Holds(d, e)
        /\ entry[e].holder # Absent => entry[e].runtime = Absent
    BY DEF PoolInv, Holders
  <2>4. ~Holds(c, e)
    BY <1>1 DEF Holds
  <2>5. CASE e = E
    BY <1>1, <1>4, <2>1, <2>2, <2>3, <2>5, Names
  <2>6. CASE e # E
    BY <1>1, <1>4, <2>1, <2>2, <2>3, <2>4, <2>6
  <2> QED BY <2>5, <2>6
<1>11. \A r, e : r \in Starters /\ KeptIn(r, e) => KeptIn(r, e)'
  BY <1>1, <1>3, <1>9 DEF KeptIn, Starters, Calls
<1>12. Kept'
  <2>1. ASSUME NEW e \in Entries, entry'[e].runtime # Absent
        PROVE  KeptIn(entry[e].runtime, e)' /\ (runtime[entry[e].runtime] = "running")'
    <3>1. e # E /\ entry'[e] = entry[e] /\ entry[e].runtime \in Starters
      BY <1>4, <2>1, Facts DEF EntryType
    <3> QED BY <1>11, <2>1, <3>1 DEF PoolInv, Kept
  <2>2. ASSUME NEW d \in Stoppers, call'[d].at = "joining"
        PROVE  KeptIn(call[d].runtime, Entry(d))'
    <3>1. CASE d = c
      <4>1. KeptIn(R, E)
        BY <1>1 DEF PoolInv, Kept
      <4> QED BY <1>1, <1>2, <1>3, <1>9, <1>11, <3>1, <4>1
    <3>2. CASE d # c
      <4>1. d \in Calls /\ call'[d] = call[d]
        BY <1>3, <3>2, Names DEF Stoppers, Calls
      <4>2. KeptIn(call[d].runtime, Entry(d)) /\ call[d].runtime \in Starters
        BY <2>2, <4>1 DEF PoolInv, Kept, KeptIn, Starters
      <4> QED BY <1>9, <1>11, <4>1, <4>2
    <3> QED BY <3>1, <3>2
  <2>3. \A u \in Lookups : call'[u].at = "checking" => runtime'[u] = "running"
    BY <1>1, <1>3 DEF PoolInv, Kept
  <2> QED BY <2>1, <2>2, <2>3 DEF Kept
<1>13. Current'
  <2> SUFFICES ASSUME NEW u \in Lookups, call'[u].at \in {"returned", "opened"},
                      pool.generation = call'[u].generation
               PROVE  call'[u].runtime # Absent /\ entry'[Entry(u)'].runtime = call'[u].runtime
    BY DEF Current
  <2>1. call'[u] = call[u] /\ Entry(u)' = Entry(u)
    BY <1>1, <1>3, <1>9
  <2>2. /\ Entry(u) \in Entries /\ call[u].runtime # Absent
        /\ entry[Entry(u)].runtime = call[u].runtime
    BY <2>1, Names DEF PoolInv, Shape, Current, Entry
  <2>3. call[u].profile = pool.profile /\ call[c].profile # pool.profile
    BY <2>1 DEF PoolInv, SameGeneration, Superseded
  <2>4. Entry(u) # E
    BY <2>3 DEF Entry
  <2> QED BY <1>4, <2>1, <2>2, <2>4
<1>14. NoRuntimeLeak'
  <2> SUFFICES ASSUME NEW r \in Starters, runtime'[r] = "running"
               PROVE  \/ \E e \in Entries : entry'[e].runtime = r /\ Anchored(e)'
                      \/ r \in Lookups /\ call'[r].at \in {"checking", "discarding"}
                      \/ \E d \in Stoppers : call'[d].at = "joining" /\ call'[d].runtime = r
    BY DEF NoRuntimeLeak, Anchored, Stoppers
  <2>1. \/ \E e \in Entries : entry[e].runtime = r /\ Anchored(e)
        \/ r \in Lookups /\ call[r].at \in {"checking", "discarding"}
        \/ \E d \in Stoppers : call[d].at = "joining" /\ call[d].runtime = r
    BY DEF PoolInv, NoRuntimeLeak, Anchored, Stoppers
  <2>2. \A e \in Entries : Anchored(e) => Anchored(e)'
    BY <1>1, <1>3, Names DEF Anchored, WillBeStopped, Entries, Stoppers, Calls
  <2>3. \A e \in Entries : e # E /\ entry[e].runtime = r => entry'[e].runtime = r
    BY <1>4
  <2>4. \A d \in Stoppers : call[d].at = "joining" => call'[d] = call[d]
    BY <1>3, Names DEF Stoppers, Calls
  <2>5. r = R => call'[c].at = "joining" /\ call'[c].runtime = r
    BY <1>3
  <2>6. r # R => entry[E].runtime # r
    OBVIOUS
  <2>7. r \in Lookups => call'[r] = call[r]
    BY <1>1, <1>3
  <2> HIDE DEF E, R
  <2> QED BY <2>1, <2>2, <2>3, <2>4, <2>5, <2>6, <2>7
<1> QED BY <1>5, <1>6, <1>7, <1>8, <1>10, <1>12, <1>13, <1>14 DEF PoolInv

(* Whoever replaced a profile stops the runtimes of its nodes.             *)
LEMMA StopsKeep ==
  ASSUME PoolInv, NEW c \in Stoppers, StopTakes(c) \/ StopJoins(c)
  PROVE  PoolInv'
<1> DEFINE E == Entry(c)
<1>1. call[c].at \in {"stopping", "joining"} /\ UNCHANGED <<next_generation, pool>>
  BY DEF StopTakes, StopJoins
<1>2. /\ c \in Calls /\ c \notin Lookups /\ c # Absent /\ E \in Entries
      /\ E = <<call[c].profile, call[c].node>>
  BY <1>1, Names DEF Stoppers, PoolInv, Shape, Entry
<1>3. CASE StopTakes(c)
  <2>1. call[c].at = "stopping" /\ entry[E].holder = Absent /\ UNCHANGED runtime
    BY <1>2, <1>3 DEF StopTakes
  <2>2. CASE entry[E].runtime = Absent
    <3>1. call' = [call EXCEPT ![c] = NextEntry(c)] /\ UNCHANGED entry
      BY <1>2, <1>3, <2>2 DEF StopTakes
    <3> QED BY <1>1, <1>2, <2>1, <2>2, <3>1, Facts, StopAdvances
  <2>3. CASE entry[E].runtime # Absent
    <3>1. /\ call' = [call EXCEPT ![c].at = "joining", ![c].runtime = entry[E].runtime]
          /\ entry' = [entry EXCEPT ![E] = [runtime |-> Absent, holder |-> c]]
      BY <1>2, <1>3, <2>3 DEF StopTakes
    <3> QED BY <1>1, <2>1, <2>3, <3>1, TakeKeeps
  <2> QED BY <2>2, <2>3
<1>4. CASE StopJoins(c)
  <2>1. /\ call[c].at = "joining" /\ call' = [call EXCEPT ![c] = NextEntry(c)]
        /\ runtime' = [runtime EXCEPT ![call[c].runtime] = "stopped"]
        /\ entry' = [entry EXCEPT ![E].holder = Absent]
    BY <1>2, <1>4 DEF StopJoins
  <2>2. entry[E].holder = c /\ entry[E].runtime = Absent
    BY <1>2, <2>1, HeldEmpty DEF Holds
  <2>3. call[c].runtime \in Starters
    BY <2>1 DEF PoolInv, Kept, KeptIn, Starters
  <2>4. /\ entry' \in [Entries -> EntryType] /\ \A e \in Entries : e # E => entry'[e] = entry[e]
        /\ entry'[E].holder = Absent /\ entry'[E].runtime = Absent
    BY <1>2, <2>1, <2>2, Facts DEF EntryType
  <2>5. /\ runtime' \in [Starters -> {"absent", "running", "stopped"}]
        /\ runtime'[call[c].runtime] = "stopped"
        /\ \A r \in Starters : r # call[c].runtime => runtime'[r] = runtime[r]
    BY <2>1, <2>3, Facts
  <2> QED BY <1>1, <2>1, <2>2, <2>4, <2>5, StopAdvances
<1> QED BY <1>3, <1>4

-----------------------------------------------------------------------------
(* The initial state satisfies the invariant. *)
LEMMA PoolInit == Init => PoolInv
<1> SUFFICES ASSUME Init
             PROVE  PoolInv
  OBVIOUS
<1>1. \A c \in Calls : /\ call[c].at = "idle" /\ call[c].generation = 0
                       /\ call[c].profile = Absent /\ call[c].node = 0
  BY DEF Init
<1>2. \A e \in Entries : entry[e].runtime = Absent /\ entry[e].holder = Absent
  BY DEF Init
<1>3. 0 \in 0 .. LastNode
  BY Names
<1>4. TypeOK
  BY <1>3 DEF Init, TypeOK, Call
<1>5. Shape /\ Numbers /\ Unshared /\ Superseded /\ SameGeneration /\ Current
  BY <1>1, Names DEF Init, Shape, Numbers, Unshared, Superseded, SameGeneration, Current,
     Stoppers, Calls
<1>6. Holders /\ Kept
  BY <1>1, <1>2, Names DEF Holders, Holds, Kept, Stoppers, Calls
<1>7. NoRuntimeLeak
  BY DEF Init, NoRuntimeLeak
<1> QED BY <1>4, <1>5, <1>6, <1>7 DEF PoolInv

(* Every step of the pool preserves the invariant. *)
LEMMA PoolStep == PoolInv /\ [Next]_vars => PoolInv'
<1> SUFFICES ASSUME PoolInv, [Next]_vars
             PROVE  PoolInv'
  OBVIOUS
<1>1. CASE UNCHANGED vars
  BY <1>1 DEF vars, PoolInv, TypeOK, Shape, Numbers, Unshared, Superseded, SameGeneration,
     Holders, Holds, Kept, KeptIn, Current, Entry, NoRuntimeLeak, WillBeStopped, Stoppers
<1>2. ASSUME NEW a \in Activations, ActivateStarts(a) \/ ActivateNumbers(a)
      PROVE  PoolInv'
  BY <1>2, ActivatesKeep
<1>3. ASSUME NEW c \in Stoppers, \/ c \in Activations /\ ActivateInstalls(c)
                                 \/ c \in Stops /\ StopInstalls(c)
      PROVE  PoolInv'
  BY <1>3, InstallsKeep
<1>4. ASSUME NEW c \in Stoppers, StopTakes(c) \/ StopJoins(c)
      PROVE  PoolInv'
  BY <1>4, StopsKeep
<1>5. ASSUME NEW u \in Lookups, \/ LookupReads(u) \/ \E node \in Nodes : LookupFinds(u, node)
                                \/ LookupLocks(u) \/ LookupStarts(u) \/ LookupChecks(u)
                                \/ LookupDiscards(u) \/ StreamOpens(u) \/ StreamReturns(u)
      PROVE  PoolInv'
  BY <1>5, ReadsKeep, FindsKeep, LocksKeep, StartsKeep, ChecksKeep, DiscardsKeep, StreamsKeep
<1> QED BY <1>1, <1>2, <1>3, <1>4, <1>5 DEF Next, Made, Continues, Stoppers

(* Where the runtime that a lookup started is while it runs: in the entry  *)
(* the lookup found, or in the hands of the call that holds its mutex.     *)
LEMMA RunningPlace ==
  ASSUME PoolInv, NEW r \in Lookups, runtime[r] = "running"
  PROVE  /\ Entry(r) \in Entries
         /\ \/ entry[Entry(r)].runtime = r
            \/ Holds(r, Entry(r))
            \/ \E c \in Stoppers : Holds(c, Entry(r)) /\ call[c].runtime = r
<1>1. r \in Starters /\ r \notin Activations
  BY Names DEF Stoppers
<1>2. CASE \E e \in Entries : entry[e].runtime = r
  <2>1. PICK e \in Entries : entry[e].runtime = r
    BY <1>2
  <2>2. KeptIn(r, e)
    BY <1>1, <2>1, Names DEF PoolInv, Kept
  <2> QED BY <1>1, <2>1, <2>2 DEF KeptIn
<1>3. CASE call[r].at \in {"checking", "discarding"}
  BY <1>3, Names DEF Holds, PoolInv, Shape, Entry
<1>4. CASE \E c \in Stoppers : call[c].at = "joining" /\ call[c].runtime = r
  <2>1. PICK c \in Stoppers : call[c].at = "joining" /\ call[c].runtime = r
    BY <1>4
  <2>2. KeptIn(r, Entry(c)) /\ Entry(c) \in Entries
    BY <2>1, Names DEF PoolInv, Kept, Shape, Entry
  <2>3. Entry(r) = Entry(c)
    BY <1>1, <2>2 DEF KeptIn
  <2> QED BY <2>1, <2>2, <2>3 DEF Holds
<1> QED BY <1>1, <1>2, <1>3, <1>4 DEF PoolInv, NoRuntimeLeak, Stoppers

(* Two lookups never run two connections for one entry: the entry and its  *)
(* mutex name one of them.                                                 *)
LEMMA OneRuntime == PoolInv => OneRuntimePerEntry
<1> SUFFICES ASSUME PoolInv, NEW r \in Lookups, NEW q \in Lookups,
                    runtime[r] = "running", runtime[q] = "running", Entry(r) = Entry(q)
             PROVE  r = q
  BY DEF OneRuntimePerEntry, Entry
<1> DEFINE e == Entry(r)
<1>1. /\ e \in Entries /\ r \in Calls /\ q \in Calls /\ r \notin Stoppers /\ q \notin Stoppers
      /\ r # Absent /\ q # Absent /\ \A c \in Stoppers : c \in Calls
  BY RunningPlace, Names DEF Stoppers, Calls
<1>2. \/ entry[e].runtime = r \/ Holds(r, e)
      \/ \E c \in Stoppers : Holds(c, e) /\ call[c].runtime = r
  BY RunningPlace
<1>3. \/ entry[e].runtime = q \/ Holds(q, e)
      \/ \E c \in Stoppers : Holds(c, e) /\ call[c].runtime = q
  BY RunningPlace
<1>4. \A c \in Calls : Holds(c, e) => entry[e].holder = c /\ entry[e].runtime = Absent
  BY <1>1, HeldEmpty
<1> HIDE DEF e
<1> QED BY <1>1, <1>2, <1>3, <1>4

(* Only its own last look at the generation makes a lookup return a stream.*)
LEMMA Changes ==
  ASSUME PoolInv, Next, NEW u \in Lookups, call[u].at = "opened", call'[u].at = "stream"
  PROVE  pool.generation = call[u].generation
<1>1. u \in Calls /\ u \notin Stoppers /\ call[u] \in Call
  BY Names, Facts
<1>4. ASSUME NEW a \in Activations, \/ ActivateStarts(a) \/ ActivateNumbers(a)
      PROVE  FALSE
  BY <1>1, <1>4, Names, Facts DEF ActivateStarts, ActivateNumbers, Goto, Call
<1>5. ASSUME NEW c \in Stoppers, \/ ActivateInstalls(c) \/ StopInstalls(c)
                                 \/ StopTakes(c) \/ StopJoins(c)
      PROVE  FALSE
  <2>1. c \in Calls /\ c # u
    BY <1>1, Names DEF Stoppers
  <2>2. call'[u] = call[u]
    BY <1>5, <1>1, <2>1, Facts DEF ActivateInstalls, StopInstalls, Install, StopTakes, StopJoins
  <2> QED BY <2>2
<1>6. ASSUME NEW v \in Lookups, \/ LookupReads(v) \/ \E node \in Nodes : LookupFinds(v, node)
                                \/ LookupLocks(v) \/ LookupStarts(v) \/ LookupChecks(v)
                                \/ LookupDiscards(v) \/ StreamOpens(v) \/ StreamReturns(v)
      PROVE  pool.generation = call[u].generation
  <2>1. v \in Calls /\ call[v] \in Call
    BY Names, Facts
  <2>2. CASE v = u
    BY <1>1, <1>6, <2>2, Facts DEF LookupReads, LookupFinds, LookupLocks, LookupStarts,
       LookupChecks, LookupDiscards, StreamOpens, StreamReturns, Goto, Call
  <2>3. CASE v # u
    <3>1. call'[u] = call[u]
      BY <1>1, <1>6, <2>1, <2>3, Facts DEF LookupReads, LookupFinds, LookupLocks, LookupStarts,
         LookupChecks, LookupDiscards, StreamOpens, StreamReturns, Goto
    <3> QED BY <3>1
  <2> QED BY <2>2, <2>3
<1> QED BY <1>4, <1>5, <1>6 DEF Next, Made, Continues, Stoppers

(* The state of the pool has the shape of its structs, for every number of *)
(* calls and nodes.                                                        *)
THEOREM PoolTypeCorrect == Spec => []TypeOK
<1>1. PoolInv => TypeOK
  BY DEF PoolInv
<1> QED BY <1>1, PoolInit, PoolStep, PTL DEF Spec

(* No runtime is orphaned and none is doubled, however activations, stops  *)
(* and lookups interleave.                                                 *)
THEOREM RuntimesAlwaysOwned == Spec => []RuntimesOwned
<1>1. PoolInv => RuntimesOwned
  BY OneRuntime DEF PoolInv, RuntimesOwned
<1> QED BY <1>1, PoolInit, PoolStep, PTL DEF Spec

(* A stream is returned only from a runtime that the active profile owns,  *)
(* however long the start and the open took.                               *)
THEOREM StreamsAreCurrent == Spec => StreamsFromActiveProfile
<1> DEFINE Returned ==
      \A u \in Lookups :
        call[u].at = "opened" /\ call'[u].at = "stream"
          => /\ runtime[call[u].runtime] = "running"
             /\ \E e \in Entries : e[1] = pool.profile /\ entry[e].runtime = call[u].runtime
<1>1. ASSUME PoolInv, Next
      PROVE  Returned
  <2> SUFFICES ASSUME NEW u \in Lookups, call[u].at = "opened", call'[u].at = "stream"
               PROVE  /\ runtime[call[u].runtime] = "running"
                      /\ \E e \in Entries : e[1] = pool.profile
                                              /\ entry[e].runtime = call[u].runtime
    OBVIOUS
  <2>1. pool.generation = call[u].generation
    BY <1>1, Changes
  <2>2. /\ pool.profile = call[u].profile /\ Entry(u) \in Entries
        /\ entry[Entry(u)].runtime = call[u].runtime /\ call[u].runtime # Absent
    BY <1>1, <2>1, Names DEF PoolInv, SameGeneration, Current, Shape, Entry
  <2>3. runtime[call[u].runtime] = "running" /\ Entry(u)[1] = pool.profile
    BY <1>1, <2>2 DEF PoolInv, Kept, Entry
  <2> QED BY <2>2, <2>3
<1>2. PoolInv /\ [Next]_vars => [Returned]_vars
  BY <1>1
<1> HIDE DEF Returned
<1>3. Spec => [][Returned]_vars
  BY <1>2, PoolInit, PoolStep, PTL DEF Spec
<1> QED BY <1>3 DEF StreamsFromActiveProfile, Returned

-----------------------------------------------------------------------------
(* Client documents and the engine.  A command carries a document that was *)
(* normalised, so that what it activates means to the pool what it meant   *)
(* in the profile; a reference means one node because ids and aliases      *)
(* share a name space.                                                     *)

GoodDocument(d) ==
  d.source \in Profiles /\ Normalize(d.source) # None /\ d.canonical = Normalize(d.source)

StoredGood ==
  /\ DOMAIN stored = {"profiles", "bundles"}
  /\ \A d \in stored.profiles : GoodDocument(d)
  /\ \A b \in stored.bundles : \E c \in Bundles : NormalizeBundle(c) # None /\ b = NormalizeBundle(c)

HandleMade == DOMAIN engineHandle = {"inTable", "destroyed", "proxy", "pool"}

CommandsGood ==
  /\ DOMAIN command = HostThreads
  /\ \A t \in HostThreads :
       command[t] # None /\ command[t].operation \in {"activate", "proxy start"} =>
         GoodDocument(command[t].document)

(* What the source of the pool calls a node is that node to the pool.      *)
PoolServes(served) ==
  served.source # None =>
    LET written == served.source
        named == {written.nodes[i].id : i \in DOMAIN written.nodes}
                   \cup ({written.nodes[i].alias : i \in DOMAIN written.nodes} \ {None})
    IN /\ \A r \in named : \E i \in DOMAIN written.nodes :
            r \in {written.nodes[i].id, written.nodes[i].alias}
              /\ PoolNode(served, r) = written.nodes[i].id
       /\ \A i \in DOMAIN written.nodes :
            written.default \in {written.nodes[i].id, written.nodes[i].alias} =>
              PoolNode(served, "PROXY") = written.nodes[i].id

EngineUsed == engineHandle # None \/ \E t \in HostThreads : command[t] # None
HandleServes ==
  EngineUsed =>
    /\ HandleMade /\ PoolServes(engineHandle.pool)
    /\ engineHandle.proxy # None =>
         ~engineHandle.destroyed /\ engineHandle.proxy.generation = engineHandle.pool.generation

ProfileInv == StoredGood /\ CommandsGood /\ HandleServes

(* Where the names are unique, each means the node that has it.            *)
LEMMA MeaningIsTheNode ==
  ASSUME NEW nodes, References(nodes) # None, NEW i \in DOMAIN nodes, NEW r \in NamesOf(nodes[i])
  PROVE  /\ References(nodes) = Meaning(nodes) /\ r \in DOMAIN Meaning(nodes)
         /\ Meaning(nodes)[r] = nodes[i].id
<1>1. /\ References(nodes) = Meaning(nodes)
      /\ \A a, b \in DOMAIN nodes : a # b => NamesOf(nodes[a]) \cap NamesOf(nodes[b]) = {}
  BY DEF References
<1>2. r \in DOMAIN Meaning(nodes)
  BY DEF Meaning
<1>3. Meaning(nodes)[r] = nodes[CHOOSE k \in DOMAIN nodes : r \in NamesOf(nodes[k])].id
  BY <1>2 DEF Meaning
<1>4. (CHOOSE k \in DOMAIN nodes : r \in NamesOf(nodes[k])) = i
  BY <1>1
<1> QED BY <1>1, <1>2, <1>3, <1>4

(* A name that means something is one of some node.                        *)
LEMMA MeaningHasANode ==
  ASSUME NEW nodes, NEW r \in DOMAIN Meaning(nodes)
  PROVE  \E i \in DOMAIN nodes : r \in NamesOf(nodes[i])
BY DEF Meaning

(* The id a name means, means itself.                                      *)
LEMMA MeaningIsFixed ==
  ASSUME NEW nodes, References(nodes) # None, NEW r \in DOMAIN Meaning(nodes)
  PROVE  /\ Meaning(nodes)[r] \in DOMAIN Meaning(nodes)
         /\ Meaning(nodes)[Meaning(nodes)[r]] = Meaning(nodes)[r]
<1>1. PICK i \in DOMAIN nodes : r \in NamesOf(nodes[i])
  BY MeaningHasANode
<1>2. Meaning(nodes)[r] = nodes[i].id
  BY <1>1, MeaningIsTheNode
<1>3. nodes[i].id \in NamesOf(nodes[i])
  BY DEF NamesOf
<1>4. nodes[i].id \in DOMAIN Meaning(nodes) /\ Meaning(nodes)[nodes[i].id] = nodes[i].id
  BY <1>3, MeaningIsTheNode
<1> QED BY <1>2, <1>4

(* What normalisation gives, and that it gives the same again.             *)
LEMMA NormalizeIsStable ==
  ASSUME NEW p \in Profiles, Normalize(p) # None
  PROVE  /\ References(p.nodes) # None /\ References(p.nodes) = Meaning(p.nodes)
         /\ p.default \in DOMAIN Meaning(p.nodes)
         /\ \A i \in DOMAIN p.nodes : p.nodes[i].id \in Identifiers
                /\ (p.nodes[i].alias # None => p.nodes[i].alias \in Identifiers)
         /\ Normalize(p).nodes = p.nodes /\ Normalize(p).default = Meaning(p.nodes)[p.default]
         /\ Normalize(Normalize(p)) = Normalize(p)
<1> DEFINE refs == References(p.nodes)
           res(a) == IF IsNode(a) THEN refs[a] ELSE a
           rules == [i \in DOMAIN p.rules |-> [p.rules[i] EXCEPT !.action = res(p.rules[i].action)]]
           n == [p EXCEPT !.default = refs[p.default], !.rules = rules]
<1>0. /\ DOMAIN p = {"version", "id", "named", "nodes", "default", "rules", "tun"}
      /\ Len(p.rules) \in Nat /\ DOMAIN p.rules = 1 .. Len(p.rules)
      /\ \A i \in DOMAIN p.rules : DOMAIN p.rules[i] = {"kind", "value", "action"}
  BY DocumentsAssumption
<1>1. /\ p.version = 1 /\ p.id \in Identifiers /\ p.named
      /\ Len(p.nodes) \in 1..MaxProfileNodes /\ Len(p.rules) <= MaxProfileRules
      /\ \A i \in DOMAIN p.nodes : ValidNode(p.nodes[i])
      /\ refs # None
      /\ p.default \in DOMAIN refs
      /\ \A i \in DOMAIN p.rules : IsNode(p.rules[i].action) => p.rules[i].action \in DOMAIN refs
      /\ ValidPolicy(p.rules)
      /\ ValidTraffic(p.tun)
      /\ Normalize(p) = n
  <2> DEFINE wellFormed ==
                     /\ p.version = 1 /\ p.id \in Identifiers /\ p.named
                     /\ Len(p.nodes) \in 1..MaxProfileNodes /\ Len(p.rules) <= MaxProfileRules
                     /\ \A i \in DOMAIN p.nodes : ValidNode(p.nodes[i])
                     /\ refs # None
                     /\ p.default \in DOMAIN refs
                     /\ \A i \in DOMAIN p.rules :
                          IsNode(p.rules[i].action) => p.rules[i].action \in DOMAIN refs
                     /\ ValidPolicy(p.rules)
                     /\ ValidTraffic(p.tun)
  <2>1. Normalize(p) = IF wellFormed THEN n ELSE None
    BY Zenon DEF Normalize
  <2>2. wellFormed /\ Normalize(p) = n
    <3> HIDE DEF wellFormed, n
    <3> QED BY <2>1
  <2> QED BY <2>2
<1>2. refs = Meaning(p.nodes)
  BY <1>1 DEF References
<1>3. \A r \in DOMAIN refs : refs[r] \in DOMAIN refs /\ refs[refs[r]] = refs[r]
  <2> TAKE r \in DOMAIN refs
  <2>1. r \in DOMAIN Meaning(p.nodes) /\ References(p.nodes) # None
    BY <1>1, <1>2
  <2>2. /\ Meaning(p.nodes)[r] \in DOMAIN Meaning(p.nodes)
        /\ Meaning(p.nodes)[Meaning(p.nodes)[r]] = Meaning(p.nodes)[r]
    BY <2>1, MeaningIsFixed
  <2> QED BY <1>2, <2>2
<1> HIDE DEF refs
<1>4. /\ DOMAIN rules = DOMAIN p.rules /\ Len(rules) = Len(p.rules)
      /\ \A i \in DOMAIN p.rules : /\ DOMAIN rules[i] = {"kind", "value", "action"}
                                   /\ rules[i].kind = p.rules[i].kind
                                   /\ rules[i].value = p.rules[i].value
                                   /\ rules[i].action = res(p.rules[i].action)
  <2>1. DOMAIN rules = 1 .. Len(p.rules)
    BY <1>0
  <2>2. ASSUME NEW i \in DOMAIN p.rules
        PROVE  /\ DOMAIN rules[i] = {"kind", "value", "action"}
               /\ rules[i].kind = p.rules[i].kind
               /\ rules[i].value = p.rules[i].value
               /\ rules[i].action = res(p.rules[i].action)
    <3>1. rules[i] = [p.rules[i] EXCEPT !.action = res(p.rules[i].action)]
      OBVIOUS
    <3> HIDE DEF rules, res
    <3> QED BY <1>0, <3>1
  <2>3. Len(rules) = Len(p.rules)
    <3>1. rules \in [1 .. Len(p.rules) -> {rules[i] : i \in DOMAIN p.rules}]
      BY <1>0
    <3> HIDE DEF rules
    <3>2. rules \in Seq({rules[i] : i \in DOMAIN p.rules})
      BY <1>0, <3>1
    <3> QED BY <1>0, <2>1, <3>2
  <2> QED BY <2>1, <2>2, <2>3, <1>0
<1>5. /\ \A i \in DOMAIN p.rules : [rules[i] EXCEPT !.action = res(rules[i].action)] = rules[i]
      /\ \A i \in DOMAIN p.rules : IsNode(rules[i].action) => rules[i].action \in DOMAIN refs
  <2>1. ASSUME NEW i \in DOMAIN p.rules
        PROVE  res(rules[i].action) = rules[i].action
               /\ (IsNode(rules[i].action) => rules[i].action \in DOMAIN refs)
    BY <1>1, <1>3, <1>4
  <2>2. ASSUME NEW i \in DOMAIN p.rules PROVE [rules[i] EXCEPT !.action = res(rules[i].action)] = rules[i]
    <3>1. rules[i] = [p.rules[i] EXCEPT !.action = res(p.rules[i].action)]
      OBVIOUS
    <3>2. res(rules[i].action) = rules[i].action
      BY <2>1
    <3> DEFINE x == rules[i]
    <3>3. x = [y \in DOMAIN x |-> x[y]]
      BY <3>1
    <3>4. [x EXCEPT !.action = x.action] = x
      BY <3>3
    <3> HIDE DEF rules
    <3> QED BY <3>2, <3>4
  <2> QED BY <2>1, <2>2
<1>6. ValidPolicy(rules)
  <2> HIDE DEF rules
  <2>1. \A i \in DOMAIN p.rules : ValidRule(rules[i]) <=> ValidRule(p.rules[i])
    BY <1>4 DEF ValidRule
  <2> QED BY <1>1, <1>4, <2>1 DEF ValidPolicy
<1>7. /\ n.version = p.version /\ n.id = p.id /\ n.named = p.named /\ n.nodes = p.nodes
      /\ n.tun = p.tun /\ n.rules = rules /\ n.default = refs[p.default]
      /\ n = [y \in DOMAIN p |-> n[y]]
  <2> HIDE DEF rules
  <2> QED BY <1>0
<1>8. [i \in DOMAIN n.rules |-> [n.rules[i] EXCEPT !.action = res(n.rules[i].action)]] = n.rules
  <2>1. [i \in DOMAIN rules |-> [rules[i] EXCEPT !.action = res(rules[i].action)]] = [i \in DOMAIN p.rules |-> rules[i]]
    <3> HIDE DEF rules, res
    <3> QED BY ONLY <1>4, <1>5
  <2>2. [i \in DOMAIN p.rules |-> rules[i]] = rules
    OBVIOUS
  <2>3. n.rules = rules
    BY <1>7
  <2> HIDE DEF n, rules, res
  <2> QED BY <2>1, <2>2, <2>3
<1>9. Normalize(n) = [n EXCEPT !.default = refs[n.default],
                               !.rules = [i \in DOMAIN n.rules |->
                                            [n.rules[i] EXCEPT !.action = res(n.rules[i].action)]]]
  <2>1. /\ n.version = 1 /\ n.id \in Identifiers /\ n.named
        /\ Len(n.nodes) \in 1..MaxProfileNodes /\ Len(n.rules) <= MaxProfileRules
        /\ \A i \in DOMAIN n.nodes : ValidNode(n.nodes[i])
        /\ References(n.nodes) # None /\ References(n.nodes) = refs
        /\ n.default \in DOMAIN refs
        /\ \A i \in DOMAIN n.rules : IsNode(n.rules[i].action) => n.rules[i].action \in DOMAIN refs
        /\ ValidPolicy(n.rules)
        /\ ValidTraffic(n.tun)
    <3> HIDE DEF rules, n
    <3> QED BY <1>1, <1>3, <1>4, <1>5, <1>6, <1>7 DEF refs
  <2> HIDE DEF n, rules
  <2> QED BY <2>1 DEF Normalize
<1>10. Normalize(n) = n
  <2>1. refs[n.default] = n.default
    BY <1>1, <1>3, <1>7
  <2>2. Normalize(n) = [n EXCEPT !.default = n.default, !.rules = n.rules]
    <3> HIDE DEF n, rules, res
    <3> QED BY <1>8, <1>9, <2>1
  <2>3. [n EXCEPT !.default = n.default, !.rules = n.rules] = n
    <3> HIDE DEF n, rules
    <3> QED BY <1>0, <1>7
  <2> QED BY <2>2, <2>3
<1>11. \A i \in DOMAIN p.nodes : p.nodes[i].id \in Identifiers
         /\ (p.nodes[i].alias # None => p.nodes[i].alias \in Identifiers)
  BY <1>1 DEF ValidNode
<1> QED BY <1>1, <1>2, <1>7, <1>10, <1>11 DEF refs

(* An enrollment normalises once; its credential has a valid reference.    *)
LEMMA BundlesAreStable ==
  ASSUME NEW c \in Bundles, NormalizeBundle(c) # None
  PROVE  /\ NormalizeBundle(NormalizeBundle(c)) = NormalizeBundle(c)
         /\ ValidSecretRef(CredentialRef(NormalizeBundle(c)))
<1> DEFINE b == [c EXCEPT !.credential.upper = FALSE]
           Valid(x) == /\ x.kind = "velum-enrollment" /\ x.version = 1
                       /\ x.node \in Identifiers /\ x.named /\ x.reachable
                          /\ ValidServerName(x.server)
                       /\ x.credential.hex /\ x.credential.bytes = 32
                       /\ x.trust # "bad certificate"
<1>1. /\ DOMAIN c = {"kind", "version", "node", "named", "reachable", "server", "principal",
                     "credential", "trust"}
      /\ DOMAIN c.credential = {"hex", "bytes", "upper"}
      /\ c.principal \in SecretSegments
      /\ Identifiers \cup {"enrollment"} \subseteq SecretSegments
  BY DocumentsAssumption
<1>2. NormalizeBundle(c) = IF Valid(c) THEN b ELSE None
  BY DEF NormalizeBundle
<1>3. Valid(c) /\ NormalizeBundle(c) = b
  <2> HIDE DEF Valid, b
  <2> QED BY <1>2
<1>4. /\ b.kind = c.kind /\ b.version = c.version /\ b.node = c.node /\ b.named = c.named
      /\ b.reachable = c.reachable /\ b.server = c.server /\ b.principal = c.principal
      /\ b.trust = c.trust /\ b.credential = [c.credential EXCEPT !.upper = FALSE]
  BY <1>1
<1>5. /\ b.credential.hex = c.credential.hex /\ b.credential.bytes = c.credential.bytes
      /\ b.credential.upper = FALSE
  <2> HIDE DEF b
  <2> QED BY <1>1, <1>4
<1>6. Valid(b)
  <2>1. Valid(c)
    BY <1>3
  <2> HIDE DEF b
  <2> QED BY <2>1, <1>4, <1>5
<1>7. NormalizeBundle(b) = [b EXCEPT !.credential.upper = FALSE]
  <2> HIDE DEF b
  <2> QED BY <1>6 DEF NormalizeBundle
<1>8. [b EXCEPT !.credential.upper = FALSE] = b
  <2>1. [b.credential EXCEPT !.upper = FALSE] = b.credential
    BY <1>1, <1>4
  <2>2. b = [y \in DOMAIN c |-> b[y]]
    BY <1>1
  <2>3. [b EXCEPT !.credential = b.credential] = b
    <3> HIDE DEF b
    <3> QED BY <2>2, <1>1
  <2>4. [b EXCEPT !.credential.upper = FALSE]
          = [b EXCEPT !.credential = [b.credential EXCEPT !.upper = FALSE]]
    <3> HIDE DEF b
    <3> QED OBVIOUS
  <2> HIDE DEF b
  <2> QED BY <2>1, <2>3, <2>4
<1>9. ValidSecretRef(CredentialRef(b))
  <2> DEFINE segs == <<"enrollment", b.node, b.principal>>
  <2>1. /\ CredentialRef(b).segments = segs /\ CredentialRef(b).namespace = TRUE
        /\ CredentialRef(b).long = FALSE
    <3> HIDE DEF b
    <3> QED BY DEF CredentialRef
  <2>2. segs \in Seq(SecretSegments) /\ segs # << >>
    <3>1. b.node \in SecretSegments /\ b.principal \in SecretSegments /\ "enrollment" \in SecretSegments
      BY <1>1, <1>3, <1>4
    <3> HIDE DEF b
    <3> QED BY <3>1
  <2>3. \A i \in DOMAIN segs : segs[i] \in SecretSegments
    <3> HIDE DEF segs
    <3> QED BY <2>2
  <2> HIDE DEF segs, b
  <2> QED BY <2>1, <2>2, <2>3 DEF ValidSecretRef
<1> HIDE DEF b
<1> QED BY <1>3, <1>7, <1>8, <1>9

(* What a profile calls its nodes, the pool prepared from it calls them.   *)
LEMMA PreparedServes ==
  ASSUME NEW d, GoodDocument(d), Prepare(d) # None
  PROVE  PoolServes(Prepare(d)) /\ Prepare(d).generation = NextGeneration
<1> DEFINE p == d.source
           nodes == d.canonical.nodes
           alias(i) == IF nodes[i].alias = None THEN nodes[i].id ELSE nodes[i].alias
           ids == {nodes[i].id : i \in DOMAIN nodes}
           aliases == [i \in DOMAIN nodes |-> alias(i)]
           byAlias == [a \in ToSet(aliases) |-> nodes[CHOOSE i \in DOMAIN nodes : alias(i) = a].id]
           served == [generation |-> NextGeneration, nodes |-> ids, aliases |-> byAlias,
                    default |-> d.canonical.default, source |-> p]
<1>1. /\ p \in Profiles /\ Normalize(p) # None /\ d.canonical = Normalize(p)
  BY DEF GoodDocument
<1>2. /\ References(nodes) # None /\ References(nodes) = Meaning(nodes)
      /\ p.default \in DOMAIN Meaning(nodes)
      /\ \A i \in DOMAIN nodes : nodes[i].id \in Identifiers
             /\ (nodes[i].alias # None => nodes[i].alias \in Identifiers)
      /\ p.nodes = nodes /\ d.canonical.default = Meaning(nodes)[p.default]
  <2>1. d.canonical.nodes = p.nodes
    BY <1>1, NormalizeIsStable
  <2> HIDE DEF p
  <2> QED BY <1>1, <2>1, NormalizeIsStable
<1>3. Prepare(d) = IF Cardinality(ids) = Len(nodes) /\ IsInjective(aliases) THEN served ELSE None
  BY ONLY DEF Prepare
<1>4. Prepare(d) = served
  <2> HIDE DEF served, ids, aliases
  <2> QED BY <1>3
<1>5. /\ served.source = p /\ served.nodes = ids /\ served.aliases = byAlias
      /\ served.default = Meaning(nodes)[p.default] /\ served.generation = NextGeneration
  <2> HIDE DEF ids, byAlias, nodes, p
  <2>1. /\ served.source = p /\ served.nodes = ids /\ served.aliases = byAlias
        /\ served.default = d.canonical.default /\ served.generation = NextGeneration
    OBVIOUS
  <2> HIDE DEF served
  <2> QED BY <1>2, <2>1
<1>6. None \notin Identifiers /\ "PROXY" \notin Identifiers
  BY DocumentsAssumption
<1>7. ASSUME NEW i \in DOMAIN nodes PROVE PoolNode(served, nodes[i].id) = nodes[i].id
  <2>1. nodes[i].id \in ids /\ nodes[i].id # "PROXY"
    BY <1>2, <1>6
  <2> HIDE DEF served, ids, nodes
  <2> QED BY <1>5, <2>1 DEF PoolNode
<1>8. ASSUME NEW i \in DOMAIN nodes, nodes[i].alias # None, nodes[i].alias \notin ids
      PROVE  \E k \in DOMAIN nodes : nodes[k].alias = nodes[i].alias
                                       /\ PoolNode(served, nodes[i].alias) = nodes[k].id
  <2> DEFINE r == nodes[i].alias
             k == CHOOSE j \in DOMAIN nodes : alias(j) = r
  <2>1. alias(i) = r
    BY <1>8
  <2>2. k \in DOMAIN nodes /\ alias(k) = r
    <3> HIDE DEF alias, r
    <3> QED BY <2>1
  <2>3. nodes[k].alias = r
    <3>1. nodes[k].alias # None
      <4>1. SUFFICES ASSUME nodes[k].alias = None PROVE FALSE
        OBVIOUS
      <4>2. nodes[k].id = r
        BY <2>2, <4>1
      <4>3. nodes[k].id \in ids
        BY <2>2
      <4> QED BY <4>2, <4>3, <1>8
    <3> HIDE DEF k
    <3> QED BY <3>1, <2>2
  <2>4. r \in ToSet(aliases)
    <3>1. aliases[i] = r /\ i \in DOMAIN aliases
      <4> HIDE DEF alias, r
      <4> QED BY <2>1
    <3> HIDE DEF aliases, r
    <3> QED BY <3>1 DEF ToSet
  <2>5. byAlias[r] = nodes[k].id /\ r \in DOMAIN byAlias
    <3> HIDE DEF aliases, r, alias, nodes
    <3> QED BY <2>4
  <2>6. r # "PROXY"
    BY <1>2, <1>6, <1>8
  <2>7. PoolNode(served, r) = nodes[k].id
    <3> HIDE DEF served, ids, byAlias, r, k, nodes
    <3>1. r \notin ids
      BY <1>8 DEF r
    <3> QED BY <1>5, <2>5, <2>6, <3>1 DEF PoolNode
  <2> HIDE DEF k
  <2> QED BY <2>2, <2>3, <2>7
<1>9. ASSUME NEW i \in DOMAIN nodes, p.default \in {nodes[i].id, nodes[i].alias}
      PROVE  PoolNode(served, "PROXY") = nodes[i].id
  <2>1. p.default # None
    <3>1. PICK k \in DOMAIN nodes : p.default \in NamesOf(nodes[k])
      BY <1>2, MeaningHasANode
    <3> QED BY <3>1, <1>2, <1>6 DEF NamesOf
  <2>2. p.default \in NamesOf(nodes[i])
    BY <1>9, <2>1 DEF NamesOf
  <2>3. Meaning(nodes)[p.default] = nodes[i].id
    <3> HIDE DEF nodes
    <3> QED BY <1>2, <2>2, MeaningIsTheNode
  <2> HIDE DEF served
  <2> QED BY <1>5, <2>3 DEF PoolNode
<1>10. PoolServes(served)
  <2> DEFINE named == ids \cup ({nodes[i].alias : i \in DOMAIN nodes} \ {None})
  <2>1. ASSUME NEW r \in named
        PROVE  \E i \in DOMAIN nodes : r \in {nodes[i].id, nodes[i].alias}
                                         /\ PoolNode(served, r) = nodes[i].id
    <3>1. CASE r \in ids
      <4>1. PICK i \in DOMAIN nodes : r = nodes[i].id
        BY <3>1
      <4> HIDE DEF served
      <4> QED BY <4>1, <1>7
    <3>2. CASE r \notin ids
      <4>1. PICK i \in DOMAIN nodes : r = nodes[i].alias /\ nodes[i].alias # None
        BY <3>2
      <4>2. nodes[i].alias \notin ids
        BY <3>2, <4>1
      <4> HIDE DEF served, ids
      <4>3. PICK k \in DOMAIN nodes : nodes[k].alias = nodes[i].alias
                                        /\ PoolNode(served, nodes[i].alias) = nodes[k].id
        BY <4>1, <4>2, <1>8
      <4> QED BY <4>1, <4>3
    <3> QED BY <3>1, <3>2
  <2>2. served.source = p /\ p.nodes = nodes
    BY <1>2, <1>5
  <2> HIDE DEF served, nodes, p
  <2> QED BY <2>1, <2>2, <1>9 DEF PoolServes
<1> HIDE DEF served
<1> QED BY <1>4, <1>5, <1>10

(* An empty pool serves no profile, whatever its generation.               *)
LEMMA EmptyPoolServes ==
  ASSUME NEW g
  PROVE  PoolServes([EmptyPool EXCEPT !.generation = g]) /\ PoolServes(EmptyPool)
<1>1. [EmptyPool EXCEPT !.generation = g].source = None /\ EmptyPool.source = None
  BY DEF EmptyPool
<1> QED BY <1>1 DEF PoolServes

(* What a handle's fields are after its pool or proxy changes.             *)
LEMMA HandleFields ==
  ASSUME NEW h, DOMAIN h = {"inTable", "destroyed", "proxy", "pool"}, NEW q, NEW x
  PROVE  /\ [h EXCEPT !.proxy = x, !.pool = q].pool = q /\ [h EXCEPT !.proxy = x, !.pool = q].proxy = x
         /\ DOMAIN [h EXCEPT !.proxy = x, !.pool = q] = DOMAIN h
         /\ [h EXCEPT !.proxy = x].pool = h.pool /\ [h EXCEPT !.proxy = x].proxy = x
         /\ [h EXCEPT !.proxy = x].destroyed = h.destroyed /\ DOMAIN [h EXCEPT !.proxy = x] = DOMAIN h
         /\ [h EXCEPT !.destroyed = TRUE, !.proxy = x, !.pool = q].pool = q
         /\ [h EXCEPT !.destroyed = TRUE, !.proxy = x, !.pool = q].proxy = x
         /\ DOMAIN [h EXCEPT !.destroyed = TRUE, !.proxy = x, !.pool = q] = DOMAIN h
         /\ [h EXCEPT !.inTable = FALSE].pool = h.pool /\ [h EXCEPT !.inTable = FALSE].proxy = h.proxy
         /\ [h EXCEPT !.inTable = FALSE].destroyed = h.destroyed
         /\ DOMAIN [h EXCEPT !.inTable = FALSE] = DOMAIN h
OBVIOUS

(* Good documents stay good where nothing is stored.                       *)
LEMMA StoredStays ==
  ASSUME StoredGood, UNCHANGED stored
  PROVE  StoredGood'
BY DEF StoredGood, GoodDocument

(* A command that is finished leaves the commands of the others.           *)
LEMMA CommandDone ==
  ASSUME CommandsGood, NEW t \in HostThreads, command' = [command EXCEPT ![t] = None]
  PROVE  CommandsGood'
<1>1. /\ DOMAIN command' = HostThreads
      /\ \A u \in HostThreads : command'[u] = None \/ command'[u] = command[u]
  BY DEF CommandsGood
<1> QED BY <1>1 DEF CommandsGood, GoodDocument

(* The engine is created once, before any command.                         *)
LEMMA CreateEngineKeeps ==
  ASSUME ProfileInv, CreateEngine
  PROVE  ProfileInv'
<1>1. StoredGood'
  BY StoredStays DEF ProfileInv, CreateEngine
<1> DEFINE h == [inTable |-> TRUE, destroyed |-> FALSE, proxy |-> None, pool |-> EmptyPool]
<1>2. engineHandle' = h /\ UNCHANGED command
  BY DEF CreateEngine
<1>3. DOMAIN h = {"inTable", "destroyed", "proxy", "pool"} /\ h.proxy = None /\ h.pool = EmptyPool
  OBVIOUS
<1> HIDE DEF h
<1>4. HandleMade'
  BY <1>2, <1>3 DEF HandleMade
<1>5. CommandsGood'
  BY <1>2, <1>4 DEF ProfileInv, CommandsGood, GoodDocument
<1>6. HandleServes'
  BY <1>2, <1>3, <1>4, EmptyPoolServes DEF HandleServes
<1> QED BY <1>1, <1>5, <1>6 DEF ProfileInv

(* What is stored was normalised.                                          *)
LEMMA NormalizeKeeps ==
  ASSUME ProfileInv, NEW fits,
         \/ \E p \in Profiles : NormalizeProfile(p, fits)
         \/ \E b \in Bundles : NormalizeEnrollment(b, fits)
  PROVE  ProfileInv'
<1>1. UNCHANGED <<engineHandle, command>>
  BY DEF NormalizeProfile, NormalizeEnrollment
<1>2. CommandsGood' /\ HandleServes'
  BY <1>1 DEF ProfileInv, CommandsGood, GoodDocument, HandleServes, HandleMade, EngineUsed
<1>3. StoredGood'
  <2>0. StoredGood
    BY DEF ProfileInv
  <2>1. CASE UNCHANGED stored
    BY <2>0, <2>1, StoredStays
  <2>2. ASSUME NEW p \in Profiles, Normalize(p) # None,
               stored' = [stored EXCEPT !.profiles = @ \cup {[source |-> p, canonical |-> Normalize(p)]}]
        PROVE  StoredGood'
    <3> DEFINE d == [source |-> p, canonical |-> Normalize(p)]
    <3>1. GoodDocument(d)
      BY <2>2 DEF GoodDocument
    <3> HIDE DEF d
    <3>2. /\ DOMAIN stored' = {"profiles", "bundles"} /\ stored'.profiles = stored.profiles \cup {d}
          /\ stored'.bundles = stored.bundles
      BY <2>0, <2>2 DEF StoredGood, d
    <3>3. \A e \in stored'.profiles : GoodDocument(e)
      BY <2>0, <3>1, <3>2 DEF StoredGood
    <3> QED BY <2>0, <3>2, <3>3 DEF StoredGood, GoodDocument
  <2>3. ASSUME NEW b \in Bundles, NormalizeBundle(b) # None,
               stored' = [stored EXCEPT !.bundles = @ \cup {NormalizeBundle(b)}]
        PROVE  StoredGood'
    <3>1. /\ DOMAIN stored' = {"profiles", "bundles"} /\ stored'.profiles = stored.profiles
          /\ stored'.bundles = stored.bundles \cup {NormalizeBundle(b)}
      BY <2>0, <2>3 DEF StoredGood
    <3>2. \A c \in stored'.bundles : \E a \in Bundles : NormalizeBundle(a) # None /\ c = NormalizeBundle(a)
      BY <2>0, <2>3, <3>1 DEF StoredGood
    <3> QED BY <2>0, <3>1, <3>2 DEF StoredGood, GoodDocument
  <2>4. CASE \E p \in Profiles : NormalizeProfile(p, fits)
    BY <2>1, <2>2, <2>4 DEF NormalizeProfile
  <2>5. CASE \E b \in Bundles : NormalizeEnrollment(b, fits)
    BY <2>1, <2>3, <2>5 DEF NormalizeEnrollment
  <2> QED BY <2>4, <2>5
<1> QED BY <1>2, <1>3 DEF ProfileInv

(* A command begins with a stored document, at a handle.                   *)
LEMMA FindEngineKeeps ==
  ASSUME ProfileInv, NEW t \in HostThreads, NEW o, NEW d, FindEngine(t, o, d),
         o \in {"activate", "proxy start"} => d \in stored.profiles
  PROVE  ProfileInv'
<1> DEFINE c == [operation |-> o, document |-> d]
<1>1. c.operation = o /\ c.document = d
  OBVIOUS
<1>2. engineHandle # None /\ UNCHANGED <<stored, engineHandle>> /\ command' = [command EXCEPT ![t] = c]
  BY DEF FindEngine
<1> HIDE DEF c
<1>3. o \in {"activate", "proxy start"} => GoodDocument(d)
  BY DEF ProfileInv, StoredGood
<1>4. HandleMade
  BY <1>2 DEF ProfileInv, HandleServes, EngineUsed
<1>5. HandleMade' /\ HandleServes' /\ StoredGood'
  BY <1>2, <1>4, StoredStays DEF ProfileInv, HandleServes, HandleMade, EngineUsed
<1>6. /\ DOMAIN command' = HostThreads /\ command'[t] = c
      /\ \A u \in HostThreads : u # t => command'[u] = command[u]
  BY <1>2 DEF ProfileInv, CommandsGood
<1>7. CommandsGood'
  BY <1>1, <1>3, <1>5, <1>6 DEF ProfileInv, CommandsGood, GoodDocument
<1> QED BY <1>5, <1>7 DEF ProfileInv

(* A refused command changes nothing; a removed engine keeps its pool.     *)
LEMMA RefusedAndRemovedKeep ==
  ASSUME ProfileInv, NEW t \in HostThreads, CommandRefused(t) \/ RemoveEngine(t)
  PROVE  ProfileInv'
<1>1. CASE CommandRefused(t)
  <2>1. UNCHANGED <<stored, engineHandle>> /\ command' = [command EXCEPT ![t] = None]
    BY <1>1 DEF CommandRefused
  <2>2. StoredGood' /\ HandleServes'
    BY <1>1, <2>1, StoredStays DEF ProfileInv, HandleServes, HandleMade, EngineUsed, CommandRefused
  <2>3. CommandsGood'
    BY <2>1, <2>2, CommandDone DEF ProfileInv
  <2> QED BY <2>2, <2>3 DEF ProfileInv
<1>2. CASE RemoveEngine(t)
  <2> DEFINE c == [operation |-> "destroy", document |-> None]
  <2>1. /\ engineHandle # None /\ UNCHANGED stored /\ command' = [command EXCEPT ![t] = c]
        /\ engineHandle' = [engineHandle EXCEPT !.inTable = FALSE]
    BY <1>2 DEF RemoveEngine
  <2>2. c.operation = "destroy"
    OBVIOUS
  <2> HIDE DEF c
  <2>3. EngineUsed /\ HandleMade /\ HandleServes
    BY <2>1 DEF ProfileInv, HandleServes, EngineUsed
  <2>4. /\ HandleMade' /\ engineHandle'.pool = engineHandle.pool
        /\ engineHandle'.proxy = engineHandle.proxy /\ engineHandle'.destroyed = engineHandle.destroyed
    BY <2>1, <2>3, HandleFields DEF HandleMade
  <2>5. HandleServes'
    BY <2>1, <2>3, <2>4 DEF HandleServes
  <2>6. /\ DOMAIN command' = HostThreads /\ command'[t] = c
        /\ \A u \in HostThreads : u # t => command'[u] = command[u]
    BY <2>1 DEF ProfileInv, CommandsGood
  <2>7. CommandsGood'
    BY <2>2, <2>4, <2>6 DEF ProfileInv, CommandsGood, GoodDocument
  <2>8. StoredGood'
    BY <2>1, StoredStays DEF ProfileInv
  <2> QED BY <2>5, <2>7, <2>8 DEF ProfileInv
<1> QED BY <1>1, <1>2

(* What a command leaves in the handle serves as before, or not at all:    *)
(* the proxy goes with the pool it was started for.                        *)
LEMMA CommandRuns ==
  ASSUME ProfileInv, NEW t \in HostThreads, NEW o, RunsCommand(t, o), HandleMade',
         PoolServes(engineHandle'.pool),
         engineHandle'.proxy # None =>
           ~engineHandle'.destroyed /\ engineHandle'.proxy.generation = engineHandle'.pool.generation
  PROVE  ProfileInv'
<1>1. UNCHANGED stored /\ command' = [command EXCEPT ![t] = None]
  BY DEF RunsCommand
<1>2. StoredGood' /\ CommandsGood'
  BY <1>1, StoredStays, CommandDone DEF ProfileInv
<1>3. HandleServes'
  BY DEF HandleServes, PoolServes, PoolNode
<1> QED BY <1>2, <1>3 DEF ProfileInv

(* A command runs at a handle, with the document it was given.             *)
LEMMA CommandHasHandle ==
  ASSUME ProfileInv, NEW t \in HostThreads, NEW o, RunsCommand(t, o)
  PROVE  /\ HandleMade /\ PoolServes(engineHandle.pool)
         /\ o \in {"activate", "proxy start"} => GoodDocument(command[t].document)
         /\ engineHandle.proxy # None =>
              ~engineHandle.destroyed /\ engineHandle.proxy.generation = engineHandle.pool.generation
<1>1. command[t] # None /\ command[t].operation = o
  BY DEF RunsCommand
<1>2. o \in {"activate", "proxy start"} => GoodDocument(command[t].document)
  BY <1>1 DEF ProfileInv, CommandsGood
<1>3. EngineUsed
  BY <1>1 DEF EngineUsed
<1> QED BY <1>2, <1>3 DEF ProfileInv, HandleServes

(* Activation stops the proxy, and gives the pool the document or nothing. *)
LEMMA ActivateEngineKeeps ==
  ASSUME ProfileInv, NEW t \in HostThreads, ActivateEngine(t)
  PROVE  ProfileInv'
<1>1. RunsCommand(t, "activate")
  BY DEF ActivateEngine
<1>2. HandleMade /\ PoolServes(engineHandle.pool) /\ GoodDocument(command[t].document)
  BY <1>1, CommandHasHandle
<1> DEFINE q == Prepare(command[t].document)
<1>3. \/ q # None /\ engineHandle' = [engineHandle EXCEPT !.proxy = None, !.pool = q]
      \/ engineHandle' = [engineHandle EXCEPT !.proxy = None]
  BY DEF ActivateEngine
<1>4. q # None => PoolServes(q)
  BY <1>2, PreparedServes
<1> HIDE DEF q
<1>5. /\ HandleMade' /\ engineHandle'.proxy = None
      /\ engineHandle'.pool = engineHandle.pool \/ (q # None /\ engineHandle'.pool = q)
  <2> DEFINE h == engineHandle
  <2>1. DOMAIN h = {"inTable", "destroyed", "proxy", "pool"}
    BY <1>2 DEF HandleMade
  <2> HIDE DEF h
  <2>2. CASE q # None /\ engineHandle' = [h EXCEPT !.proxy = None, !.pool = q]
    BY <2>1, <2>2, HandleFields DEF HandleMade
  <2>3. CASE engineHandle' = [h EXCEPT !.proxy = None]
    BY <2>1, <2>3, HandleFields DEF HandleMade, h
  <2> QED BY <1>3, <2>2, <2>3 DEF h
<1>6. PoolServes(engineHandle'.pool)
  BY <1>2, <1>4, <1>5
<1> QED BY <1>1, <1>5, <1>6, CommandRuns

(* Stopping and destroying leave an empty pool and no proxy.               *)
LEMMA StopAndDestroyKeep ==
  ASSUME ProfileInv, NEW t \in HostThreads, StopEngine(t) \/ DestroyEngine(t)
  PROVE  ProfileInv'
<1> DEFINE q == [EmptyPool EXCEPT !.generation = NextGeneration]
<1>1. PICK o : /\ RunsCommand(t, o)
               /\ \/ engineHandle' = [engineHandle EXCEPT !.proxy = None, !.pool = q]
                  \/ engineHandle' = [engineHandle EXCEPT !.destroyed = TRUE, !.proxy = None, !.pool = q]
  BY DEF StopEngine, DestroyEngine
<1>2. HandleMade
  BY <1>1, CommandHasHandle
<1>3. PoolServes(q)
  BY EmptyPoolServes
<1> HIDE DEF q
<1>4. HandleMade' /\ engineHandle'.proxy = None /\ engineHandle'.pool = q
  <2> DEFINE h == engineHandle
  <2>1. DOMAIN h = {"inTable", "destroyed", "proxy", "pool"}
    BY <1>2 DEF HandleMade
  <2> HIDE DEF h
  <2>2. CASE engineHandle' = [h EXCEPT !.proxy = None, !.pool = q]
    BY <2>1, <2>2, HandleFields DEF HandleMade
  <2>3. CASE engineHandle' = [h EXCEPT !.destroyed = TRUE, !.proxy = None, !.pool = q]
    BY <2>1, <2>3, HandleFields DEF HandleMade
  <2> QED BY <1>1, <2>2, <2>3 DEF h
<1>5. PoolServes(engineHandle'.pool)
  BY <1>3, <1>4
<1> QED BY <1>1, <1>4, <1>5, CommandRuns

(* A proxy starts over the pool of its generation; one that stops is gone. *)
LEMMA ProxyStartAndStopKeep ==
  ASSUME ProfileInv, NEW t \in HostThreads, StartEngineProxy(t) \/ StopEngineProxy(t)
  PROVE  ProfileInv'
<1>1. CASE StopEngineProxy(t)
  <2>1. RunsCommand(t, "proxy stop") /\ engineHandle' = [engineHandle EXCEPT !.proxy = None]
    BY <1>1 DEF StopEngineProxy
  <2>2. HandleMade /\ PoolServes(engineHandle.pool)
    BY <2>1, CommandHasHandle
  <2>3. HandleMade' /\ engineHandle'.proxy = None /\ engineHandle'.pool = engineHandle.pool
    BY <2>1, <2>2, HandleFields DEF HandleMade
  <2>4. PoolServes(engineHandle'.pool)
    BY <2>2, <2>3
  <2> QED BY <2>1, <2>3, <2>4, CommandRuns
<1>2. CASE StartEngineProxy(t)
  <2> DEFINE x == [rules |-> command[t].document.canonical.rules, generation |-> engineHandle.pool.generation]
  <2>1. /\ RunsCommand(t, "proxy start") /\ ~engineHandle.destroyed
        /\ engineHandle' = engineHandle \/ engineHandle' = [engineHandle EXCEPT !.proxy = x]
    BY <1>2 DEF StartEngineProxy
  <2>2. /\ HandleMade /\ PoolServes(engineHandle.pool)
        /\ engineHandle.proxy # None =>
             ~engineHandle.destroyed /\ engineHandle.proxy.generation = engineHandle.pool.generation
    BY <2>1, CommandHasHandle
  <2>3. x.generation = engineHandle.pool.generation
    OBVIOUS
  <2> HIDE DEF x
  <2>4. /\ HandleMade' /\ engineHandle'.pool = engineHandle.pool
        /\ engineHandle'.destroyed = engineHandle.destroyed
        /\ engineHandle'.proxy = engineHandle.proxy \/ engineHandle'.proxy = x
    <3>1. CASE engineHandle' = engineHandle
      BY <2>2, <3>1 DEF HandleMade
    <3>2. CASE engineHandle' = [engineHandle EXCEPT !.proxy = x]
      BY <2>2, <3>2, HandleFields DEF HandleMade
    <3> QED BY <2>1, <3>1, <3>2
  <2>5. PoolServes(engineHandle'.pool)
    BY <2>2, <2>4
  <2>6. engineHandle'.proxy # None =>
          ~engineHandle'.destroyed /\ engineHandle'.proxy.generation = engineHandle'.pool.generation
    BY <2>1, <2>2, <2>3, <2>4
  <2> QED BY <2>1, <2>4, <2>5, <2>6, CommandRuns
<1> QED BY <1>1, <1>2

(* Nothing is stored, held or created at the start.                        *)
LEMMA EngineInitEstablishes == EngineInit => ProfileInv
<1> SUFFICES ASSUME EngineInit PROVE ProfileInv
  OBVIOUS
<1>1. StoredGood
  BY DEF EngineInit, StoredGood
<1>2. CommandsGood /\ HandleServes
  BY DEF EngineInit, CommandsGood, HandleServes, EngineUsed
<1> QED BY <1>1, <1>2 DEF ProfileInv

(* Every step of the host's threads keeps the documents and the engine.    *)
LEMMA EngineStepKeeps == ProfileInv /\ [EngineNext]_engineVars => ProfileInv'
<1> SUFFICES ASSUME ProfileInv, [EngineNext]_engineVars PROVE ProfileInv'
  OBVIOUS
<1>1. CASE UNCHANGED engineVars
  BY <1>1 DEF engineVars, ProfileInv, StoredGood, CommandsGood, HandleServes, EngineUsed, HandleMade,
              GoodDocument
<1>2. CASE CreateEngine
  BY <1>2, CreateEngineKeeps
<1>3. ASSUME NEW fits \in BOOLEAN, NEW p \in Profiles, NormalizeProfile(p, fits) PROVE ProfileInv'
  BY <1>3, NormalizeKeeps
<1>4. ASSUME NEW fits \in BOOLEAN, NEW b \in Bundles, NormalizeEnrollment(b, fits) PROVE ProfileInv'
  BY <1>4, NormalizeKeeps
<1>5. ASSUME NEW t \in HostThreads, NEW o \in {"activate", "proxy start"}, NEW d \in stored.profiles,
             FindEngine(t, o, d)
      PROVE  ProfileInv'
  BY <1>5, FindEngineKeeps
<1>6. ASSUME NEW t \in HostThreads, NEW o \in {"stop", "proxy stop"}, FindEngine(t, o, None)
      PROVE  ProfileInv'
  <2>1. o \notin {"activate", "proxy start"}
    OBVIOUS
  <2> QED BY <1>6, <2>1, FindEngineKeeps
<1>7. ASSUME NEW t \in HostThreads, CommandRefused(t) \/ RemoveEngine(t) PROVE ProfileInv'
  BY <1>7, RefusedAndRemovedKeep
<1>8. ASSUME NEW t \in HostThreads, ActivateEngine(t) PROVE ProfileInv'
  BY <1>8, ActivateEngineKeeps
<1>9. ASSUME NEW t \in HostThreads, StopEngine(t) \/ DestroyEngine(t) PROVE ProfileInv'
  BY <1>9, StopAndDestroyKeep
<1>10. ASSUME NEW t \in HostThreads, StartEngineProxy(t) \/ StopEngineProxy(t) PROVE ProfileInv'
  BY <1>10, ProxyStartAndStopKeep
<1> QED BY <1>1, <1>2, <1>3, <1>4, <1>5, <1>6, <1>7, <1>8, <1>9, <1>10 DEF EngineNext

(* Canonical documents are stable, and the engine serves its source.       *)
LEMMA ProfileInvServes == ProfileInv => ProfileServed
<1> SUFFICES ASSUME ProfileInv PROVE ProfileServed
  OBVIOUS
<1>1. ASSUME NEW d \in stored.profiles PROVE Normalize(d.canonical) = d.canonical
  <2>1. d.source \in Profiles /\ Normalize(d.source) # None /\ d.canonical = Normalize(d.source)
    BY DEF ProfileInv, StoredGood, GoodDocument
  <2>2. Normalize(Normalize(d.source)) = Normalize(d.source)
    BY <2>1, NormalizeIsStable
  <2> QED BY <2>1, <2>2
<1>2. ASSUME NEW b \in stored.bundles PROVE NormalizeBundle(b) = b /\ ValidSecretRef(CredentialRef(b))
  <2>1. PICK c \in Bundles : NormalizeBundle(c) # None /\ b = NormalizeBundle(c)
    BY DEF ProfileInv, StoredGood
  <2> QED BY <2>1, BundlesAreStable
<1>3. EngineServesProfile
  BY DEF ProfileInv, HandleServes, EngineUsed, PoolServes, EngineServesProfile
<1> QED BY <1>1, <1>2, <1>3 DEF ProfileServed, DocumentsStable

(* For all documents, names and host threads: what is stored loads again   *)
(* as it is, an id or alias means to the activated pool the node it meant  *)
(* in the profile, and a running proxy serves the generation it was        *)
(* started for.                                                            *)
THEOREM ProfilesAlwaysServed == EngineSpec => []ProfileServed
<1>1. EngineSpec => []ProfileInv
  BY EngineInitEstablishes, EngineStepKeeps, PTL DEF EngineSpec
<1> QED BY <1>1, ProfileInvServes, PTL

-----------------------------------------------------------------------------
(* The routing policy: a rule matches by masks, suffixes and port ranges   *)
(* exactly where it covers, so that the first match is the first cover.    *)

(* A nonempty set of naturals has a least element, which Min returns.      *)
LEMMA MinIsLeast ==
  ASSUME NEW S \in SUBSET Nat, S # {}
  PROVE  Min(S) \in S /\ \A y \in S : Min(S) <= y
<1> DEFINE R == OpToRel(<, Nat)
<1>1. PICK k \in S : \A j \in S : ~(<<j, k>> \in R)
  <2>1. IsWellFoundedOn(R, Nat) BY NatLessThanWellFounded
  <2> HIDE DEF R
  <2> QED BY <2>1, WFMin
<1>2. \A y \in S : k <= y
  <2> TAKE y \in S
  <2>1. ~(y < k) BY <1>1 DEF OpToRel
  <2> QED BY <2>1
<1> QED BY <1>2 DEF Min

(* Products grow with their first factor.                                  *)
LEMMA ProductsGrow ==
  ASSUME NEW a \in Int, NEW b \in Int, NEW c \in Nat, a <= b
  PROVE  a * c \in Int /\ b * c \in Int /\ a * c <= b * c
<1>1. PICK d \in Nat : b = a + d
  <2>1. b - a \in Nat /\ b = a + (b - a) OBVIOUS
  <2> QED BY <2>1
<1>2. (a + d) * c = a * c + d * c /\ d * c \in Nat /\ a * c \in Int
  OBVIOUS
<1> QED BY <1>1, <1>2

(* A number rounded down to a multiple is n exactly in the interval of n.  *)
LEMMA RoundedDown ==
  ASSUME NEW low \in Nat \ {0}, NEW b \in Nat, NEW n \in Nat, (n \div low) * low = n
  PROVE  (b \div low) * low = n <=> n <= b /\ b <= n + low - 1
<1> DEFINE q == b \div low
           m == n \div low
<1>1. /\ q \in Nat /\ m \in Nat /\ q * low \in Nat /\ m * low = n
      /\ q * low <= b /\ b < q * low + low
  <2>1. q \in Nat /\ m \in Nat
    OBVIOUS
  <2>2. b = low * q + (b % low) /\ b % low \in 0 .. low - 1
    OBVIOUS
  <2> HIDE DEF q, m
  <2>3. low * q = q * low /\ q * low \in Nat
    BY <2>1
  <2> QED BY <2>1, <2>2, <2>3 DEF m
<1> HIDE DEF q, m
<1>2. ASSUME n <= b, b <= n + low - 1 PROVE q = m
  <2>1. CASE q < m
    <3>1. (q + 1) * low <= m * low
      BY <1>1, <2>1, ProductsGrow
    <3>2. (q + 1) * low = q * low + low
      BY <1>1
    <3> QED BY <1>1, <1>2, <3>1, <3>2
  <2>2. CASE m < q
    <3>1. (m + 1) * low <= q * low
      BY <1>1, <2>2, ProductsGrow
    <3>2. (m + 1) * low = m * low + low
      BY <1>1
    <3> QED BY <1>1, <1>2, <3>1, <3>2
  <2> QED BY <1>1, <2>1, <2>2
<1>3. q * low = n <=> n <= b /\ b <= n + low - 1
  BY <1>1, <1>2
<1> QED BY <1>3 DEF q

(* A power of two counts the subsets of a set, so it is not zero.          *)
LEMMA PowersPositive ==
  ASSUME NEW k \in Nat
  PROVE  2 ^ k \in Nat \ {0}
<1> DEFINE S == 1 .. k
<1>1. IsFiniteSet(S) /\ Cardinality(S) = k
  BY FS_Interval
<1> HIDE DEF S
<1>2. IsFiniteSet(SUBSET S) /\ Cardinality(SUBSET S) = 2 ^ k
  BY <1>1, FS_SUBSET
<1>3. Cardinality(SUBSET S) \in Nat /\ Cardinality(SUBSET S) # 0
  <2>1. {} \in SUBSET S
    OBVIOUS
  <2> QED BY <1>2, <2>1, FS_CardinalityType, FS_EmptySet
<1> QED BY <1>2, <1>3

(* An address is in a valid network exactly when it is in its interval.    *)
LEMMA NetworkIsInterval ==
  ASSUME NEW cidr, cidr.network \in Address, cidr.prefix \in Nat, ValidCidr(cidr), NEW ip \in Address
  PROVE  CidrContains(cidr, ip) <=>
           /\ cidr.network.family = ip.family
           /\ ip.bits \in cidr.network.bits ..
                (cidr.network.bits + 2 ^ (AddressBits[ip.family] - cidr.prefix) - 1)
<1> SUFFICES ASSUME cidr.network.family = ip.family
             PROVE  CidrContains(cidr, ip) <=>
                      ip.bits \in cidr.network.bits ..
                        (cidr.network.bits + 2 ^ (AddressBits[ip.family] - cidr.prefix) - 1)
  BY DEF CidrContains
<1> DEFINE width == AddressBits[ip.family]
           low == 2 ^ (width - cidr.prefix)
           net == cidr.network
<1>1. ip.family \in Families /\ ip.bits \in Nat /\ net.bits \in Nat /\ net.family = ip.family
  BY DEF Address
<1>2. width \in Nat /\ cidr.prefix <= width
  BY <1>1, TunPolicyAssumption DEF ValidCidr
<1>3. low \in Nat \ {0}
  <2>1. width - cidr.prefix \in Nat
    BY <1>2
  <2> QED BY <2>1, PowersPositive
<1>4. (IF cidr.prefix < width THEN cidr.prefix ELSE width) = cidr.prefix
  BY <1>2
<1>5. /\ Mask(cidr, ip) = [ip EXCEPT !.bits = (ip.bits \div low) * low]
      /\ Mask(cidr, net) = [net EXCEPT !.bits = (net.bits \div low) * low]
  BY <1>1, <1>4 DEF Mask
<1> HIDE DEF low, width
<1>6. (net.bits \div low) * low = net.bits
  <2>1. [net EXCEPT !.bits = (net.bits \div low) * low].bits = (net.bits \div low) * low
    BY DEF Address
  <2> QED BY <1>5, <2>1 DEF ValidCidr
<1>7. [ip EXCEPT !.bits = (ip.bits \div low) * low] = net <=> (ip.bits \div low) * low = net.bits
  BY <1>1 DEF Address
<1>8. (ip.bits \div low) * low = net.bits <=> net.bits <= ip.bits /\ ip.bits <= net.bits + low - 1
  BY <1>1, <1>3, <1>6, RoundedDown
<1>9. CidrContains(cidr, ip) <=> net.bits <= ip.bits /\ ip.bits <= net.bits + low - 1
  BY <1>5, <1>7, <1>8 DEF CidrContains
<1>10. ip.bits \in net.bits .. (net.bits + low - 1) <=> net.bits <= ip.bits /\ ip.bits <= net.bits + low - 1
  BY <1>1, <1>3
<1> QED BY <1>9, <1>10 DEF low, width

(* A suffix is what is left when a head is cut.                            *)
LEMMA SuffixIsTail ==
  ASSUME NEW S, NEW v \in Seq(S), NEW s \in Seq(S)
  PROVE  IsSuffix(v, s) <=> \E head \in SubSeqs(s) : s = head \o v
<1> DEFINE a == Reverse(v)
           b == Reverse(s)
<1>1. /\ a \in Seq(S) /\ b \in Seq(S) /\ Len(a) = Len(v) /\ Len(b) = Len(s)
      /\ Len(v) \in Nat /\ Len(s) \in Nat
      /\ \A i \in 1 .. Len(v) : a[i] = v[Len(v) - i + 1]
      /\ \A i \in 1 .. Len(s) : b[i] = s[Len(s) - i + 1]
  BY DEF Reverse
<1> HIDE DEF a, b
<1>2. IsSuffix(v, s) <=> Len(v) <= Len(s) /\ \A i \in 1 .. Len(v) : a[i] = b[i]
  <2>1. IsSuffix(v, s) <=> Len(v) <= Len(s) /\ SubSeq(a, 1, Len(v)) = SubSeq(b, 1, Len(v))
    BY <1>1 DEF IsSuffix, IsPrefix, a, b
  <2>2. ASSUME Len(v) <= Len(s)
        PROVE  SubSeq(a, 1, Len(v)) = SubSeq(b, 1, Len(v)) <=> \A i \in 1 .. Len(v) : a[i] = b[i]
    <3>1. /\ SubSeq(a, 1, Len(v)) = [i \in 1 .. Len(v) |-> a[i]]
          /\ SubSeq(b, 1, Len(v)) = [i \in 1 .. Len(v) |-> b[i]]
      BY <1>1, <2>2
    <3> QED BY <3>1
  <2> QED BY <2>1, <2>2
<1>3. ASSUME Len(v) <= Len(s), \A i \in 1 .. Len(v) : a[i] = b[i]
      PROVE  \E head \in SubSeqs(s) : s = head \o v
  <2> DEFINE k == Len(s) - Len(v)
             head == SubSeq(s, 0 + 1, k)
  <2>1. k \in 0 .. Len(s) /\ 0 \in 0 .. Len(s)
    BY <1>1, <1>3
  <2>2. head \in SubSeqs(s)
    <3>1. \E i, j \in 0 .. Len(s) : head = SubSeq(s, i + 1, j)
      <4> HIDE DEF k
      <4> QED BY <2>1
    <3> HIDE DEF head
    <3> QED BY <3>1 DEF SubSeqs
  <2>3. head \in Seq(S) /\ Len(head) = k /\ \A i \in 1 .. k : head[i] = s[i]
    BY <1>1, <2>1
  <2>4. ASSUME NEW i \in 1 .. Len(v) PROVE v[i] = s[k + i]
    <3>1. Len(v) - i + 1 \in 1 .. Len(v) /\ Len(v) - i + 1 \in 1 .. Len(s)
      BY <1>1, <1>3
    <3>2. a[Len(v) - i + 1] = v[Len(v) - (Len(v) - i + 1) + 1]
      BY <1>1, <3>1
    <3>3. b[Len(v) - i + 1] = s[Len(s) - (Len(v) - i + 1) + 1]
      BY <1>1, <3>1
    <3>4. Len(v) - (Len(v) - i + 1) + 1 = i /\ Len(s) - (Len(v) - i + 1) + 1 = k + i
      BY <1>1
    <3> QED BY <1>3, <3>1, <3>2, <3>3, <3>4
  <2> HIDE DEF head
  <2>5. s = head \o v
    <3>1. head \o v \in Seq(S) /\ Len(head \o v) = k + Len(v) /\ k + Len(v) = Len(s)
      BY <1>1, <2>3
    <3>2. ASSUME NEW i \in 1 .. Len(s) PROVE (head \o v)[i] = s[i]
      <4>1. CASE i <= k
        BY <1>1, <2>1, <2>3, <4>1
      <4>2. CASE ~(i <= k)
        <5>1. i - k \in 1 .. Len(v) /\ k + (i - k) = i
          BY <1>1, <2>1, <4>2
        <5>2. (head \o v)[i] = v[i - Len(head)]
          <6>1. i \in 1 .. Len(head) + Len(v) /\ ~(i <= Len(head))
            BY <1>1, <2>1, <2>3, <4>2
          <6>2. head \in Seq(S) /\ v \in Seq(S)
            BY <1>1, <2>3
          <6> QED BY <6>1, <6>2, ConcatProperties
        <5>3. v[i - Len(head)] = v[i - k]
          BY <2>3
        <5> QED BY <2>4, <5>1, <5>2, <5>3
      <4> QED BY <4>1, <4>2
    <3> DEFINE w == head \o v
    <3>3. w \in Seq(S) /\ Len(w) = Len(s) /\ \A i \in 1 .. Len(s) : w[i] = s[i]
      BY <3>1, <3>2
    <3> HIDE DEF w
    <3>4. s = w
      BY <3>3
    <3> QED BY <3>4 DEF w
  <2> QED BY <2>2, <2>5
<1>4. ASSUME NEW head \in SubSeqs(s), s = head \o v
      PROVE  Len(v) <= Len(s) /\ \A i \in 1 .. Len(v) : a[i] = b[i]
  <2>1. PICK x \in 0 .. Len(s), y \in 0 .. Len(s) : head = SubSeq(s, x + 1, y)
    BY DEF SubSeqs
  <2>2. head \in Seq(S) /\ Len(head) \in Nat
    BY <1>1, <2>1
  <2>3. Len(s) = Len(head) + Len(v)
    BY <1>1, <1>4, <2>2
  <2>4. ASSUME NEW i \in 1 .. Len(v) PROVE a[i] = b[i]
    <3>0. Len(s) \in Nat /\ Len(v) \in Nat
      BY <1>1
    <3>1. i \in 1 .. Len(s) /\ Len(s) - i + 1 \in 1 .. Len(s) /\ Len(s) - i + 1 > Len(head)
          /\ Len(s) - i + 1 - Len(head) = Len(v) - i + 1
      BY ONLY i \in 1 .. Len(v), <2>2, <2>3, <3>0
    <3>2. (head \o v)[Len(s) - i + 1] = v[Len(s) - i + 1 - Len(head)]
      BY <1>1, <2>2, <2>3, <3>1
    <3> QED BY <1>1, <1>4, <3>1, <3>2
  <2> QED BY <1>1, <2>2, <2>3, <2>4
<1> QED BY <1>2, <1>3, <1>4

(* The labels a flow is routed by: none when the policy knows no such name.*)
KnownName(name) == name = None \/ (IsName(name.labels) /\ name.labels # << >>)
LabelsOf(name) ==
  IF name # None /\ Range(name.labels) \cap BadLabels = {} THEN name.labels ELSE None

LEMMA NormalizedName ==
  ASSUME NEW name, KnownName(name)
  PROVE  /\ (IF name = None THEN None ELSE NormalizeDomain(name)) = LabelsOf(name)
         /\ LabelsOf(name) = None \/ IsName(LabelsOf(name))
<1>1. CASE name = None
  BY <1>1 DEF LabelsOf
<1>2. CASE name # None
  <2>1. IsName(name.labels) /\ name.labels # << >>
    BY <1>2 DEF KnownName
  <2>2. Range(name.labels) \cap BadLabels = {} <=> ~ \E i \in DOMAIN name.labels : name.labels[i] \in BadLabels
    BY DEF Range
  <2> QED BY <1>2, <2>1, <2>2 DEF LabelsOf, NormalizeDomain
<1> QED BY <1>1, <1>2

(* A rule matches exactly what it covers.                                  *)
LEMMA MatchIsCover ==
  ASSUME NEW rule, IsRule(rule), ValidRule(rule), NEW labels, labels = None \/ IsName(labels),
         NEW destination \in [ip : Address, port : Nat]
  PROVE  Matches(rule, labels, destination) <=> RuleCovers(rule, labels, destination)
<1>1. destination.ip \in Address /\ destination.port \in Nat
  OBVIOUS
<1>2. CASE rule.kind = "DOMAIN"
  BY <1>2 DEF Matches, RuleCovers, ValidRule
<1>3. CASE rule.kind = "DOMAIN-SUFFIX"
  <2> DEFINE S == Range(rule.value) \cup Range(labels)
  <2>1. Matches(rule, labels, destination) <=> labels # None /\ IsSuffix(rule.value, labels)
    BY <1>3 DEF Matches
  <2>2. RuleCovers(rule, labels, destination) <=>
          labels # None /\ \E head \in SubSeqs(labels) : labels = head \o rule.value
    BY <1>3 DEF RuleCovers
  <2>3. ASSUME labels # None
        PROVE  IsSuffix(rule.value, labels) <=> \E head \in SubSeqs(labels) : labels = head \o rule.value
    <3>1. rule.value \in Seq(Range(rule.value)) /\ labels \in Seq(Range(labels))
      BY <1>3, <2>3 DEF IsRule, IsName
    <3>2. rule.value \in Seq(S) /\ labels \in Seq(S)
      BY <3>1
    <3> HIDE DEF S
    <3> QED BY <3>2, SuffixIsTail
  <2> QED BY <2>1, <2>2, <2>3
<1>4. CASE rule.kind = "IP-CIDR"
  <2>1. /\ rule.value.network \in Address /\ rule.value.prefix \in Nat /\ ValidCidr(rule.value)
    BY <1>4 DEF IsRule, ValidRule
  <2>2. Matches(rule, labels, destination) <=> CidrContains(rule.value, destination.ip)
    BY <1>4 DEF Matches
  <2>3. CidrContains(rule.value, destination.ip) <=>
          /\ rule.value.network.family = destination.ip.family
          /\ destination.ip.bits \in rule.value.network.bits ..
               (rule.value.network.bits
                  + 2 ^ (AddressBits[destination.ip.family] - rule.value.prefix) - 1)
    BY <1>1, <2>1, NetworkIsInterval
  <2>4. RuleCovers(rule, labels, destination) <=>
          /\ rule.value.network.family = destination.ip.family
          /\ destination.ip.bits \in rule.value.network.bits ..
               (rule.value.network.bits
                  + 2 ^ (AddressBits[destination.ip.family] - rule.value.prefix) - 1)
    BY <1>4, Zenon DEF RuleCovers
  <2> QED BY <2>2, <2>3, <2>4
<1>5. CASE rule.kind = "DST-PORT"
  <2>1. rule.value.start \in Nat /\ rule.value.end \in Nat
    BY <1>5 DEF IsRule
  <2> QED BY <1>1, <1>5, <2>1 DEF Matches, RuleCovers, PortsContain
<1>6. CASE rule.kind = "MATCH"
  BY <1>6 DEF Matches, RuleCovers
<1> QED BY <1>2, <1>3, <1>4, <1>5, <1>6 DEF IsRule

(* decide returns the action of the first rule that covers the flow.       *)
LEMMA DecideIsFirstCover ==
  ASSUME NEW rules \in Policies, NEW name, KnownName(name),
         NEW destination \in [ip : Address, port : Nat]
  PROVE  LET covered == {i \in DOMAIN rules : RuleCovers(rules[i], LabelsOf(name), destination)}
         IN Decide(rules, name, destination) =
              IF covered = {} THEN "PROXY" ELSE rules[Min(covered)].action
<1> DEFINE domain == IF name = None THEN None ELSE NormalizeDomain(name)
           I == {i \in 1 .. Len(rules) : Matches(rules[i], domain, destination)}
           covered == {i \in DOMAIN rules : RuleCovers(rules[i], LabelsOf(name), destination)}
           matching == IF I # {} THEN Min(I) ELSE 0
<1>1. /\ Len(rules) \in Nat /\ DOMAIN rules = 1 .. Len(rules)
      /\ \A i \in DOMAIN rules : IsRule(rules[i]) /\ ValidRule(rules[i])
  BY TunPolicyAssumption DEF ValidPolicy
<1>2. domain = LabelsOf(name) /\ (domain = None \/ IsName(domain))
  BY NormalizedName
<1>3. Decide(rules, name, destination) = IF matching = 0 THEN "PROXY" ELSE rules[matching].action
  BY DEF Decide, SelectInSeq
<1> HIDE DEF domain
<1>4. I = covered
  <2>1. \A i \in DOMAIN rules : Matches(rules[i], domain, destination) <=> RuleCovers(rules[i], domain, destination)
    BY <1>1, <1>2, MatchIsCover
  <2> QED BY <1>1, <1>2, <2>1
<1>5. I \in SUBSET Nat /\ 0 \notin I
  OBVIOUS
<1>6. I # {} => Min(I) \in I
  <2> HIDE DEF I
  <2> QED BY <1>5, MinIsLeast
<1> HIDE DEF I, covered
<1>7. Decide(rules, name, destination) = IF covered = {} THEN "PROXY" ELSE rules[Min(covered)].action
  BY <1>3, <1>4, <1>5, <1>6
<1> QED BY <1>7 DEF covered

(* Mappings hold names and addresses; the last decision was decide's.      *)
MappingTyped(x) ==
  /\ DOMAIN x = {"domain", "real", "ttl"} /\ x.real \in Address /\ x.ttl \in Nat
  /\ IsName(x.domain) /\ x.domain # << >>
DecisionMade(d) ==
  /\ d.rules \in Policies /\ KnownName(d.name) /\ d.destination \in [ip : Address, port : Nat]
  /\ d.action = Decide(d.rules, d.name, d.destination)
DecisionInv ==
  /\ policy \in Policies
  /\ \A f \in DOMAIN mappings : MappingTyped(mappings[f])
  /\ decision # None => DecisionMade(decision)

(* Expired mappings go, the others stay as they are.                       *)
LEMMA LiveMappings ==
  /\ DOMAIN Live = {f \in DOMAIN mappings : mappings[f].ttl > 0}
  /\ \A f \in DOMAIN Live : Live[f] = mappings[f]
BY DEF Live, Restrict

(* An allocation keeps live mappings, and writes one of the question.      *)
LEMMA AllocateKeepsDecisions ==
  ASSUME DecisionInv, NEW g, NEW q \in Questions, NEW ttl \in Ttls, Allocate(g, q, ttl)
  PROVE  DecisionInv'
<1>1. UNCHANGED policy /\ decision' = None
  BY DEF Allocate
<1>2. \A f \in DOMAIN Live : MappingTyped(Live[f])
  BY LiveMappings DEF DecisionInv
<1>3. ttl \in Nat /\ IsName(q.name.labels) /\ q.real \in Address
  BY TunPolicyAssumption
<1> DEFINE domain == FakeDomain(q.name)
           same == {f \in DOMAIN Live : Live[f].domain = domain /\ Live[f].real = q.real}
           kept == Restrict(Live, DOMAIN Live \ Evicted(Live, OrderOf(Live)))
           new == [domain |-> domain, real |-> q.real, ttl |-> ttl]
           free == FreeCandidates(q.real.family, kept)
           fake == Candidate(q.real.family, IF free = {} THEN DnsCapacity ELSE Min(free))
<1>4. /\ domain # None
      /\ \/ mappings' = [f \in DOMAIN Live |-> IF f = CHOOSE x \in same : TRUE
                                               THEN [Live[f] EXCEPT !.ttl = ttl] ELSE Live[f]]
         \/ mappings' = kept
         \/ mappings' = [f \in DOMAIN kept \cup {fake} |-> IF f = fake THEN new ELSE kept[f]]
  BY Zenon DEF Allocate
<1>5. MappingTyped(new)
  <2>1. domain = q.name.labels /\ domain # << >>
    BY <1>4 DEF FakeDomain
  <2> HIDE DEF domain
  <2> QED BY <1>3, <2>1 DEF MappingTyped
<1>6. \A f \in DOMAIN Live : MappingTyped([Live[f] EXCEPT !.ttl = ttl])
  <2> TAKE f \in DOMAIN Live
  <2> DEFINE old == Live[f]
  <2>1. MappingTyped(old)
    BY <1>2
  <2> HIDE DEF old
  <2>2. MappingTyped([old EXCEPT !.ttl = ttl])
    BY <1>3, <2>1 DEF MappingTyped
  <2> QED BY <2>2 DEF old
<1>7. \A f \in DOMAIN kept : MappingTyped(kept[f])
  BY <1>2 DEF Restrict
<1> HIDE DEF domain, same, kept, new, fake
<1>8. \A f \in DOMAIN mappings' : MappingTyped(mappings'[f])
  <2>1. CASE mappings' = [f \in DOMAIN Live |-> IF f = CHOOSE x \in same : TRUE
                                               THEN [Live[f] EXCEPT !.ttl = ttl] ELSE Live[f]]
    BY <1>2, <1>6, <2>1
  <2>2. CASE mappings' = kept
    BY <1>7, <2>2
  <2>3. CASE mappings' = [f \in DOMAIN kept \cup {fake} |-> IF f = fake THEN new ELSE kept[f]]
    BY <1>5, <1>7, <2>3
  <2> QED BY <1>4, <2>1, <2>2, <2>3
<1> QED BY <1>1, <1>8 DEF DecisionInv

(* A flow is decided by the policy, on the name and address it stands for. *)
LEMMA DecideFlowKeepsDecisions ==
  ASSUME DecisionInv, NEW g, NEW flow \in Destinations, DecideFlow(g, flow)
  PROVE  DecisionInv'
<1> DEFINE known == flow.ip \in DOMAIN Live
           destination == IF known THEN [flow EXCEPT !.ip = Live[flow.ip].real] ELSE flow
           name == IF known THEN [labels |-> Live[flow.ip].domain, upper |-> FALSE, dotted |-> FALSE]
                   ELSE None
           made == [action |-> Decide(policy, name, destination), rules |-> policy,
                    name |-> name, destination |-> destination]
<1>1. mappings' = Live /\ UNCHANGED policy /\ decision' = made
  BY DEF DecideFlow
<1>2. \A f \in DOMAIN Live : MappingTyped(Live[f])
  BY LiveMappings DEF DecisionInv
<1>3. flow \in [ip : Address, port : Nat]
  BY TunPolicyAssumption
<1>4. destination \in [ip : Address, port : Nat]
  <2>1. CASE known
    <3>1. Live[flow.ip].real \in Address
      BY <1>2, <2>1 DEF MappingTyped
    <3> QED BY <1>3, <2>1, <3>1
  <2>2. CASE ~known
    BY <1>3, <2>2
  <2> QED BY <2>1, <2>2
<1>5. KnownName(name)
  <2>1. CASE known
    <3>1. name.labels = Live[flow.ip].domain
      BY <2>1
    <3>2. IsName(Live[flow.ip].domain) /\ Live[flow.ip].domain # << >>
      BY <1>2, <2>1 DEF MappingTyped
    <3> HIDE DEF name
    <3> QED BY <3>1, <3>2 DEF KnownName
  <2>2. CASE ~known
    BY <2>2 DEF KnownName
  <2> QED BY <2>1, <2>2
<1> HIDE DEF name, destination
<1>6. DecisionMade(made)
  BY <1>4, <1>5 DEF DecisionMade, DecisionInv
<1> HIDE DEF made
<1> QED BY <1>1, <1>2, <1>6 DEF DecisionInv

(* Time only shortens what mappings have left.                             *)
LEMMA TickKeepsDecisions ==
  ASSUME DecisionInv, DnsTick
  PROVE  DecisionInv'
<1>1. /\ UNCHANGED policy /\ decision' = None
      /\ mappings' = [f \in DOMAIN mappings |->
                        [mappings[f] EXCEPT !.ttl = IF @ > 0 THEN @ - 1 ELSE 0]]
  BY DEF DnsTick
<1>2. ASSUME NEW f \in DOMAIN mappings
      PROVE  MappingTyped([mappings[f] EXCEPT !.ttl = IF @ > 0 THEN @ - 1 ELSE 0])
  <2> DEFINE old == mappings[f]
  <2>1. MappingTyped(old)
    BY DEF DecisionInv
  <2> HIDE DEF old
  <2>2. MappingTyped([old EXCEPT !.ttl = IF @ > 0 THEN @ - 1 ELSE 0])
    BY <2>1 DEF MappingTyped
  <2> QED BY <2>2 DEF old
<1> QED BY <1>1, <1>2 DEF DecisionInv

(* For all policies, names, addresses and widths: whatever is allocated,   *)
(* expires or is replaced, a flow is decided by the earliest rule that     *)
(* covers it once its name is restored, and goes to PROXY where none does. *)
THEOREM DecisionsAlwaysFollowRules == DnsSpec => []DecisionsFollowRules
<1>1. DnsInit => DecisionInv
  BY DEF DnsInit, DecisionInv
<1>2. DecisionInv /\ [DnsNext]_dnsVars => DecisionInv'
  <2> SUFFICES ASSUME DecisionInv, [DnsNext]_dnsVars PROVE DecisionInv'
    OBVIOUS
  <2>1. CASE UNCHANGED dnsVars
    BY <2>1 DEF dnsVars, DecisionInv
  <2>2. ASSUME NEW g \in Generations, NEW q \in Questions, NEW ttl \in Ttls, Allocate(g, q, ttl)
        PROVE  DecisionInv'
    BY <2>2, AllocateKeepsDecisions
  <2>3. ASSUME NEW g \in Generations, NEW d \in Destinations, DecideFlow(g, d)
        PROVE  DecisionInv'
    BY <2>3, DecideFlowKeepsDecisions
  <2>4. ASSUME NEW g \in Generations, NEW rules \in Policies, ReplaceGeneration(g, rules)
        PROVE  DecisionInv'
    BY <2>4 DEF ReplaceGeneration, DecisionInv
  <2>5. CASE DnsTick
    BY <2>5, TickKeepsDecisions
  <2> QED BY <2>1, <2>2, <2>3, <2>4, <2>5 DEF DnsNext
<1>3. DecisionInv => DecisionsFollowRules
  <2> SUFFICES ASSUME DecisionInv, decision # None PROVE DecisionsFollowRules
    BY DEF DecisionsFollowRules
  <2>1. DecisionMade(decision)
    BY DEF DecisionInv
  <2> DEFINE covered == {i \in DOMAIN decision.rules :
                           RuleCovers(decision.rules[i], LabelsOf(decision.name), decision.destination)}
  <2>2. Decide(decision.rules, decision.name, decision.destination) =
          IF covered = {} THEN "PROXY" ELSE decision.rules[Min(covered)].action
    BY <2>1, DecideIsFirstCover DEF DecisionMade
  <2> QED BY <2>1, <2>2 DEF DecisionMade, DecisionsFollowRules, LabelsOf
<1> QED BY <1>1, <1>2, <1>3, PTL DEF DnsSpec

-----------------------------------------------------------------------------
(* The fake addresses. The IPv4 ones are a circle that next_ipv4 goes      *)
(* round: At(n, k) is the address k places ahead of n.                     *)
At(n, k) == [family |-> 4, bits |-> FakeFirst[4] + ((n - FakeFirst[4] + k) % FakeSpan)]

(* The places before e that are free to be handed out.                     *)
FreeBefore(n, e, mapped) == {k \in 0 .. e - 1 : At(n, k) \notin mapped}

(* An address handed out d allocations ago is not soon reached again: so   *)
(* many free ones are ahead of it.                                         *)
FarAway(n, mapped, x, d) ==
  \E e \in 0 .. FakeSpan - 1 :
    x = At(n, e) /\ Cardinality(FreeBefore(n, e, mapped)) + DnsCapacity + d >= FakeSpan

(* A remainder is determined by what is left of a multiple.                *)
LEMMA RemainderIsUnique ==
  ASSUME NEW span \in Nat \ {0}, NEW x \in Nat, NEW q \in Int, NEW r \in 0 .. span - 1,
         x = q * span + r
  PROVE  x % span = r
<1> DEFINE p == x \div span
           s == x % span
<1>1. p \in Int /\ s \in 0 .. span - 1 /\ x = span * p + s
  OBVIOUS
<1> HIDE DEF p, s
<1>2. span * p = p * span /\ p * span \in Int /\ q * span \in Int
  BY <1>1
<1>3. CASE q < p
  <2>1. (q + 1) * span <= p * span
    BY <1>1, <1>3, ProductsGrow
  <2>2. (q + 1) * span = q * span + span
    OBVIOUS
  <2> QED BY <1>1, <1>2, <2>1, <2>2
<1>4. CASE p < q
  <2>1. (p + 1) * span <= q * span
    BY <1>1, <1>4, ProductsGrow
  <2>2. (p + 1) * span = p * span + span
    BY <1>1
  <2> QED BY <1>1, <1>2, <2>1, <2>2
<1>5. s = r
  BY <1>1, <1>2, <1>3, <1>4
<1> QED BY <1>5 DEF s

(* What a number leaves, as a multiple and a rest.                         *)
LEMMA QuotientAndRest ==
  ASSUME NEW span \in Nat \ {0}, NEW x \in Nat
  PROVE  \E q \in Nat : x = q * span + (x % span) /\ q * span \in Nat /\ x % span \in 0 .. span - 1
<1> DEFINE p == x \div span
           s == x % span
<1>1. p \in Nat /\ s \in 0 .. span - 1 /\ x = span * p + s
  OBVIOUS
<1> HIDE DEF p, s
<1>2. span * p = p * span /\ p * span \in Nat
  BY <1>1
<1> QED BY <1>1, <1>2 DEF s

(* Steps round the circle add up.                                          *)
LEMMA RestsAddUp ==
  ASSUME NEW span \in Nat \ {0}, NEW x \in Nat, NEW k \in Nat
  PROVE  ((x % span) + k) % span = (x + k) % span
<1>1. PICK q \in Nat : x = q * span + (x % span) /\ q * span \in Nat /\ x % span \in 0 .. span - 1
  BY QuotientAndRest
<1> DEFINE y == (x % span) + k
<1>2. y \in Nat
  BY <1>1
<1>3. PICK p \in Nat : y = p * span + (y % span) /\ p * span \in Nat /\ y % span \in 0 .. span - 1
  BY <1>2, QuotientAndRest
<1>4. x + k = (q * span) + (p * span) + (y % span)
  <2>1. x + k = q * span + y
    BY <1>1
  <2> HIDE DEF y
  <2> QED BY <1>1, <1>2, <1>3, <2>1
<1>5. (q * span) + (p * span) = (q + p) * span
  BY <1>1, <1>3
<1>6. (x + k) % span = y % span
  <2>1. x + k \in Nat /\ q + p \in Int /\ x + k = (q + p) * span + (y % span)
    BY <1>1, <1>3, <1>4, <1>5
  <2> HIDE DEF y
  <2> QED BY <1>3, <2>1, RemainderIsUnique
<1> QED BY <1>6

(* A whole round changes nothing.                                          *)
LEMMA WholeRound ==
  ASSUME NEW span \in Nat \ {0}, NEW x \in Nat
  PROVE  (x + span) % span = x % span
<1>1. PICK q \in Nat : x = q * span + (x % span) /\ q * span \in Nat /\ x % span \in 0 .. span - 1
  BY QuotientAndRest
<1>2. (q + 1) * span = q * span + span
  OBVIOUS
<1>3. x + span \in Nat /\ q + 1 \in Int /\ x + span = (q + 1) * span + (x % span)
  BY <1>1, <1>2
<1> QED BY <1>1, <1>3, RemainderIsUnique

(* Within a round no place comes twice.                                    *)
LEMMA RestsDiffer ==
  ASSUME NEW span \in Nat \ {0}, NEW x \in Nat, NEW y \in Nat, x < y, y < x + span
  PROVE  x % span # y % span
<1> SUFFICES ASSUME x % span = y % span PROVE FALSE
  OBVIOUS
<1>1. PICK q \in Nat : x = q * span + (x % span) /\ q * span \in Nat /\ x % span \in 0 .. span - 1
  BY QuotientAndRest
<1>2. PICK p \in Nat : y = p * span + (y % span) /\ p * span \in Nat /\ y % span \in 0 .. span - 1
  BY QuotientAndRest
<1>3. q * span < p * span /\ p * span < q * span + span
  BY <1>1, <1>2
<1>4. CASE p <= q
  <2>1. p * span <= q * span
    BY <1>4, ProductsGrow
  <2> QED BY <1>1, <1>2, <1>3, <2>1
<1>5. CASE q < p
  <2>1. (q + 1) * span <= p * span
    BY <1>5, ProductsGrow
  <2>2. (q + 1) * span = q * span + span
    OBVIOUS
  <2> QED BY <1>1, <1>2, <1>3, <2>1, <2>2
<1> QED BY <1>4, <1>5

(* The circle has at least as many addresses as the table has mappings.    *)
LEMMA FakeCircle ==
  /\ 4 \in Families /\ 6 \in Families /\ FakeFirst[4] \in Nat /\ FakeLast[4] \in Nat
  /\ DnsCapacity \in Nat \ {0} /\ FakeSpan \in Nat \ {0} /\ FakeSpan >= DnsCapacity
  /\ FakeLast[4] = FakeFirst[4] + FakeSpan - 1
BY TunPolicyAssumption DEF FakeSpan

(* Where next_ipv4 may be.                                                 *)
OnCircle(n) == n \in FakeFirst[4] .. FakeLast[4]

LEMMA PlaceOnCircle ==
  ASSUME NEW n, OnCircle(n), NEW k \in Nat
  PROVE  /\ n \in Nat /\ n - FakeFirst[4] \in Nat /\ n - FakeFirst[4] + k \in Nat
         /\ At(n, k) \in Address /\ At(n, k).family = 4 /\ OnCircle(At(n, k).bits)
         /\ At(n, k).bits - FakeFirst[4] = (n - FakeFirst[4] + k) % FakeSpan
<1> DEFINE r == (n - FakeFirst[4] + k) % FakeSpan
<1>1. n \in Nat /\ n - FakeFirst[4] \in Nat /\ n - FakeFirst[4] + k \in Nat
  BY FakeCircle DEF OnCircle
<1>2. r \in 0 .. FakeSpan - 1
  BY <1>1, FakeCircle
<1> HIDE DEF r
<1>3. At(n, k) = [family |-> 4, bits |-> FakeFirst[4] + r]
  BY DEF At, r
<1>4. FakeFirst[4] + r \in Nat /\ FakeFirst[4] + r \in FakeFirst[4] .. FakeLast[4]
  BY <1>2, FakeCircle
<1>5. At(n, k) \in Address /\ At(n, k).family = 4 /\ At(n, k).bits = FakeFirst[4] + r
  BY <1>3, <1>4, FakeCircle DEF Address
<1>6. At(n, k).bits - FakeFirst[4] = r
  BY <1>2, <1>5, FakeCircle
<1> QED BY <1>1, <1>4, <1>5, <1>6 DEF OnCircle, r

(* Moving next_ipv4 moves the places; a round leads back.                  *)
LEMMA PlacesMove ==
  ASSUME NEW n, OnCircle(n), NEW u \in Nat, NEW k \in Nat
  PROVE  At(At(n, u).bits, k) = At(n, u + k) /\ At(n, u + FakeSpan) = At(n, u)
<1> DEFINE x == n - FakeFirst[4] + u
<1>1. x \in Nat /\ At(n, u).bits - FakeFirst[4] = x % FakeSpan
  BY PlaceOnCircle
<1>2. ((x % FakeSpan) + k) % FakeSpan = (x + k) % FakeSpan
  <2> HIDE DEF x
  <2> QED BY <1>1, FakeCircle, RestsAddUp
<1>3. (x + FakeSpan) % FakeSpan = x % FakeSpan
  <2> HIDE DEF x
  <2> QED BY <1>1, FakeCircle, WholeRound
<1>4. n - FakeFirst[4] + (u + k) = x + k /\ n - FakeFirst[4] + (u + FakeSpan) = x + FakeSpan
  <2>1. n - FakeFirst[4] \in Nat /\ FakeSpan \in Nat
    BY FakeCircle, PlaceOnCircle
  <2> DEFINE o == n - FakeFirst[4]
  <2> HIDE DEF o
  <2>2. o + (u + k) = o + u + k /\ o + (u + FakeSpan) = o + u + FakeSpan
    BY ONLY <2>1, u \in Nat, k \in Nat DEF o
  <2> QED BY <2>2 DEF o
<1> HIDE DEF x
<1>5. At(At(n, u).bits, k) = [family |-> 4, bits |-> FakeFirst[4] + (((x % FakeSpan) + k) % FakeSpan)]
  BY <1>1 DEF At
<1>6. At(n, u + k) = [family |-> 4, bits |-> FakeFirst[4] + ((x + k) % FakeSpan)]
  BY <1>4 DEF At
<1>7. At(n, u + FakeSpan) = [family |-> 4, bits |-> FakeFirst[4] + ((x + FakeSpan) % FakeSpan)]
  BY <1>4 DEF At
<1>8. At(n, u) = [family |-> 4, bits |-> FakeFirst[4] + (x % FakeSpan)]
  BY DEF At, x
<1> QED BY <1>2, <1>3, <1>5, <1>6, <1>7, <1>8

(* Within a round the places are different addresses.                      *)
LEMMA PlacesDiffer ==
  ASSUME NEW n, OnCircle(n), NEW i \in Nat, NEW j \in Nat, i < j, j < i + FakeSpan
  PROVE  At(n, i) # At(n, j)
<1> DEFINE x == n - FakeFirst[4] + i
           y == n - FakeFirst[4] + j
<1>1. /\ x \in Nat /\ At(n, i).bits - FakeFirst[4] = x % FakeSpan
      /\ y \in Nat /\ At(n, j).bits - FakeFirst[4] = y % FakeSpan
  BY PlaceOnCircle
<1>2. x < y /\ y < x + FakeSpan
  <2>1. n - FakeFirst[4] \in Nat /\ FakeSpan \in Nat
    BY FakeCircle, PlaceOnCircle
  <2> DEFINE o == n - FakeFirst[4]
  <2> HIDE DEF o
  <2>2. o + i < o + j /\ o + j < o + i + FakeSpan
    BY <2>1 DEF o
  <2> QED BY <2>2 DEF o
<1> HIDE DEF x, y
<1>3. x % FakeSpan # y % FakeSpan
  BY <1>1, <1>2, FakeCircle, RestsDiffer
<1> QED BY <1>1, <1>3

(* The free places are finitely many.                                      *)
LEMMA FreePlacesFinite ==
  ASSUME NEW n, NEW e \in Nat, NEW mapped
  PROVE  /\ IsFiniteSet(FreeBefore(n, e, mapped)) /\ Cardinality(FreeBefore(n, e, mapped)) \in Nat
         /\ FreeBefore(n, e, mapped) \subseteq 0 .. e - 1
<1>1. IsFiniteSet(0 .. e - 1)
  BY FS_Interval
<1>2. FreeBefore(n, e, mapped) \subseteq 0 .. e - 1
  BY DEF FreeBefore
<1> QED BY <1>1, <1>2, FS_Subset, FS_CardinalityType

(* Fewer mappings, or one of the other family, leave what was far away far.*)
LEMMA FarStaysFar ==
  ASSUME NEW n, NEW mapped, NEW x, NEW d \in Nat, FarAway(n, mapped, x, d),
         NEW less, \A k \in Nat : At(n, k) \in less => At(n, k) \in mapped
  PROVE  FarAway(n, less, x, d)
<1>1. PICK e \in 0 .. FakeSpan - 1 :
        x = At(n, e) /\ Cardinality(FreeBefore(n, e, mapped)) + DnsCapacity + d >= FakeSpan
  BY DEF FarAway
<1>2. e \in Nat /\ FakeSpan \in Nat /\ DnsCapacity \in Nat
  BY FakeCircle
<1>3. FreeBefore(n, e, mapped) \subseteq FreeBefore(n, e, less)
  BY <1>2 DEF FreeBefore
<1>4. Cardinality(FreeBefore(n, e, mapped)) <= Cardinality(FreeBefore(n, e, less))
  BY <1>2, <1>3, FreePlacesFinite, FS_Subset
<1>5. Cardinality(FreeBefore(n, e, less)) + DnsCapacity + d >= FakeSpan
  <2>1. Cardinality(FreeBefore(n, e, mapped)) \in Nat /\ Cardinality(FreeBefore(n, e, less)) \in Nat
    BY <1>2, FreePlacesFinite
  <2> QED BY <1>1, <1>2, <1>4, <2>1
<1> QED BY <1>1, <1>5 DEF FarAway

(* The first free address is handed out: it is none that is far away, and  *)
(* those are one nearer.                                                   *)
LEMMA FarComesNearer ==
  ASSUME NEW n, OnCircle(n), NEW kept, NEW x, NEW d \in Nat, FarAway(n, kept, x, d),
         d + DnsCapacity < FakeSpan, NEW u \in 0 .. DnsCapacity, At(n, u) \notin kept,
         \A k \in 0 .. DnsCapacity : At(n, k) \notin kept => u <= k
  PROVE  /\ x # At(n, u)
         /\ FarAway(At(n, u + 1).bits, kept \cup {At(n, u)}, x, d + 1)
<1>0. FakeSpan \in Nat /\ DnsCapacity \in Nat /\ u \in Nat
  BY FakeCircle
<1>1. PICK e \in 0 .. FakeSpan - 1 :
        x = At(n, e) /\ Cardinality(FreeBefore(n, e, kept)) + DnsCapacity + d >= FakeSpan
  BY DEF FarAway
<1> DEFINE free == FreeBefore(n, e, kept)
<1>2. e \in Nat /\ e < FakeSpan
  BY <1>0
<1>3. IsFiniteSet(free) /\ Cardinality(free) \in Nat /\ free \subseteq 0 .. e - 1
  BY <1>2, FreePlacesFinite
<1>4. u < e
  <2>1. free # {}
    <3> HIDE DEF free
    <3> SUFFICES ASSUME free = {} PROVE FALSE
      OBVIOUS
    <3>1. Cardinality(free) = 0
      BY FS_EmptySet
    <3> QED BY <1>0, <1>1, <3>1 DEF free
  <2>2. PICK k \in free : TRUE
    BY <2>1
  <2>3. k \in Nat /\ k < e /\ At(n, k) \notin kept
    BY <1>2, <1>3 DEF FreeBefore
  <2>4. CASE k <= DnsCapacity
    <3>1. k \in 0 .. DnsCapacity
      BY <1>0, <2>3, <2>4
    <3>2. u <= k
      BY <2>3, <3>1
    <3> QED BY <1>0, <1>2, <2>3, <3>2
  <2>5. CASE ~(k <= DnsCapacity)
    BY <1>0, <1>2, <2>3, <2>5
  <2> QED BY <2>4, <2>5
<1>5. x # At(n, u)
  <2>1. e < u + FakeSpan
    BY <1>0, <1>2
  <2> QED BY <1>0, <1>1, <1>2, <1>4, <2>1, PlacesDiffer
<1> DEFINE m == At(n, u + 1).bits
           c == e - u - 1
           left == FreeBefore(m, c, kept \cup {At(n, u)})
           g == [k \in free \ {u} |-> k - u - 1]
<1>6. c \in 0 .. FakeSpan - 1 /\ c \in Nat /\ u + 1 \in Nat
  BY <1>0, <1>2, <1>4
<1>7. \A k \in Nat : At(m, k) = At(n, u + 1 + k)
  <2> TAKE k \in Nat
  <2> HIDE DEF c
  <2> QED BY <1>6, PlacesMove
<1>8. x = At(m, c)
  <2>1. u + 1 + c = e
    BY <1>0, <1>2
  <2> HIDE DEF m, c
  <2> QED BY <1>1, <1>6, <1>7, <2>1
<1>9. g \in Injection(free \ {u}, left)
  <2>1. ASSUME NEW k \in free \ {u} PROVE k \in Nat /\ k - u - 1 \in left
    <3>1. k \in Nat /\ k < e /\ At(n, k) \notin kept /\ k # u
      BY <1>2, <1>3 DEF FreeBefore
    <3>2. u < k
      <4>1. CASE k < u
        <5>1. k \in 0 .. DnsCapacity
          BY <1>0, <3>1, <4>1
        <5> QED BY <1>0, <3>1, <4>1, <5>1
      <4> QED BY <1>0, <3>1, <4>1
    <3>3. k - u - 1 \in 0 .. c - 1 /\ k - u - 1 \in Nat /\ u + 1 + (k - u - 1) = k
      BY <1>0, <1>2, <3>1, <3>2
    <3>4. At(m, k - u - 1) = At(n, k)
      <4> DEFINE j == k - u - 1
      <4> HIDE DEF m, j
      <4>1. j \in Nat /\ u + 1 + j = k
        BY <3>3 DEF j
      <4>2. At(m, j) = At(n, k)
        BY <1>7, <4>1
      <4> QED BY <4>2 DEF j
    <3>5. At(n, k) # At(n, u)
      <4>1. k < u + FakeSpan
        BY <1>0, <1>2, <3>1
      <4> QED BY <1>0, <3>1, <3>2, <4>1, PlacesDiffer
    <3> HIDE DEF m, c
    <3> QED BY <3>1, <3>3, <3>4, <3>5 DEF FreeBefore
  <2> HIDE DEF free, left, m, c
  <2>2. g \in [free \ {u} -> left]
    BY <2>1
  <2>3. \A a, b \in free \ {u} : g[a] = g[b] => a = b
    <3> TAKE a, b \in free \ {u}
    <3>1. a \in Nat /\ b \in Nat
      BY <2>1
    <3> QED BY <1>0, <3>1
  <2>4. DOMAIN g = free \ {u}
    OBVIOUS
  <2> HIDE DEF g
  <2> QED BY <2>2, <2>3, <2>4 DEF Injection, IsInjective
<1>10. IsFiniteSet(left) /\ Cardinality(left) \in Nat
  <2> HIDE DEF m, c
  <2> QED BY <1>6, FreePlacesFinite
<1>11. Cardinality(free \ {u}) <= Cardinality(left)
  <2> HIDE DEF free, left, g
  <2> QED BY <1>9, <1>10, FS_Injection
<1>12. Cardinality(free \ {u}) >= Cardinality(free) - 1
  <2> HIDE DEF free
  <2>1. IsFiniteSet(free) /\ Cardinality(free) \in Nat
    BY <1>3
  <2>2. Cardinality(free \ {u}) = IF u \in free THEN Cardinality(free) - 1 ELSE Cardinality(free)
    BY <2>1, FS_RemoveElement
  <2> QED BY <2>1, <2>2
<1>13. Cardinality(left) + DnsCapacity + (d + 1) >= FakeSpan
  <2> HIDE DEF left
  <2>1. Cardinality(free) + DnsCapacity + d >= FakeSpan
    BY <1>1
  <2>2. Cardinality(free \ {u}) \in Nat
    BY <1>3, FS_RemoveElement, FS_CardinalityType
  <2> HIDE DEF free
  <2> QED BY <1>0, <1>3, <1>10, <1>11, <1>12, <2>1, <2>2
<1>14. FarAway(m, kept \cup {At(n, u)}, x, d + 1)
  <2> HIDE DEF m, c
  <2> QED BY <1>6, <1>8, <1>13 DEF FarAway
<1> QED BY <1>5, <1>14

(* The address just handed out is a whole round away.                      *)
LEMMA NewIsFar ==
  ASSUME NEW n, OnCircle(n), NEW kept, IsFiniteSet(kept), Cardinality(kept) < DnsCapacity,
         NEW u \in Nat
  PROVE  FarAway(At(n, u + 1).bits, kept \cup {At(n, u)}, At(n, u), 0)
<1>0. FakeSpan \in Nat \ {0} /\ DnsCapacity \in Nat /\ Cardinality(kept) \in Nat
  BY FakeCircle, FS_CardinalityType
<1> DEFINE m == At(n, u + 1).bits
           e == FakeSpan - 1
           all == 0 .. e - 1
           free == FreeBefore(m, e, kept \cup {At(n, u)})
           taken == all \ free
           g == [k \in taken |-> At(m, k)]
<1>1. e \in Nat /\ e \in 0 .. FakeSpan - 1 /\ u + 1 \in Nat
  BY <1>0
<1>2. OnCircle(m)
  BY <1>1, PlaceOnCircle
<1>3. At(m, e) = At(n, u)
  <2>1. At(m, e) = At(n, u + 1 + e)
    <3> HIDE DEF e
    <3> QED BY <1>1, PlacesMove
  <2>2. u + 1 + e = u + FakeSpan
    BY <1>0
  <2>3. At(n, u + FakeSpan) = At(n, u)
    BY PlacesMove
  <2> QED BY <2>1, <2>2, <2>3
<1>4. IsFiniteSet(all) /\ Cardinality(all) = e
  <2>1. IsFiniteSet(0 .. e - 1) /\ Cardinality(0 .. e - 1) = IF 0 > e - 1 THEN 0 ELSE e - 1 - 0 + 1
    <3>1. e - 1 \in Int
      BY <1>1
    <3> HIDE DEF e
    <3> QED BY <3>1, FS_Interval
  <2> QED BY <1>1, <2>1
<1>5. free \subseteq all /\ IsFiniteSet(free) /\ Cardinality(free) \in Nat
  <2> HIDE DEF e, m
  <2> QED BY <1>1, FreePlacesFinite
<1>6. g \in Injection(taken, kept)
  <2>1. ASSUME NEW k \in taken PROVE k \in Nat /\ k < e /\ At(m, k) \in kept
    <3>1. k \in Nat /\ k < e
      BY <1>1
    <3>2. At(m, k) \in kept \cup {At(n, u)}
      <4> HIDE DEF m, e
      <4> QED BY DEF FreeBefore
    <3>3. At(m, k) # At(n, u)
      <4>1. e < k + FakeSpan
        BY <1>0, <3>1
      <4> HIDE DEF m, e
      <4> QED BY <1>1, <1>2, <1>3, <3>1, <4>1, PlacesDiffer
    <3> QED BY <3>1, <3>2, <3>3
  <2> HIDE DEF taken, m
  <2>2. g \in [taken -> kept] /\ DOMAIN g = taken
    BY <2>1
  <2>3. \A a, b \in taken : a < b => g[a] # g[b]
    <3> TAKE a, b \in taken
    <3> HAVE a < b
    <3>1. a \in Nat /\ b \in Nat /\ b < e
      BY <2>1
    <3>2. b < a + FakeSpan
      BY <1>0, <3>1
    <3>3. At(m, a) # At(m, b)
      BY <1>2, <3>1, <3>2, PlacesDiffer
    <3> QED BY <3>3
  <2>4. \A a, b \in taken : g[a] = g[b] => a = b
    <3> TAKE a, b \in taken
    <3>1. a \in Nat /\ b \in Nat
      BY <2>1
    <3>2. a < b => g[a] # g[b]
      BY <2>3
    <3>3. b < a => g[a] # g[b]
      BY <2>3
    <3> HIDE DEF g
    <3> QED BY <3>1, <3>2, <3>3
  <2> HIDE DEF g
  <2> QED BY <2>2, <2>4 DEF Injection, IsInjective
<1>7. Cardinality(taken) <= Cardinality(kept)
  <2> HIDE DEF taken, g
  <2> QED BY <1>6, FS_Injection
<1>8. Cardinality(taken) = Cardinality(all) - Cardinality(free)
  <2>1. all \cap free = free
    BY <1>5
  <2>2. IsFiniteSet(all)
    BY <1>4
  <2> HIDE DEF all, free
  <2>3. Cardinality(all \ free) = Cardinality(all) - Cardinality(all \cap free)
    BY ONLY <2>2, FS_Difference
  <2> QED BY ONLY <2>1, <2>3 DEF taken
<1>9. Cardinality(free) + DnsCapacity + 0 >= FakeSpan
  <2> HIDE DEF all, free, taken
  <2>1. Cardinality(taken) = e - Cardinality(free)
    BY <1>4, <1>8
  <2> QED BY <1>0, <1>5, <1>7, <2>1
<1>10. FarAway(m, kept \cup {At(n, u)}, At(n, u), 0)
  <2> HIDE DEF m, e
  <2> QED BY <1>1, <1>3, <1>9 DEF FarAway
<1> QED BY <1>10

(* What an element at the end adds to a sequence.                          *)
LEMMA AppendAdds ==
  ASSUME NEW S, NEW q \in Seq(S), NEW x \in S
  PROVE  /\ Append(q, x) \in Seq(S) /\ Len(Append(q, x)) = Len(q) + 1
         /\ Range(Append(q, x)) = Range(q) \cup {x}
         /\ IsInjective(q) /\ x \notin Range(q) => IsInjective(Append(q, x))
<1> DEFINE a == Append(q, x)
<1>1. /\ a \in Seq(S) /\ Len(a) = Len(q) + 1 /\ Len(q) \in Nat /\ a[Len(q) + 1] = x
      /\ \A i \in 1 .. Len(q) : a[i] = q[i]
      /\ DOMAIN a = 1 .. Len(q) + 1 /\ DOMAIN q = 1 .. Len(q)
  OBVIOUS
<1> HIDE DEF a
<1>2. Range(a) = Range(q) \cup {x}
  <2>1. ASSUME NEW y \in Range(a) PROVE y \in Range(q) \cup {x}
    BY <1>1 DEF Range
  <2>2. ASSUME NEW y \in Range(q) \cup {x} PROVE y \in Range(a)
    <3>1. CASE y = x
      <4>1. Len(q) + 1 \in DOMAIN a
        BY <1>1
      <4> QED BY <1>1, <3>1, <4>1 DEF Range
    <3>2. CASE y \in Range(q)
      <4>1. PICK i \in 1 .. Len(q) : y = q[i]
        BY <1>1, <3>2 DEF Range
      <4>2. i \in DOMAIN a
        BY <1>1
      <4> QED BY <1>1, <4>1, <4>2 DEF Range
    <3> QED BY <3>1, <3>2
  <2> QED BY <2>1, <2>2
<1>3. ASSUME IsInjective(q), x \notin Range(q) PROVE IsInjective(a)
  <2>1. \A i, j \in 1 .. Len(q) : q[i] = q[j] => i = j
    BY <1>1, <1>3 DEF IsInjective
  <2>2. \A i \in 1 .. Len(q) : q[i] # x
    BY <1>1, <1>3 DEF Range
  <2>3. ASSUME NEW i \in 1 .. Len(q) + 1, NEW j \in 1 .. Len(q) + 1, a[i] = a[j] PROVE i = j
    <3>1. (i \in 1 .. Len(q) \/ i = Len(q) + 1) /\ (j \in 1 .. Len(q) \/ j = Len(q) + 1)
      BY <1>1
    <3> QED BY <1>1, <2>1, <2>2, <2>3, <3>1
  <2> QED BY <1>1, <2>3 DEF IsInjective
<1> QED BY <1>1, <1>2, <1>3 DEF a

(* The recursive function of retain exists, and is what it says.           *)
LEMMA RetainSteps ==
  ASSUME NEW S, NEW s \in Seq(S), NEW T
  PROVE  /\ PartlyRetained(s, T)[0] = << >>
         /\ \A k \in 1 .. Len(s) :
              PartlyRetained(s, T)[k] =
                IF s[k] \in T THEN Append(PartlyRetained(s, T)[k - 1], s[k])
                ELSE PartlyRetained(s, T)[k - 1]
<1> DEFINE step(f, i) == IF i = 0 THEN << >>
                         ELSE IF s[i] \in T THEN Append(f[i - 1], s[i]) ELSE f[i - 1]
           bad == {n \in 0 .. Len(s) : ~ \E f : f = [i \in 0 .. n |-> step(f, i)]}
<1>1. bad = {}
  <2> SUFFICES ASSUME bad # {} PROVE FALSE
    OBVIOUS
  <2>0. Len(s) \in Nat /\ bad \in SUBSET Nat
    OBVIOUS
  <2>1. PICK n \in bad : \A m \in bad : n <= m
    <3> HIDE DEF bad
    <3> QED BY <2>0, MinIsLeast
  <2>2. n \in Nat /\ n <= Len(s) /\ ~ \E f : f = [i \in 0 .. n |-> step(f, i)]
    OBVIOUS
  <2>3. CASE n = 0
    <3> DEFINE g == [i \in 0 .. 0 |-> << >>]
    <3>1. g = [i \in 0 .. 0 |-> step(g, i)]
      OBVIOUS
    <3> QED BY <2>2, <2>3, <3>1
  <2>4. CASE n # 0
    <3>0. n - 1 \in 0 .. Len(s) /\ ~(n <= n - 1)
      BY ONLY <2>0, <2>2, <2>4
    <3>1. PICK f : f = [i \in 0 .. n - 1 |-> step(f, i)]
      <4>1. n - 1 \notin bad
        BY <2>1, <3>0
      <4> QED BY <3>0, <4>1
    <3> DEFINE g == [i \in 0 .. n |-> IF i = n THEN step(f, n) ELSE f[i]]
    <3>2. g = [i \in 0 .. n |-> step(g, i)]
      <4>1. ASSUME NEW i \in 0 .. n PROVE g[i] = step(g, i)
        <5>1. n \in Nat /\ i \in Nat
          BY <2>2
        <5>2. CASE i = n
          <6>1. g[i - 1] = f[i - 1]
            BY <2>4, <5>1, <5>2
          <6> QED BY <2>4, <5>1, <5>2, <6>1
        <5>3. CASE i # n
          <6>1. i \in 0 .. n - 1 /\ (i # 0 => i - 1 \in 0 .. n /\ i - 1 # n)
            BY <5>1, <5>3
          <6>2. f[i] = step(f, i)
            BY <3>1, <6>1
          <6>3. i # 0 => g[i - 1] = f[i - 1]
            BY <6>1
          <6> QED BY <5>3, <6>2, <6>3
        <5> QED BY <5>2, <5>3
      <4> QED BY <4>1
    <3> QED BY <2>2, <3>2
  <2> QED BY <2>3, <2>4
<1>2. \E f : f = [i \in 0 .. Len(s) |-> step(f, i)]
  <2>1. Len(s) \in 0 .. Len(s)
    OBVIOUS
  <2>2. Len(s) \notin bad
    <3> HIDE DEF bad
    <3> QED BY <1>1
  <2> QED BY <2>1, <2>2
<1> DEFINE left == PartlyRetained(s, T)
<1>3. left = CHOOSE f : f = [i \in 0 .. Len(s) |-> step(f, i)]
  BY DEF PartlyRetained
<1>4. left = [i \in 0 .. Len(s) |-> step(left, i)]
  <2> HIDE DEF left
  <2> QED BY <1>2, <1>3
<1> HIDE DEF left
<1>5. \A i \in 0 .. Len(s) : left[i] = step(left, i)
  BY <1>4
<1>6. 0 \in 0 .. Len(s) /\ \A k \in 1 .. Len(s) : k \in 0 .. Len(s) /\ k # 0
  OBVIOUS
<1>7. left[0] = << >> /\ \A k \in 1 .. Len(s) : left[k] = IF s[k] \in T THEN Append(left[k - 1], s[k]) ELSE left[k - 1]
  BY <1>5, <1>6
<1> QED BY <1>7 DEF left

(* retain leaves the elements of the set, and repeats none.                *)
LEMMA RetainedSound ==
  ASSUME NEW S, NEW s \in Seq(S), NEW T
  PROVE  /\ Retained(s, T) \in Seq(S) /\ Range(Retained(s, T)) = Range(s) \cap T
         /\ IsInjective(s) => IsInjective(Retained(s, T))
<1> DEFINE left == PartlyRetained(s, T)
           Fine(k) == /\ left[k] \in Seq(S) /\ Range(left[k]) = {s[j] : j \in 1 .. k} \cap T
                      /\ IsInjective(s) => IsInjective(left[k])
           bad == {k \in 0 .. Len(s) : ~Fine(k)}
<1>0. /\ left[0] = << >>
      /\ \A k \in 1 .. Len(s) : left[k] = IF s[k] \in T THEN Append(left[k - 1], s[k]) ELSE left[k - 1]
      /\ Len(s) \in Nat /\ DOMAIN s = 1 .. Len(s) /\ \A k \in 1 .. Len(s) : s[k] \in S
  BY RetainSteps
<1> HIDE DEF left
<1>1. Fine(0)
  <2>1. << >> \in Seq(S) /\ Range(<< >>) = {} /\ IsInjective(<< >>)
    BY DEF Range, IsInjective
  <2>2. {s[j] : j \in 1 .. 0} = {}
    OBVIOUS
  <2> QED BY <1>0, <2>1, <2>2
<1>2. ASSUME NEW k \in 1 .. Len(s), Fine(k - 1) PROVE Fine(k)
  <2>0. k \in Nat /\ s[k] \in S /\ k - 1 \in Nat
    BY <1>0
  <2> DEFINE before == {s[j] : j \in 1 .. k - 1}
  <2>1. {s[j] : j \in 1 .. k} = before \cup {s[k]}
    <3>1. \A j \in 1 .. k : j \in 1 .. k - 1 \/ j = k
      BY <2>0
    <3>2. \A j \in 1 .. k - 1 : j \in 1 .. k
      BY <2>0
    <3>3. k \in 1 .. k
      BY <2>0
    <3> QED BY <3>1, <3>2, <3>3
  <2>2. IsInjective(s) => s[k] \notin before
    <3> SUFFICES ASSUME IsInjective(s), NEW j \in 1 .. k - 1, s[j] = s[k] PROVE FALSE
      OBVIOUS
    <3>1. j \in DOMAIN s /\ k \in DOMAIN s /\ j # k
      BY <1>0, <2>0
    <3> QED BY <3>1 DEF IsInjective
  <2> HIDE DEF before
  <2> DEFINE q == left[k - 1]
  <2>3. q \in Seq(S) /\ Range(q) = before \cap T /\ (IsInjective(s) => IsInjective(q))
    BY <1>2 DEF before
  <2>4. left[k] = IF s[k] \in T THEN Append(q, s[k]) ELSE q
    BY <1>0
  <2> HIDE DEF q
  <2>5. CASE s[k] \in T
    <3>1. /\ Append(q, s[k]) \in Seq(S) /\ Range(Append(q, s[k])) = Range(q) \cup {s[k]}
          /\ IsInjective(q) /\ s[k] \notin Range(q) => IsInjective(Append(q, s[k]))
      BY <2>0, <2>3, AppendAdds
    <3> DEFINE a == Append(q, s[k])
    <3>2. left[k] = a /\ a \in Seq(S)
      BY <2>4, <2>5, <3>1
    <3>3. Range(a) = (before \cup {s[k]}) \cap T
      BY <2>3, <2>5, <3>1
    <3>4. IsInjective(s) => IsInjective(a)
      BY <2>2, <2>3, <3>1
    <3> HIDE DEF a
    <3> QED BY <2>1, <3>2, <3>3, <3>4
  <2>6. CASE s[k] \notin T
    <3>1. Range(q) = (before \cup {s[k]}) \cap T
      BY <2>3, <2>6
    <3> QED BY <2>1, <2>3, <2>4, <2>6, <3>1
  <2> QED BY <2>5, <2>6
<1>3. bad = {}
  <2> SUFFICES ASSUME bad # {} PROVE FALSE
    OBVIOUS
  <2>1. bad \in SUBSET Nat
    BY <1>0
  <2>2. Min(bad) \in bad /\ \A y \in bad : Min(bad) <= y
    <3> HIDE DEF bad
    <3> QED BY <2>1, MinIsLeast
  <2>3. PICK k \in 0 .. Len(s) : ~Fine(k) /\ k \in bad /\ \A y \in bad : k <= y
    <3> HIDE DEF Fine
    <3> QED BY <2>2
  <2> HIDE DEF Fine
  <2>4. k # 0
    BY <1>1, <2>3
  <2>5. k \in 1 .. Len(s) /\ k - 1 \in 0 .. Len(s) /\ ~(k <= k - 1)
    BY <1>0, <2>3, <2>4
  <2>6. Fine(k - 1)
    BY <2>3, <2>5
  <2> QED BY <1>2, <2>3, <2>5, <2>6
<1>4. Fine(Len(s))
  <2>1. Len(s) \in 0 .. Len(s)
    BY <1>0
  <2> HIDE DEF Fine
  <2> QED BY <1>3, <2>1
<1>5. {s[j] : j \in 1 .. Len(s)} = Range(s)
  BY <1>0 DEF Range
<1>6. Retained(s, T) = left[Len(s)]
  BY DEF Retained, left
<1> QED BY <1>4, <1>5, <1>6

(* The fake-IP table, and how far what was handed out is from coming back. *)
RecentFar ==
  \A j \in 1 .. Len(recent) : FarAway(nextFake[4], DOMAIN mappings, recent[j], Len(recent) - j)
TableInv ==
  /\ nextFake \in [Families -> Nat] /\ OnCircle(nextFake[4])
  /\ IsFiniteSet(DOMAIN mappings) /\ order \in Seq(Address)
  /\ \A f \in DOMAIN mappings : MappingTyped(mappings[f])
  /\ DnsTableSound
  /\ recent \in Seq(Address) /\ IsInjective(recent) /\ RecentFar

(* The insertion order of what is kept.                                    *)
LEMMA OrderOfKept ==
  ASSUME TableInv, NEW kept, DOMAIN kept \subseteq DOMAIN mappings
  PROVE  /\ OrderOf(kept) \in Seq(Address) /\ IsInjective(OrderOf(kept))
         /\ Range(OrderOf(kept)) = DOMAIN kept
<1>1. order \in Seq(Address) /\ IsInjective(order) /\ Range(order) = DOMAIN mappings
  BY DEF TableInv, DnsTableSound
<1>2. /\ Retained(order, DOMAIN kept) \in Seq(Address) /\ IsInjective(Retained(order, DOMAIN kept))
      /\ Range(Retained(order, DOMAIN kept)) = Range(order) \cap DOMAIN kept
  BY <1>1, RetainedSound
<1> QED BY <1>1, <1>2 DEF OrderOf

(* A table that only loses mappings stays as it must be.                   *)
LEMMA TableThins ==
  ASSUME TableInv, DOMAIN mappings' \subseteq DOMAIN mappings,
         \A f \in DOMAIN mappings' : /\ MappingTyped(mappings'[f])
                                     /\ mappings'[f].domain = mappings[f].domain
                                     /\ mappings'[f].real = mappings[f].real,
         order' \in Seq(Address), IsInjective(order'), Range(order') = DOMAIN mappings',
         UNCHANGED <<nextFake, recent, dnsFailed>>
  PROVE  TableInv'
<1>0. /\ IsFiniteSet(DOMAIN mappings) /\ Cardinality(DOMAIN mappings) <= DnsCapacity /\ ~dnsFailed
      /\ \A f, g \in DOMAIN mappings :
           f # g => <<mappings[f].domain, mappings[f].real>> # <<mappings[g].domain, mappings[g].real>>
  BY DEF TableInv, DnsTableSound
<1>1. IsFiniteSet(DOMAIN mappings') /\ Cardinality(DOMAIN mappings') <= DnsCapacity
  <2>1. /\ IsFiniteSet(DOMAIN mappings') /\ Cardinality(DOMAIN mappings') <= Cardinality(DOMAIN mappings)
    BY <1>0, FS_Subset
  <2>2. Cardinality(DOMAIN mappings') \in Nat /\ Cardinality(DOMAIN mappings) \in Nat
    BY <1>0, <2>1, FS_CardinalityType
  <2> QED BY <1>0, <2>1, <2>2, FakeCircle
<1>2. \A f, g \in DOMAIN mappings' :
        f # g => <<mappings'[f].domain, mappings'[f].real>> # <<mappings'[g].domain, mappings'[g].real>>
  BY <1>0
<1>3. DnsTableSound'
  BY <1>0, <1>1, <1>2 DEF DnsTableSound
<1>4. ASSUME NEW j \in 1 .. Len(recent)
      PROVE  FarAway(nextFake[4], DOMAIN mappings', recent[j], Len(recent) - j)
  <2>1. FarAway(nextFake[4], DOMAIN mappings, recent[j], Len(recent) - j)
    BY DEF TableInv, RecentFar
  <2>2. Len(recent) - j \in Nat
    BY DEF TableInv
  <2> QED BY <2>1, <2>2, FarStaysFar
<1>5. RecentFar'
  BY <1>4 DEF RecentFar, FarAway, FreeBefore, At
<1> QED BY <1>1, <1>3, <1>5 DEF TableInv, OnCircle

(* After the eviction there is room for one more.                          *)
LEMMA EvictionMakesRoom ==
  ASSUME TableInv, NEW kept, kept = Restrict(Live, DOMAIN Live \ Evicted(Live, OrderOf(Live)))
  PROVE  /\ DOMAIN kept \subseteq DOMAIN mappings /\ IsFiniteSet(DOMAIN kept)
         /\ Cardinality(DOMAIN kept) < DnsCapacity
         /\ \A f \in DOMAIN kept : f \in DOMAIN Live /\ kept[f] = Live[f] /\ kept[f] = mappings[f]
<1> DEFINE live == DOMAIN Live
           first == OrderOf(Live)
           gone == Evicted(Live, first)
<1>0. live \subseteq DOMAIN mappings /\ \A f \in live : Live[f] = mappings[f]
  BY LiveMappings
<1>1. DOMAIN kept = live \ gone /\ \A f \in live \ gone : kept[f] = Live[f]
  BY DEF Restrict
<1>2. /\ IsFiniteSet(DOMAIN mappings) /\ Cardinality(DOMAIN mappings) <= DnsCapacity
      /\ DnsCapacity \in Nat \ {0}
  BY FakeCircle DEF TableInv, DnsTableSound
<1>3. IsFiniteSet(live) /\ Cardinality(live) \in Nat /\ Cardinality(live) <= DnsCapacity
  <2> HIDE DEF live
  <2>1. IsFiniteSet(live) /\ Cardinality(live) <= Cardinality(DOMAIN mappings)
    BY <1>0, <1>2, FS_Subset
  <2>2. Cardinality(live) \in Nat /\ Cardinality(DOMAIN mappings) \in Nat
    BY <1>2, <2>1, FS_CardinalityType
  <2> QED BY <1>2, <2>1, <2>2
<1>4. first \in Seq(Address) /\ Range(first) = live
  BY <1>0, OrderOfKept
<1>5. CASE Cardinality(live) < DnsCapacity
  <2>1. gone = {}
    <3>1. ~(Cardinality(live) - DnsCapacity + 1 > 0)
      BY <1>2, <1>3, <1>5
    <3> QED BY <3>1 DEF Evicted
  <2>2. DOMAIN kept = live
    BY <1>1, <2>1
  <2> QED BY <1>0, <1>1, <1>3, <1>5, <2>2
<1>6. CASE ~(Cardinality(live) < DnsCapacity)
  <2>1. Cardinality(live) - DnsCapacity + 1 = 1
    BY <1>2, <1>3, <1>6
  <2>2. gone = {first[1]}
    <3>1. gone = {first[i] : i \in 1 .. 1}
      <4> HIDE DEF first
      <4> QED BY <2>1 DEF Evicted
    <3> QED BY <3>1
  <2>3. first[1] \in live
    <3> HIDE DEF first, live
    <3>1. live # {}
      BY <1>2, <1>3, <1>6, FS_EmptySet
    <3>2. DOMAIN first # {}
      BY <1>4, <3>1 DEF Range
    <3>3. 1 \in DOMAIN first
      BY <1>4, <3>2
    <3> QED BY <1>4, <3>3 DEF Range
  <2>4. IsFiniteSet(live \ {first[1]}) /\ Cardinality(live \ {first[1]}) = Cardinality(live) - 1
    <3> HIDE DEF first, live
    <3> QED BY <1>3, <2>3, FS_RemoveElement
  <2>5. DOMAIN kept = live \ {first[1]}
    BY <1>1, <2>2
  <2> HIDE DEF first, live, gone
  <2>6. Cardinality(DOMAIN kept) < DnsCapacity
    BY <1>2, <1>3, <2>4, <2>5
  <2>7. DOMAIN kept \subseteq live
    BY <2>5
  <2>8. IsFiniteSet(DOMAIN kept)
    BY <2>4, <2>5
  <2>9. \A f \in DOMAIN kept : kept[f] = Live[f]
    BY <1>1
  <2>10. \A f \in DOMAIN kept : f \in live /\ kept[f] = Live[f] /\ kept[f] = mappings[f]
    BY <1>0, <2>7, <2>9
  <2> QED BY <1>0, <2>6, <2>7, <2>8, <2>10 DEF live
<1> QED BY <1>5, <1>6

(* The candidates of a family are different addresses of it.               *)
LEMMA CandidatesDiffer ==
  ASSUME TableInv, NEW family \in {4, 6}, NEW k \in Nat
  PROVE  /\ Candidate(family, k) \in Address /\ Candidate(family, k).family = family
         /\ family = 4 => Candidate(family, k) = At(nextFake[4], k)
         /\ \A i \in Nat : i < k /\ k < i + FakeSpan => Candidate(family, i) # Candidate(family, k)
<1>1. CASE family = 4
  <2>1. \A i \in Nat : Candidate(4, i) = At(nextFake[4], i)
    BY DEF Candidate, At
  <2>2. OnCircle(nextFake[4])
    BY DEF TableInv
  <2>3. At(nextFake[4], k) \in Address /\ At(nextFake[4], k).family = 4
    BY <2>2, PlaceOnCircle
  <2> QED BY <1>1, <2>1, <2>2, <2>3, PlacesDiffer
<1>2. CASE family = 6
  <2>1. \A i \in Nat : Candidate(6, i) = [family |-> 6, bits |-> nextFake[6] + i]
    BY DEF Candidate
  <2>2. nextFake[6] \in Nat
    BY FakeCircle DEF TableInv
  <2>3. Candidate(6, k) \in Address /\ Candidate(6, k).family = 6
    BY <2>1, <2>2, FakeCircle DEF Address
  <2>4. \A i \in Nat : i < k => Candidate(6, i) # Candidate(6, k)
    <3> TAKE i \in Nat
    <3>1. Candidate(6, i).bits = nextFake[6] + i /\ Candidate(6, k).bits = nextFake[6] + k
      BY <2>1
    <3> QED BY <2>2, <3>1
  <2> QED BY <1>2, <2>3, <2>4
<1> QED BY <1>1, <1>2

(* With room in the table, next_address finds an address.                  *)
LEMMA CandidateIsFound ==
  ASSUME TableInv, NEW family \in {4, 6}, NEW kept, IsFiniteSet(DOMAIN kept),
         Cardinality(DOMAIN kept) < DnsCapacity
  PROVE  /\ FreeCandidates(family, kept) # {} /\ FreeCandidates(family, kept) \in SUBSET Nat
<1> SUFFICES ASSUME FreeCandidates(family, kept) = {} PROVE FALSE
  BY DEF FreeCandidates
<1>0. DnsCapacity \in Nat \ {0} /\ FakeSpan \in Nat /\ DnsCapacity <= FakeSpan
  BY FakeCircle
<1> DEFINE S == 0 .. DnsCapacity - 1
           g == [k \in S |-> Candidate(family, k)]
<1>1. \A k \in S : k \in Nat /\ k \in 0 .. DnsCapacity
  BY <1>0
<1>2. \A k \in S : Candidate(family, k) \in DOMAIN kept
  BY <1>1 DEF FreeCandidates
<1>3. \A i, k \in S : i < k => g[i] # g[k]
  <2> TAKE i, k \in S
  <2> HAVE i < k
  <2>1. i \in Nat /\ k \in Nat /\ k < i + FakeSpan
    BY <1>0
  <2>2. Candidate(family, i) # Candidate(family, k)
    BY <2>1, CandidatesDiffer
  <2> QED BY <2>2
<1>4. g \in [S -> DOMAIN kept] /\ DOMAIN g = S
  BY <1>2
<1>5. \A i, k \in S : g[i] = g[k] => i = k
  <2> TAKE i, k \in S
  <2>1. (i < k => g[i] # g[k]) /\ (k < i => g[i] # g[k]) /\ i \in Nat /\ k \in Nat
    BY <1>1, <1>3
  <2> HIDE DEF g, S
  <2> QED BY <2>1
<1>6. Cardinality(S) = DnsCapacity
  <2>1. DnsCapacity - 1 \in Int /\ ~(0 > DnsCapacity - 1) /\ DnsCapacity - 1 - 0 + 1 = DnsCapacity
    BY <1>0
  <2>2. Cardinality(0 .. DnsCapacity - 1) =
          IF 0 > DnsCapacity - 1 THEN 0 ELSE DnsCapacity - 1 - 0 + 1
    BY <2>1, FS_Interval
  <2> QED BY <2>1, <2>2
<1> HIDE DEF S, g
<1>7. g \in Injection(S, DOMAIN kept)
  BY <1>4, <1>5 DEF Injection, IsInjective
<1>8. Cardinality(S) <= Cardinality(DOMAIN kept)
  BY <1>7, FS_Injection
<1> QED BY <1>0, <1>6, <1>8, FS_CardinalityType

(* Which handed-out addresses are kept in mind.                            *)
LEMMA LatestOnes ==
  ASSUME NEW S, NEW fakes \in Seq(S), fakes # << >>
  PROVE  \E start \in 1 .. Len(fakes) :
           /\ start >= Len(fakes) - FakeSpan + DnsCapacity
           /\ Latest(fakes) \in Seq(S) /\ Len(Latest(fakes)) = Len(fakes) - start + 1
           /\ \A i \in 1 .. Len(fakes) - start + 1 : Latest(fakes)[i] = fakes[start + i - 1]
<1>0. /\ Len(fakes) \in Nat \ {0} /\ FakeSpan \in Nat /\ DnsCapacity \in Nat
      /\ DnsCapacity <= FakeSpan
  BY FakeCircle
<1> DEFINE x == Len(fakes) - FakeSpan + DnsCapacity
           start == Max({1, x})
<1>1. x \in Int /\ x <= Len(fakes)
  BY <1>0
<1>2. start \in {1, x} /\ start >= 1 /\ start >= x
  <2> HIDE DEF x
  <2>1. \E y \in {1, x} : \A z \in {1, x} : y >= z
    <3>1. CASE x >= 1
      BY <1>1, <3>1
    <3>2. CASE ~(x >= 1)
      BY <1>1, <3>2
    <3> QED BY <3>1, <3>2
  <2> QED BY <2>1 DEF Max
<1>3. start \in 1 .. Len(fakes)
  <2> HIDE DEF start, x
  <2> QED BY <1>0, <1>1, <1>2
<1>4. Latest(fakes) = SubSeq(fakes, start, Len(fakes))
  BY DEF Latest
<1> HIDE DEF start, x
<1>5. /\ Latest(fakes) \in Seq(S) /\ Len(Latest(fakes)) = Len(fakes) - start + 1
      /\ \A i \in 1 .. Len(fakes) - start + 1 : Latest(fakes)[i] = fakes[start + i - 1]
  BY <1>0, <1>3, <1>4
<1> QED BY <1>2, <1>3, <1>5 DEF x

(* The addresses handed out last, after one more of IPv4: the new one is   *)
(* none of them, and they are one allocation older.                        *)
LEMMA RecentGrows ==
  ASSUME TableInv, NEW kept, DOMAIN kept \subseteq DOMAIN mappings, IsFiniteSet(DOMAIN kept),
         Cardinality(DOMAIN kept) < DnsCapacity,
         NEW u \in 0 .. DnsCapacity, At(nextFake[4], u) \notin DOMAIN kept,
         \A k \in 0 .. DnsCapacity : At(nextFake[4], k) \notin DOMAIN kept => u <= k,
         NEW later, later = Latest(Append(recent, At(nextFake[4], u)))
  PROVE  /\ later \in Seq(Address) /\ IsInjective(later)
         /\ \A j \in 1 .. Len(later) :
              FarAway(At(nextFake[4], u + 1).bits, DOMAIN kept \cup {At(nextFake[4], u)},
                      later[j], Len(later) - j)
<1> DEFINE n == nextFake[4]
           fake == At(n, u)
           all == Append(recent, fake)
           size == Len(recent)
           now == DOMAIN kept \cup {fake}
           next == At(n, u + 1).bits
<1>0. /\ OnCircle(n) /\ u \in Nat /\ FakeSpan \in Nat /\ DnsCapacity \in Nat /\ fake \in Address
      /\ recent \in Seq(Address) /\ IsInjective(recent)
  <2>1. OnCircle(n) /\ u \in Nat /\ FakeSpan \in Nat /\ DnsCapacity \in Nat
    BY FakeCircle DEF TableInv
  <2>2. At(n, u) \in Address
    BY <2>1, PlaceOnCircle
  <2> QED BY <2>1, <2>2 DEF TableInv
<1>1. /\ size \in Nat /\ all \in Seq(Address) /\ Len(all) = size + 1 /\ all # << >>
      /\ all[size + 1] = fake /\ \A j \in 1 .. size : all[j] = recent[j]
  <2> HIDE DEF fake
  <2> QED BY <1>0
<1>2. FarAway(next, now, fake, 0)
  <2> HIDE DEF n
  <2> QED BY <1>0, NewIsFar
<1>3. ASSUME NEW j \in 1 .. size, (size - j) + DnsCapacity < FakeSpan
      PROVE  recent[j] # fake /\ FarAway(next, now, recent[j], (size - j) + 1)
  <2>1. size - j \in Nat
    BY <1>1
  <2>2. FarAway(n, DOMAIN mappings, recent[j], size - j)
    BY DEF TableInv, RecentFar
  <2>3. FarAway(n, DOMAIN kept, recent[j], size - j)
    <3> HIDE DEF n, size
    <3> QED BY <2>1, <2>2, FarStaysFar
  <2> DEFINE d == size - j
  <2>4. d \in Nat /\ FarAway(n, DOMAIN kept, recent[j], d) /\ d + DnsCapacity < FakeSpan
    BY <1>3, <2>1, <2>3
  <2>5. fake \notin DOMAIN kept /\ \A k \in 0 .. DnsCapacity : At(n, k) \notin DOMAIN kept => u <= k
    OBVIOUS
  <2> HIDE DEF d, n
  <2>6. recent[j] # At(n, u) /\ FarAway(At(n, u + 1).bits, DOMAIN kept \cup {At(n, u)}, recent[j], d + 1)
    BY <1>0, <2>4, <2>5, FarComesNearer
  <2> QED BY <2>6 DEF d
<1> HIDE DEF fake, now, next
<1>4. PICK start \in 1 .. Len(all) :
        /\ start >= Len(all) - FakeSpan + DnsCapacity
        /\ Latest(all) \in Seq(Address) /\ Len(Latest(all)) = Len(all) - start + 1
        /\ \A i \in 1 .. Len(all) - start + 1 : Latest(all)[i] = all[start + i - 1]
  <2> HIDE DEF all
  <2> QED BY <1>1, LatestOnes
<1>5. later = Latest(all)
  BY DEF all, fake
<1> HIDE DEF all
<1>6. /\ start \in Nat /\ start >= 1 /\ start <= size + 1
      /\ start >= (size + 1) - FakeSpan + DnsCapacity
      /\ later \in Seq(Address) /\ Len(later) = size + 2 - start
      /\ \A i \in 1 .. size + 2 - start : later[i] = all[start + i - 1]
  <2>1. Len(all) - start + 1 = size + 2 - start
    BY <1>1, <1>4
  <2> QED BY <1>1, <1>4, <1>5, <2>1
<1> HIDE DEF size
<1>7. ASSUME NEW i \in 1 .. Len(later), start + i - 1 # size + 1
      PROVE  /\ start + i - 1 \in 1 .. size /\ later[i] = recent[start + i - 1] /\ later[i] # fake
             /\ FarAway(next, now, later[i], Len(later) - i)
  <2> DEFINE j == start + i - 1
  <2>1. j \in 1 .. size /\ (size - j) + DnsCapacity < FakeSpan /\ (size - j) + 1 = Len(later) - i
    BY <1>0, <1>1, <1>6, <1>7
  <2>2. later[i] = all[j]
    BY <1>6
  <2> HIDE DEF j
  <2>3. later[i] = recent[j]
    BY <1>1, <2>1, <2>2
  <2>4. recent[j] # fake /\ FarAway(next, now, recent[j], (size - j) + 1)
    BY <1>3, <2>1
  <2>5. later[i] # fake /\ FarAway(next, now, later[i], Len(later) - i)
    BY <2>1, <2>3, <2>4
  <2> QED BY <2>1, <2>3, <2>5 DEF j
<1>8. ASSUME NEW i \in 1 .. Len(later), start + i - 1 = size + 1
      PROVE  later[i] = fake /\ FarAway(next, now, later[i], Len(later) - i)
  <2>1. Len(later) - i = 0
    BY <1>1, <1>6, <1>8
  <2>2. later[i] = fake
    BY <1>1, <1>6, <1>8
  <2> QED BY <1>2, <2>1, <2>2
<1>9. IsInjective(later)
  <2>0. DOMAIN later = 1 .. Len(later)
    BY <1>6
  <2> SUFFICES ASSUME NEW a \in 1 .. Len(later), NEW b \in 1 .. Len(later), later[a] = later[b]
               PROVE  a = b
    BY <2>0 DEF IsInjective
  <2>1. CASE start + a - 1 = size + 1 /\ start + b - 1 = size + 1
    BY <1>1, <1>6, <2>1
  <2>2. CASE start + a - 1 = size + 1 /\ start + b - 1 # size + 1
    BY <1>7, <1>8, <2>2
  <2>3. CASE start + a - 1 # size + 1 /\ start + b - 1 = size + 1
    BY <1>7, <1>8, <2>3
  <2>4. CASE start + a - 1 # size + 1 /\ start + b - 1 # size + 1
    <3> DEFINE x == start + a - 1
               y == start + b - 1
    <3>1. x \in 1 .. size /\ y \in 1 .. size /\ recent[x] = recent[y]
      BY <1>7, <2>4
    <3>2. x = y
      <4> HIDE DEF x, y
      <4>1. x \in DOMAIN recent /\ y \in DOMAIN recent
        BY <1>0, <3>1 DEF size
      <4> QED BY <1>0, <3>1, <4>1 DEF IsInjective
    <3> QED BY <1>1, <1>6, <3>2
  <2> QED BY <2>1, <2>2, <2>3, <2>4
<1>10. \A i \in 1 .. Len(later) : FarAway(next, now, later[i], Len(later) - i)
  <2> TAKE i \in 1 .. Len(later)
  <2> QED BY <1>7, <1>8
<1> QED BY <1>6, <1>9, <1>10 DEF next, now, fake, n

(* A new identity gets the first free candidate.                           *)
HandsOut(family, kept, new, u, fake) ==
  /\ family \in {4, 6} /\ DOMAIN kept \subseteq DOMAIN mappings
  /\ IsFiniteSet(DOMAIN kept) /\ Cardinality(DOMAIN kept) < DnsCapacity
  /\ \A f \in DOMAIN kept : kept[f] = mappings[f]
  /\ MappingTyped(new)
  /\ \A f \in DOMAIN kept : ~(kept[f].domain = new.domain /\ kept[f].real = new.real)
  /\ u \in FreeCandidates(family, kept) /\ \A k \in FreeCandidates(family, kept) : u <= k
  /\ fake = Candidate(family, u)
  /\ mappings' = [f \in DOMAIN kept \cup {fake} |-> IF f = fake THEN new ELSE kept[f]]
  /\ order' = Append(OrderOf(kept), fake)
  /\ nextFake' = [nextFake EXCEPT ![family] = Candidate(family, u + 1).bits]
  /\ recent' = IF family = 4 THEN Latest(Append(recent, fake)) ELSE recent
  /\ UNCHANGED dnsFailed

(* What that leaves of the table.                                          *)
LEMMA AllocatesNew ==
  ASSUME TableInv, NEW family, NEW kept, NEW new, NEW u, NEW fake,
         HandsOut(family, kept, new, u, fake)
  PROVE  TableInv'
<1> USE DEF HandsOut
<1>0. /\ u \in 0 .. DnsCapacity /\ u \in Nat /\ u + 1 \in Nat /\ DnsCapacity \in Nat
      /\ fake \notin DOMAIN kept /\ family \in Families
  BY FakeCircle DEF FreeCandidates
<1>1. /\ fake \in Address /\ fake.family = family /\ Candidate(family, u + 1) \in Address
      /\ family = 4 => fake = At(nextFake[4], u) /\ Candidate(family, u + 1) = At(nextFake[4], u + 1)
  BY <1>0, CandidatesDiffer
<1>2. /\ nextFake \in [Families -> Nat] /\ OnCircle(nextFake[4]) /\ ~dnsFailed
      /\ recent \in Seq(Address) /\ IsInjective(recent) /\ RecentFar
      /\ \A f \in DOMAIN mappings : MappingTyped(mappings[f])
      /\ \A f, g \in DOMAIN mappings :
           f # g => <<mappings[f].domain, mappings[f].real>> # <<mappings[g].domain, mappings[g].real>>
  BY DEF TableInv, DnsTableSound
<1>3. DOMAIN mappings' = DOMAIN kept \cup {fake}
  OBVIOUS
<1>4. mappings'[fake] = new /\ \A f \in DOMAIN kept : mappings'[f] = mappings[f]
  BY <1>0
<1>5. nextFake' \in [Families -> Nat]
  <2>1. Candidate(family, u + 1).bits \in Nat
    BY <1>1 DEF Address
  <2> QED BY <1>2, <2>1
<1>6. /\ IsFiniteSet(DOMAIN mappings') /\ Cardinality(DOMAIN mappings') <= DnsCapacity
  <2>1. /\ IsFiniteSet(DOMAIN kept \cup {fake})
        /\ Cardinality(DOMAIN kept \cup {fake}) = Cardinality(DOMAIN kept) + 1
    BY <1>0, FS_AddElement
  <2>2. Cardinality(DOMAIN kept) \in Nat
    BY FS_CardinalityType
  <2> QED BY <1>0, <1>3, <2>1, <2>2
<1>7. order' \in Seq(Address) /\ IsInjective(order') /\ Range(order') = DOMAIN mappings'
  <2>1. /\ OrderOf(kept) \in Seq(Address) /\ IsInjective(OrderOf(kept))
        /\ Range(OrderOf(kept)) = DOMAIN kept
    BY OrderOfKept
  <2> QED BY <1>0, <1>1, <1>3, <2>1, AppendAdds
<1>8. \A f \in DOMAIN mappings' : MappingTyped(mappings'[f])
  BY <1>2, <1>3, <1>4
<1>9. \A f, g \in DOMAIN mappings' :
        f # g => <<mappings'[f].domain, mappings'[f].real>> # <<mappings'[g].domain, mappings'[g].real>>
  <2>1. \A f \in DOMAIN kept : ~(mappings'[f].domain = new.domain /\ mappings'[f].real = new.real)
    BY <1>4
  <2>2. \A f, g \in DOMAIN kept :
          f # g => <<mappings'[f].domain, mappings'[f].real>> # <<mappings'[g].domain, mappings'[g].real>>
    BY <1>2, <1>4
  <2> QED BY <1>3, <1>4, <2>1, <2>2
<1>10. DnsTableSound'
  BY <1>2, <1>6, <1>7, <1>9 DEF DnsTableSound
<1>11. /\ OnCircle(nextFake'[4]) /\ recent' \in Seq(Address) /\ IsInjective(recent')
       /\ \A j \in 1 .. Len(recent') :
            FarAway(nextFake'[4], DOMAIN mappings', recent'[j], Len(recent') - j)
  <2>1. CASE family = 4
    <3>1. nextFake'[4] = At(nextFake[4], u + 1).bits
      BY <1>0, <1>1, <1>2, <2>1
    <3>2. OnCircle(At(nextFake[4], u + 1).bits)
      BY <1>0, <1>2, PlaceOnCircle
    <3>3. recent' = Latest(Append(recent, At(nextFake[4], u))) /\ fake = At(nextFake[4], u)
      BY <1>1, <2>1
    <3>4. \A k \in 0 .. DnsCapacity : At(nextFake[4], k) \notin DOMAIN kept => u <= k
      <4> TAKE k \in 0 .. DnsCapacity
      <4>1. k \in Nat
        BY <1>0
      <4>2. Candidate(family, k) = At(nextFake[4], k)
        BY <2>1, <4>1, CandidatesDiffer
      <4> QED BY <4>2 DEF FreeCandidates
    <3>5. PICK later : later = recent'
      OBVIOUS
    <3>6. /\ later \in Seq(Address) /\ IsInjective(later)
          /\ \A j \in 1 .. Len(later) :
               FarAway(At(nextFake[4], u + 1).bits, DOMAIN kept \cup {At(nextFake[4], u)},
                       later[j], Len(later) - j)
      BY <1>0, <3>3, <3>4, <3>5, RecentGrows
    <3> QED BY <1>3, <3>1, <3>2, <3>3, <3>5, <3>6
  <2>2. CASE family = 6
    <3>1. nextFake'[4] = nextFake[4] /\ recent' = recent
      BY <1>2, <2>2, FakeCircle
    <3>2. \A k \in Nat : At(nextFake[4], k) \in DOMAIN kept \cup {fake} => At(nextFake[4], k) \in DOMAIN mappings
      <4> TAKE k \in Nat
      <4>1. At(nextFake[4], k).family = 4
        BY <1>2, PlaceOnCircle
      <4> QED BY <1>1, <2>2, <4>1
    <3>3. ASSUME NEW j \in 1 .. Len(recent)
          PROVE  FarAway(nextFake[4], DOMAIN kept \cup {fake}, recent[j], Len(recent) - j)
      <4>1. Len(recent) - j \in Nat
        BY <1>2
      <4>2. FarAway(nextFake[4], DOMAIN mappings, recent[j], Len(recent) - j)
        BY <1>2 DEF RecentFar
      <4> QED BY <3>2, <4>1, <4>2, FarStaysFar
    <3> QED BY <1>2, <1>3, <3>1, <3>3
  <2> QED BY <2>1, <2>2
<1>12. RecentFar'
  BY <1>11 DEF RecentFar, FarAway, FreeBefore, At
<1> QED BY <1>5, <1>6, <1>7, <1>8, <1>10, <1>11, <1>12 DEF TableInv, OnCircle

(* allocate refreshes the identity it knows, or hands out a new address.   *)
LEMMA AllocateKeepsTable ==
  ASSUME TableInv, NEW g, NEW q \in Questions, NEW ttl \in Ttls, Allocate(g, q, ttl)
  PROVE  TableInv'
<1> DEFINE domain == FakeDomain(q.name)
           family == q.real.family
           same == {f \in DOMAIN Live : Live[f].domain = domain /\ Live[f].real = q.real}
           kept == Restrict(Live, DOMAIN Live \ Evicted(Live, OrderOf(Live)))
           new == [domain |-> domain, real |-> q.real, ttl |-> ttl]
           free == FreeCandidates(family, kept)
           used == IF free = {} THEN DnsCapacity ELSE Min(free)
           fake == Candidate(family, used)
<1>0. ttl \in Nat /\ IsName(q.name.labels) /\ q.real \in Address /\ family \in {4, 6}
  BY TunPolicyAssumption DEF Address
<1>1. domain # None
  BY DEF Allocate
<1>2. MappingTyped(new)
  <2>1. domain = q.name.labels /\ domain # << >>
    BY <1>1 DEF FakeDomain
  <2> HIDE DEF domain
  <2> QED BY <1>0, <2>1 DEF MappingTyped
<1>3. DOMAIN Live \subseteq DOMAIN mappings /\ \A f \in DOMAIN Live : Live[f] = mappings[f]
  BY LiveMappings
<1>4. CASE same # {}
  <2> DEFINE one == CHOOSE x \in same : TRUE
  <2>1. /\ mappings' = [f \in DOMAIN Live |-> IF f = one THEN [Live[f] EXCEPT !.ttl = ttl] ELSE Live[f]]
        /\ order' = OrderOf(Live) /\ UNCHANGED <<nextFake, recent, dnsFailed>>
    BY <1>4, Zenon DEF Allocate
  <2>2. ASSUME NEW f \in DOMAIN Live
        PROVE  /\ MappingTyped([Live[f] EXCEPT !.ttl = ttl]) /\ MappingTyped(Live[f])
               /\ [Live[f] EXCEPT !.ttl = ttl].domain = mappings[f].domain
               /\ [Live[f] EXCEPT !.ttl = ttl].real = mappings[f].real
    <3> DEFINE old == Live[f]
    <3>1. MappingTyped(old) /\ old = mappings[f]
      BY <1>3 DEF TableInv
    <3> HIDE DEF old
    <3>2. /\ MappingTyped([old EXCEPT !.ttl = ttl])
          /\ [old EXCEPT !.ttl = ttl].domain = old.domain /\ [old EXCEPT !.ttl = ttl].real = old.real
      BY <1>0, <3>1 DEF MappingTyped
    <3> QED BY <3>1, <3>2 DEF old
  <2> HIDE DEF one
  <2>3. DOMAIN mappings' = DOMAIN Live
    BY <2>1
  <2>4. \A f \in DOMAIN mappings' : /\ MappingTyped(mappings'[f])
                                    /\ mappings'[f].domain = mappings[f].domain
                                    /\ mappings'[f].real = mappings[f].real
    <3> TAKE f \in DOMAIN mappings'
    <3>1. f \in DOMAIN Live /\ Live[f] = mappings[f]
      BY <1>3, <2>3
    <3>2. mappings'[f] = IF f = one THEN [Live[f] EXCEPT !.ttl = ttl] ELSE Live[f]
      BY <2>1, <3>1
    <3> QED BY <2>2, <3>1, <3>2
  <2>5. /\ OrderOf(Live) \in Seq(Address) /\ IsInjective(OrderOf(Live))
        /\ Range(OrderOf(Live)) = DOMAIN Live
    BY <1>3, OrderOfKept
  <2> QED BY <1>3, <2>1, <2>3, <2>4, <2>5, TableThins
<1>5. CASE same = {}
  <2>1. /\ DOMAIN kept \subseteq DOMAIN mappings /\ IsFiniteSet(DOMAIN kept)
        /\ Cardinality(DOMAIN kept) < DnsCapacity
        /\ \A f \in DOMAIN kept : f \in DOMAIN Live /\ kept[f] = Live[f] /\ kept[f] = mappings[f]
    <3> HIDE DEF kept
    <3>1. kept = Restrict(Live, DOMAIN Live \ Evicted(Live, OrderOf(Live)))
      BY DEF kept
    <3> QED BY <3>1, EvictionMakesRoom
  <2>2. free # {} /\ free \in SUBSET Nat
    <3> HIDE DEF kept, family
    <3> QED BY <1>0, <2>1, CandidateIsFound
  <2>3. used \in free /\ \A k \in free : used <= k
    <3>1. used = Min(free)
      BY <2>2
    <3> HIDE DEF used, free
    <3> QED BY <2>2, <3>1, MinIsLeast
  <2>4. /\ nextFake' = [nextFake EXCEPT ![family] = Candidate(family, used + 1).bits]
        /\ mappings' = [f \in DOMAIN kept \cup {fake} |-> IF f = fake THEN new ELSE kept[f]]
        /\ order' = Append(OrderOf(kept), fake)
        /\ recent' = IF family = 4 THEN Latest(Append(recent, fake)) ELSE recent
        /\ UNCHANGED dnsFailed
    BY <1>5, <2>2, Zenon DEF Allocate
  <2>5. \A f \in DOMAIN kept : ~(kept[f].domain = new.domain /\ kept[f].real = new.real)
    <3>1. new.domain = domain /\ new.real = q.real
      OBVIOUS
    <3>2. \A f \in DOMAIN Live : ~(Live[f].domain = domain /\ Live[f].real = q.real)
      BY <1>5
    <3> HIDE DEF kept, new, domain
    <3> QED BY <2>1, <3>1, <3>2
  <2>6. fake = Candidate(family, used)
    OBVIOUS
  <2>7. /\ used \in FreeCandidates(family, kept)
        /\ \A k \in FreeCandidates(family, kept) : used <= k
    BY <2>3
  <2> HIDE DEF fake, used, kept, new, family
  <2>8. PICK k, x, u, w, h : k = kept /\ x = new /\ u = used /\ w = fake /\ h = family
    OBVIOUS
  <2>9. /\ h \in {4, 6} /\ DOMAIN k \subseteq DOMAIN mappings
        /\ IsFiniteSet(DOMAIN k) /\ Cardinality(DOMAIN k) < DnsCapacity
        /\ \A f \in DOMAIN k : k[f] = mappings[f]
    BY <1>0, <2>1, <2>8
  <2>10. /\ MappingTyped(x) /\ \A f \in DOMAIN k : ~(k[f].domain = x.domain /\ k[f].real = x.real)
         /\ u \in FreeCandidates(h, k) /\ (\A i \in FreeCandidates(h, k) : u <= i)
         /\ w = Candidate(h, u)
    BY <1>2, <2>5, <2>6, <2>7, <2>8
  <2>11. /\ nextFake' = [nextFake EXCEPT ![h] = Candidate(h, u + 1).bits]
         /\ mappings' = [f \in DOMAIN k \cup {w} |-> IF f = w THEN x ELSE k[f]]
         /\ order' = Append(OrderOf(k), w)
         /\ recent' = IF h = 4 THEN Latest(Append(recent, w)) ELSE recent
         /\ UNCHANGED dnsFailed
    BY <2>4, <2>8
  <2>12. HandsOut(h, k, x, u, w)
    BY <2>9, <2>10, <2>11 DEF HandsOut
  <2> QED BY <2>12, AllocatesNew
<1> QED BY <1>4, <1>5

(* decide only drops what has expired.                                     *)
LEMMA DecideFlowKeepsTable ==
  ASSUME TableInv, NEW g, NEW flow, DecideFlow(g, flow)
  PROVE  TableInv'
<1>1. mappings' = Live /\ order' = OrderOf(Live) /\ UNCHANGED <<nextFake, recent, dnsFailed>>
  BY DEF DecideFlow
<1>2. DOMAIN Live \subseteq DOMAIN mappings /\ \A f \in DOMAIN Live : Live[f] = mappings[f]
  BY LiveMappings
<1>3. /\ OrderOf(Live) \in Seq(Address) /\ IsInjective(OrderOf(Live))
      /\ Range(OrderOf(Live)) = DOMAIN Live
  BY <1>2, OrderOfKept
<1>4. \A f \in DOMAIN Live : MappingTyped(Live[f])
  BY <1>2 DEF TableInv
<1>5. \A f \in DOMAIN mappings' : /\ MappingTyped(mappings'[f])
                                  /\ mappings'[f].domain = mappings[f].domain
                                  /\ mappings'[f].real = mappings[f].real
  BY <1>1, <1>2, <1>4
<1> QED BY <1>1, <1>2, <1>3, <1>5, TableThins

(* replace_generation empties the table and keeps the next addresses.      *)
LEMMA ReplaceGenerationKeepsTable ==
  ASSUME TableInv, NEW g, NEW rules, ReplaceGeneration(g, rules)
  PROVE  TableInv'
<1>1. mappings' = << >> /\ order' = << >> /\ UNCHANGED <<nextFake, recent, dnsFailed>>
  BY DEF ReplaceGeneration
<1>2. DOMAIN << >> = {} /\ << >> \in Seq(Address) /\ IsInjective(<< >>) /\ Range(<< >>) = {}
  BY DEF IsInjective, Range
<1> QED BY <1>1, <1>2, TableThins

(* Time changes no address and no identity.                                *)
LEMMA TickKeepsTable ==
  ASSUME TableInv, DnsTick
  PROVE  TableInv'
<1>1. /\ UNCHANGED <<order, nextFake, recent, dnsFailed>>
      /\ mappings' = [f \in DOMAIN mappings |->
                        [mappings[f] EXCEPT !.ttl = IF @ > 0 THEN @ - 1 ELSE 0]]
  BY DEF DnsTick
<1>2. ASSUME NEW f \in DOMAIN mappings
      PROVE  /\ MappingTyped(mappings'[f])
             /\ mappings'[f].domain = mappings[f].domain /\ mappings'[f].real = mappings[f].real
  <2> DEFINE old == mappings[f]
             older == [old EXCEPT !.ttl = IF @ > 0 THEN @ - 1 ELSE 0]
  <2>1. MappingTyped(old)
    BY DEF TableInv
  <2>2. mappings'[f] = older
    BY <1>1
  <2> HIDE DEF old
  <2>3. MappingTyped(older) /\ older.domain = old.domain /\ older.real = old.real
    BY <2>1 DEF MappingTyped
  <2> HIDE DEF older
  <2> QED BY <2>2, <2>3 DEF old
<1>3. DOMAIN mappings' = DOMAIN mappings
  BY <1>1
<1>4. order \in Seq(Address) /\ IsInjective(order) /\ Range(order) = DOMAIN mappings
  BY DEF TableInv, DnsTableSound
<1>5. order' \in Seq(Address) /\ IsInjective(order') /\ Range(order') = DOMAIN mappings'
  BY <1>1, <1>3, <1>4
<1>6. DOMAIN mappings' \subseteq DOMAIN mappings
  BY <1>3
<1>7. \A f \in DOMAIN mappings' : /\ MappingTyped(mappings'[f])
                                  /\ mappings'[f].domain = mappings[f].domain
                                  /\ mappings'[f].real = mappings[f].real
  BY <1>2, <1>3
<1>8. UNCHANGED <<nextFake, recent, dnsFailed>>
  BY <1>1
<1> QED BY <1>5, <1>6, <1>7, <1>8, TableThins

(* For every capacity, range of fake addresses, TTLs and questions: the    *)
(* fake-IP table and its insertion order agree, an identity has one        *)
(* address, allocate never runs out, and an IPv4 address is handed out     *)
(* again only after all the others but DnsCapacity of them, whatever was   *)
(* evicted, expired or replaced meanwhile.                                 *)
THEOREM FakeAddressesAlwaysSound == DnsSpec => []FakeAddressesSound
<1>1. DnsInit => TableInv
  <2> SUFFICES ASSUME DnsInit PROVE TableInv
    OBVIOUS
  <2>1. mappings = << >> /\ order = << >> /\ nextFake = FakeFirst /\ recent = << >> /\ dnsFailed = FALSE
    BY DEF DnsInit
  <2>2. /\ DOMAIN << >> = {} /\ << >> \in Seq(Address) /\ IsInjective(<< >>) /\ Range(<< >>) = {}
        /\ Len(<< >>) = 0
    BY DEF IsInjective, Range
  <2>3. FakeFirst \in [Families -> Nat] /\ OnCircle(FakeFirst[4])
    BY FakeCircle, TunPolicyAssumption DEF OnCircle
  <2>4. IsFiniteSet({}) /\ Cardinality({}) <= DnsCapacity
    BY FS_EmptySet, FakeCircle
  <2>5. RecentFar
    BY <2>1, <2>2 DEF RecentFar
  <2>6. DnsTableSound
    BY <2>1, <2>2, <2>4 DEF DnsTableSound
  <2> QED BY <2>1, <2>2, <2>3, <2>4, <2>5, <2>6 DEF TableInv
<1>2. TableInv /\ [DnsNext]_dnsVars => TableInv'
  <2> SUFFICES ASSUME TableInv, [DnsNext]_dnsVars PROVE TableInv'
    OBVIOUS
  <2>1. CASE UNCHANGED dnsVars
    <3>1. mappings' = mappings /\ order' = order /\ UNCHANGED <<nextFake, recent, dnsFailed>>
      BY <2>1 DEF dnsVars
    <3>2. /\ order \in Seq(Address) /\ IsInjective(order) /\ Range(order) = DOMAIN mappings
          /\ \A f \in DOMAIN mappings : MappingTyped(mappings[f])
      BY DEF TableInv, DnsTableSound
    <3> QED BY <3>1, <3>2, TableThins
  <2>2. ASSUME NEW g \in Generations, NEW q \in Questions, NEW ttl \in Ttls, Allocate(g, q, ttl)
        PROVE  TableInv'
    BY <2>2, AllocateKeepsTable
  <2>3. ASSUME NEW g \in Generations, NEW d \in Destinations, DecideFlow(g, d)
        PROVE  TableInv'
    BY <2>3, DecideFlowKeepsTable
  <2>4. ASSUME NEW g \in Generations, NEW rules \in Policies, ReplaceGeneration(g, rules)
        PROVE  TableInv'
    BY <2>4, ReplaceGenerationKeepsTable
  <2>5. CASE DnsTick
    BY <2>5, TickKeepsTable
  <2> QED BY <2>1, <2>2, <2>3, <2>4, <2>5 DEF DnsNext
<1>3. TableInv => FakeAddressesSound
  BY DEF TableInv, FakeAddressesSound, NoEarlyReuse
<1> QED BY <1>1, <1>2, <1>3, PTL DEF DnsSpec

-----------------------------------------------------------------------------
(* The loopback proxy: what a forwarded head is made of, and what a task   *)
(* has done by the place it has come to.                                   *)

(* Where a header of that name is.                                         *)
Places(headers, name) == {i \in DOMAIN headers : headers[i].name = name}
PlacesUpTo(headers, k, name) == {i \in 1 .. k : headers[i].name = name}

(* One more element adds at most its own place.                            *)
LEMMA PlacesOfAppend ==
  ASSUME NEW S, NEW q \in Seq(S), NEW x \in S, NEW name,
         IsFiniteSet(Places(q, name))
  PROVE  /\ IsFiniteSet(Places(Append(q, x), name))
         /\ Cardinality(Places(Append(q, x), name)) =
              Cardinality(Places(q, name)) + (IF x.name = name THEN 1 ELSE 0)
<1> DEFINE a == Append(q, x)
           last == Len(q) + 1
<1>1. /\ DOMAIN a = 1 .. last /\ DOMAIN q = 1 .. Len(q) /\ Len(q) \in Nat /\ a[last] = x
      /\ \A i \in 1 .. Len(q) : a[i] = q[i]
  OBVIOUS
<1>2. last \in 1 .. last /\ last \notin 1 .. Len(q) /\ \A i : i \in 1 .. last <=> i \in 1 .. Len(q) \/ i = last
  BY <1>1
<1> HIDE DEF a, last
<1>3. CASE x.name = name
  <2>1. Places(a, name) = Places(q, name) \cup {last} /\ last \notin Places(q, name)
    BY <1>1, <1>2, <1>3 DEF Places
  <2>2. /\ IsFiniteSet(Places(q, name) \cup {last})
        /\ Cardinality(Places(q, name) \cup {last}) = Cardinality(Places(q, name)) + 1
    BY <2>1, FS_AddElement
  <2> QED BY <1>3, <2>1, <2>2 DEF a
<1>4. CASE x.name # name
  <2>1. Places(a, name) = Places(q, name)
    BY <1>1, <1>2, <1>4 DEF Places
  <2>2. Cardinality(Places(q, name)) \in Nat
    BY FS_CardinalityType
  <2> QED BY <1>4, <2>1, <2>2 DEF a
<1> QED BY <1>3, <1>4

(* The places of a name among the first headers.                           *)
LEMMA PlacesOfPrefix ==
  ASSUME NEW S, NEW s \in Seq(S), NEW k \in 1 .. Len(s), NEW name
  PROVE  /\ IsFiniteSet(PlacesUpTo(s, k - 1, name)) /\ IsFiniteSet(PlacesUpTo(s, k, name))
         /\ Cardinality(PlacesUpTo(s, k, name)) =
              Cardinality(PlacesUpTo(s, k - 1, name)) + (IF s[k].name = name THEN 1 ELSE 0)
<1> DEFINE before == PlacesUpTo(s, k - 1, name)
           upto == PlacesUpTo(s, k, name)
<1>0. k \in Nat /\ k \in 1 .. k /\ k \notin 1 .. k - 1 /\ \A i : i \in 1 .. k <=> i \in 1 .. k - 1 \/ i = k
  OBVIOUS
<1>1. IsFiniteSet(before)
  <2>1. IsFiniteSet(1 .. k - 1) /\ before \subseteq 1 .. k - 1
    BY <1>0, FS_Interval DEF PlacesUpTo
  <2> HIDE DEF before
  <2> QED BY <2>1, FS_Subset
<1>2. CASE s[k].name = name
  <2>1. upto = before \cup {k} /\ k \notin before
    BY <1>0, <1>2 DEF PlacesUpTo
  <2> HIDE DEF before, upto
  <2>2. IsFiniteSet(before \cup {k}) /\ Cardinality(before \cup {k}) = Cardinality(before) + 1
    BY <1>1, <2>1, FS_AddElement
  <2>3. IsFiniteSet(upto) /\ Cardinality(upto) = Cardinality(before) + (IF s[k].name = name THEN 1 ELSE 0)
    BY <1>2, <2>1, <2>2
  <2> QED BY <1>1, <2>3 DEF before, upto
<1>3. CASE s[k].name # name
  <2>1. upto = before
    BY <1>0, <1>3 DEF PlacesUpTo
  <2> HIDE DEF before, upto
  <2>2. Cardinality(before) \in Nat
    BY <1>1, FS_CardinalityType
  <2>3. IsFiniteSet(upto) /\ Cardinality(upto) = Cardinality(before) + (IF s[k].name = name THEN 1 ELSE 0)
    BY <1>1, <1>3, <2>1, <2>2
  <2> QED BY <1>1, <2>3 DEF before, upto
<1> QED BY <1>2, <1>3

(* What retain by name leaves has every other name as often as it came.    *)
LEMMA RetainedByName ==
  ASSUME NEW S, NEW s \in Seq(S), NEW dropped, NEW name
  PROVE  LET kept == Retained(s, {h \in Range(s) : h.name \notin dropped})
         IN /\ kept \in Seq(S) /\ IsFiniteSet(Places(kept, name))
            /\ Cardinality(Places(kept, name)) =
                 IF name \in dropped THEN 0 ELSE Cardinality(Places(s, name))
<1> DEFINE T == {h \in Range(s) : h.name \notin dropped}
           left == PartlyRetained(s, T)
           First(k) == PlacesUpTo(s, k, name)
           Fine(k) == /\ left[k] \in Seq(S) /\ IsFiniteSet(Places(left[k], name))
                      /\ Cardinality(Places(left[k], name)) =
                           IF name \in dropped THEN 0 ELSE Cardinality(First(k))
           bad == {k \in 0 .. Len(s) : ~Fine(k)}
<1>0. /\ left[0] = << >>
      /\ \A k \in 1 .. Len(s) : left[k] = IF s[k] \in T THEN Append(left[k - 1], s[k]) ELSE left[k - 1]
      /\ Len(s) \in Nat /\ DOMAIN s = 1 .. Len(s) /\ \A k \in 1 .. Len(s) : s[k] \in S
  <2> HIDE DEF T
  <2> QED BY RetainSteps
<1>00. \A k \in 1 .. Len(s) : s[k] \in T <=> s[k].name \notin dropped
  BY <1>0 DEF Range
<1> HIDE DEF left, T
<1>1. Fine(0)
  <2>1. << >> \in Seq(S) /\ Places(<< >>, name) = {} /\ First(0) = {}
    BY DEF Places, PlacesUpTo
  <2>2. IsFiniteSet({}) /\ Cardinality({}) = 0
    BY FS_EmptySet
  <2> HIDE DEF First
  <2> QED BY <1>0, <2>1, <2>2
<1>2. ASSUME NEW k \in 1 .. Len(s), Fine(k - 1) PROVE Fine(k)
  <2> DEFINE q == left[k - 1]
             m == IF s[k].name = name THEN 1 ELSE 0
  <2>0. s[k] \in S
    BY <1>0
  <2>1. /\ q \in Seq(S) /\ IsFiniteSet(Places(q, name))
        /\ Cardinality(Places(q, name)) = IF name \in dropped THEN 0 ELSE Cardinality(First(k - 1))
    BY <1>2
  <2>2. left[k] = IF s[k] \in T THEN Append(q, s[k]) ELSE q
    BY <1>0
  <2>3. /\ IsFiniteSet(First(k - 1)) /\ IsFiniteSet(First(k))
        /\ Cardinality(First(k)) = Cardinality(First(k - 1)) + m
    BY PlacesOfPrefix
  <2>4. Cardinality(First(k - 1)) \in Nat /\ Cardinality(First(k)) \in Nat
    <3> HIDE DEF First
    <3> QED BY <2>3, FS_CardinalityType
  <2> HIDE DEF q, First
  <2>5. CASE s[k] \in T
    <3>1. s[k].name \notin dropped
      BY <1>00, <2>5
    <3>2. /\ Append(q, s[k]) \in Seq(S) /\ IsFiniteSet(Places(Append(q, s[k]), name))
          /\ Cardinality(Places(Append(q, s[k]), name)) = Cardinality(Places(q, name)) + m
      BY <2>0, <2>1, PlacesOfAppend
    <3>3. left[k] = Append(q, s[k])
      BY <2>2, <2>5
    <3>4. CASE name \in dropped
      <4>1. m = 0
        BY <3>1, <3>4
      <4> HIDE DEF m
      <4> QED BY <2>1, <3>2, <3>3, <3>4, <4>1
    <3>5. CASE name \notin dropped
      <4> HIDE DEF m
      <4> QED BY <2>1, <2>3, <3>2, <3>3, <3>5
    <3> QED BY <3>4, <3>5
  <2>6. CASE s[k] \notin T
    <3>1. s[k].name \in dropped /\ left[k] = q
      BY <1>00, <2>2, <2>6
    <3>2. CASE name \in dropped
      BY <2>1, <3>1, <3>2
    <3>3. CASE name \notin dropped
      <4>1. m = 0
        BY <3>1, <3>3
      <4> HIDE DEF m
      <4>2. Cardinality(First(k)) = Cardinality(First(k - 1))
        BY <2>3, <2>4, <4>1
      <4> QED BY <2>1, <3>1, <3>3, <4>2
    <3> QED BY <3>2, <3>3
  <2> QED BY <2>5, <2>6
<1>3. bad = {}
  <2> SUFFICES ASSUME bad # {} PROVE FALSE
    OBVIOUS
  <2>1. bad \in SUBSET Nat
    BY <1>0
  <2>2. Min(bad) \in bad /\ \A y \in bad : Min(bad) <= y
    <3> HIDE DEF bad
    <3> QED BY <2>1, MinIsLeast
  <2>3. PICK k \in 0 .. Len(s) : ~Fine(k) /\ k \in bad /\ \A y \in bad : k <= y
    <3> HIDE DEF Fine
    <3> QED BY <2>2
  <2> HIDE DEF Fine
  <2>4. k # 0
    BY <1>1, <2>3
  <2>5. k \in 1 .. Len(s) /\ k - 1 \in 0 .. Len(s) /\ ~(k <= k - 1)
    BY <1>0, <2>3, <2>4
  <2>6. Fine(k - 1)
    BY <2>3, <2>5
  <2> QED BY <1>2, <2>3, <2>5, <2>6
<1>4. Fine(Len(s))
  <2>1. Len(s) \in 0 .. Len(s)
    BY <1>0
  <2> HIDE DEF Fine
  <2> QED BY <1>3, <2>1
<1>5. First(Len(s)) = Places(s, name)
  BY <1>0 DEF Places, PlacesUpTo
<1>6. Retained(s, T) = left[Len(s)]
  BY DEF Retained, left
<1>7. LET kept == Retained(s, T)
      IN /\ kept \in Seq(S) /\ IsFiniteSet(Places(kept, name))
         /\ Cardinality(Places(kept, name)) =
              IF name \in dropped THEN 0 ELSE Cardinality(Places(s, name))
  <2> HIDE DEF First
  <2> QED BY <1>4, <1>5, <1>6
<1> QED BY <1>7 DEF T

(* The rewritten head is clean, whatever the client sent.                  *)
LEMMA RewrittenHeadIsClean ==
  ASSUME NEW headers, headers \in Seq(Range(headers))
  PROVE  HeadIsClean(RewrittenHead(headers), headers)
<1> DEFINE dropped == ThisHop \cup ConnectionTokens(headers)
           kept == Retained(headers, {h \in Range(headers) : h.name \notin dropped})
           names == [i \in DOMAIN kept |-> kept[i].name]
           two == <<"host", "connection">>
           head == two \o names
<1>1. ASSUME NEW name
      PROVE  /\ kept \in Seq(Range(headers)) /\ IsFiniteSet(Places(kept, name))
             /\ Cardinality(Places(kept, name)) =
                  IF name \in dropped THEN 0 ELSE Cardinality(Places(headers, name))
  <2> HIDE DEF dropped
  <2> QED BY RetainedByName
<1> HIDE DEF kept
<1>2. DOMAIN kept = 1 .. Len(kept) /\ Len(kept) \in Nat
  <2>1. kept \in Seq(Range(headers))
    BY <1>1
  <2> QED BY <2>1
<1>3. names \in Seq({kept[i].name : i \in DOMAIN kept}) /\ Len(names) = Len(kept)
  BY <1>2
<1>4. /\ DOMAIN head = 1 .. Len(kept) + 2 /\ head[1] = "host" /\ head[2] = "connection"
      /\ \A i \in 1 .. Len(kept) : head[i + 2] = kept[i].name
  <2>1. two \in Seq({"host", "connection"}) /\ Len(two) = 2 /\ two[1] = "host" /\ two[2] = "connection"
    BY ONLY DEF two
  <2>2. \A i \in 1 .. Len(kept) : names[i] = kept[i].name
    BY <1>2
  <2> HIDE DEF two, names
  <2>3. PICK A, B : two \in Seq(A) /\ names \in Seq(B)
    BY <1>3, <2>1
  <2>4. two \in Seq(A \cup B) /\ names \in Seq(A \cup B)
    BY <2>3
  <2>5. /\ Len(head) = 2 + Len(kept) /\ head \in Seq(A \cup B)
        /\ \A i \in 1 .. 2 + Len(kept) : head[i] = IF i <= 2 THEN two[i] ELSE names[i - 2]
    <3>1. /\ two \o names \in Seq(A \cup B) /\ Len(two \o names) = Len(two) + Len(names)
          /\ \A i \in 1 .. Len(two) + Len(names) :
               (two \o names)[i] = IF i <= Len(two) THEN two[i] ELSE names[i - Len(two)]
      BY <2>4, ConcatProperties
    <3> QED BY <1>3, <2>1, <3>1
  <2>6. DOMAIN head = 1 .. Len(kept) + 2
    BY <1>2, <2>5
  <2>7. 1 \in 1 .. 2 + Len(kept) /\ 2 \in 1 .. 2 + Len(kept) /\ 1 <= 2
    BY <1>2
  <2>8. ASSUME NEW i \in 1 .. Len(kept) PROVE head[i + 2] = kept[i].name
    <3>1. i + 2 \in 1 .. 2 + Len(kept) /\ ~(i + 2 <= 2) /\ (i + 2) - 2 = i
      BY <1>2
    <3>2. head[i + 2] = names[(i + 2) - 2]
      BY <2>5, <3>1
    <3> QED BY <2>2, <3>1, <3>2
  <2> HIDE DEF head
  <2> QED BY <2>1, <2>5, <2>6, <2>7, <2>8
<1> HIDE DEF head, names, two
<1>5. \A name \in {"host", "connection"} : Places(kept, name) = {}
  <2> TAKE name \in {"host", "connection"}
  <2>1. name \in dropped
    BY DEF ThisHop
  <2>2. Cardinality(Places(kept, name)) = 0 /\ IsFiniteSet(Places(kept, name))
    BY <1>1, <2>1
  <2> QED BY <2>2, FS_EmptySet
<1>6. ASSUME NEW name
      PROVE  Occurrences(head, name) =
               IF name \in {"host", "connection"} THEN 1 ELSE Cardinality(Places(kept, name))
  <2> DEFINE at == {i \in DOMAIN head : head[i] = name}
  <2>1. CASE name \in {"host", "connection"}
    <3>1. \A i \in 1 .. Len(kept) + 2 : i = 1 \/ i = 2 \/ (i - 2 \in 1 .. Len(kept) /\ (i - 2) + 2 = i)
      BY <1>2
    <3>2. \A i \in 1 .. Len(kept) : kept[i].name # name
      BY <1>2, <1>5, <2>1 DEF Places
    <3>3. 1 \in 1 .. Len(kept) + 2 /\ 2 \in 1 .. Len(kept) + 2
      BY <1>2
    <3>4. \A i \in 1 .. Len(kept) + 2 : head[i] = name => i = 1 \/ i = 2
      <4> TAKE i \in 1 .. Len(kept) + 2
      <4>1. CASE i - 2 \in 1 .. Len(kept) /\ (i - 2) + 2 = i
        <5>1. head[i] = kept[i - 2].name
          BY <1>4, <4>1
        <5> QED BY <3>2, <4>1, <5>1
      <4> QED BY <3>1, <4>1
    <3>5. at = IF name = "host" THEN {1} ELSE {2}
      BY <1>4, <2>1, <3>3, <3>4
    <3>6. Cardinality({1}) = 1 /\ Cardinality({2}) = 1
      BY FS_Singleton
    <3> QED BY <2>1, <3>5, <3>6 DEF Occurrences
  <2>2. CASE name \notin {"host", "connection"}
    <3> DEFINE from == Places(kept, name)
               g == [i \in from |-> i + 2]
    <3>1. from \subseteq 1 .. Len(kept) /\ \A i \in from : kept[i].name = name
      BY <1>2 DEF Places
    <3>2. \A i \in from : i + 2 \in at
      <4> TAKE i \in from
      <4>1. i + 2 \in 1 .. Len(kept) + 2
        BY <1>2, <3>1
      <4> QED BY <1>4, <3>1, <4>1
    <3>3. \A j \in at : \E i \in from : j = i + 2
      <4> TAKE j \in at
      <4>1. j \in 1 .. Len(kept) + 2 /\ j # 1 /\ j # 2
        BY <1>4, <2>2
      <4>2. j - 2 \in 1 .. Len(kept) /\ j = (j - 2) + 2
        BY <1>2, <4>1
      <4>3. head[j] = kept[j - 2].name
        BY <1>4, <4>2
      <4>4. j - 2 \in from
        BY <1>2, <4>2, <4>3 DEF Places
      <4> QED BY <4>2, <4>4
    <3>4. \A i, j \in from : i + 2 = j + 2 => i = j
      BY <1>2, <3>1
    <3> HIDE DEF from, at
    <3>5. g \in [from -> at] /\ DOMAIN g = from /\ \A i \in from : g[i] = i + 2
      BY <3>2
    <3> HIDE DEF g
    <3>6. g \in Bijection(from, at)
      BY <3>3, <3>4, <3>5 DEF Bijection, Injection, Surjection, IsInjective
    <3>7. IsFiniteSet(from) /\ ExistsBijection(from, at)
      BY <1>1, <3>6 DEF ExistsBijection, from
    <3>8. Cardinality(at) = Cardinality(from)
      BY <3>7, FS_Bijection
    <3> QED BY <2>2, <3>8 DEF Occurrences, at, from
  <2> QED BY <2>1, <2>2
<1>7. head = RewrittenHead(headers)
  BY DEF head, names, two, kept, RewrittenHead
<1>8. \A name : Occurrences(head, name) =
        IF name \in {"host", "connection"} THEN 1
        ELSE IF name \in dropped THEN 0
        ELSE Cardinality({i \in DOMAIN headers : headers[i].name = name})
  <2> TAKE name
  <2> HIDE DEF dropped
  <2> QED BY <1>1, <1>6 DEF Places
<1> QED BY <1>7, <1>8 DEF HeadIsClean

(* What a task has done by the place it has come to.                       *)
ServedTask(x, pooled) ==
  /\ x.answer = "success" => x.stream # None
  /\ x.route = "REJECT" => x.at = "closed" /\ x.answer = "forbidden" /\ x.stream = None
  /\ x.stream = Direct => x.route = "DIRECT"
  /\ x.stream # None /\ ~pooled => x.route \in {"PROXY", "DIRECT"}
  /\ x.head # None => HeadIsClean(x.head, x.request.headers)
TaskSound(x, pooled) ==
  /\ DOMAIN x = {"at", "request", "route", "target", "stream", "answer", "head", "up", "down"}
  /\ x.at # "none" => x.request \in ProxyRequests
  /\ x.at \in {"none", "reading", "unread", "resolving", "connecting", "opening"} =>
       x.stream = None /\ x.answer = "none" /\ x.head = None
  /\ x.at = "connecting" => x.route = "DIRECT"
  /\ x.at \in {"checking", "answering"} => x.answer = "none" /\ x.head = None /\ x.stream # None
  /\ ServedTask(x, pooled)
ProxyInv ==
  /\ poolMode \in BOOLEAN /\ proxyRuntime.generation \in Nat \ {0}
  /\ DOMAIN proxyRuntime = {"generation", "online"}
  /\ DOMAIN client = Clients /\ \A c \in Clients : TaskSound(client[c], poolMode)

(* A step of one task that leaves it sound leaves all of them sound.       *)
LEMMA StepKeepsTasks ==
  ASSUME ProxyInv, NEW c \in Clients, NEW from, NEW next, Step(c, from, next),
         TaskSound(next, poolMode)
  PROVE  ProxyInv'
<1>1. /\ client' = [client EXCEPT ![c] = next] /\ UNCHANGED <<poolMode, proxyRuntime>>
      /\ DOMAIN client = Clients
  BY DEF Step, ProxyInv
<1>2. DOMAIN client' = Clients /\ client'[c] = next /\ \A d \in Clients \ {c} : client'[d] = client[d]
  BY <1>1
<1>3. \A d \in Clients : TaskSound(client'[d], poolMode)
  BY <1>2 DEF ProxyInv
<1>4. \A d \in Clients : TaskSound(client'[d], poolMode')
  BY <1>1, <1>3
<1> QED BY <1>1, <1>2, <1>4 DEF ProxyInv, TaskSound, ServedTask

(* A task that only moves on, or is closed, has done what it had done.     *)
LEMMA TaskMoves ==
  ASSUME NEW x, NEW pooled, TaskSound(x, pooled), x.at # "none", NEW at, NEW up, NEW down,
         \/ at = "closed"
         \/ at \in {"resolving", "unread"} /\ x.at = "reading"
         \/ at = "answering" /\ x.at = "checking"
         \/ at = "relaying" /\ x.at = "relaying",
         NEW next, next = [x EXCEPT !.at = at, !.up = up, !.down = down]
  PROVE  TaskSound(next, pooled)
<1>1. /\ DOMAIN next = DOMAIN x /\ next.at = at /\ next.request = x.request /\ next.route = x.route
      /\ next.stream = x.stream /\ next.answer = x.answer /\ next.head = x.head
  BY DEF TaskSound
<1> QED BY <1>1 DEF TaskSound, ServedTask

(* accept begins with nothing; read_request tells what was asked.          *)
LEMMA TasksBegin ==
  ASSUME ProxyInv, NEW c \in Clients
  PROVE  /\ \A l, r : r \in ProxyRequests /\ ProxyAccept(l, c, r) => ProxyInv'
         /\ ReadRequest(c) => ProxyInv'
         /\ ClientFails(c) => ProxyInv'
         /\ NodeRefused(c) => ProxyInv'
         /\ StreamChecked(c) => ProxyInv'
<1> PICK x : x = client[c]
  OBVIOUS
<1>0. TaskSound(x, poolMode)
  BY DEF ProxyInv
<1>1. ASSUME NEW l, NEW r \in ProxyRequests, ProxyAccept(l, c, r) PROVE ProxyInv'
  <2> DEFINE next == [x EXCEPT !.at = "reading", !.request = r]
  <2>1. x.at = "none" /\ Step(c, "none", next)
    BY <1>1 DEF ProxyAccept, Step
  <2>2. /\ DOMAIN next = DOMAIN x /\ next.at = "reading" /\ next.request = r /\ next.route = x.route
        /\ next.stream = x.stream /\ next.answer = x.answer /\ next.head = x.head
    BY <1>0 DEF TaskSound
  <2> HIDE DEF next
  <2>3. TaskSound(next, poolMode)
    BY <1>0, <2>1, <2>2 DEF TaskSound, ServedTask
  <2> QED BY <2>1, <2>3, StepKeepsTasks
<1>2. ASSUME NEW from, NEW at, x.at = from, from # "none", Step(c, from, MovedTo(c, at)),
             \/ at = "closed"
             \/ at \in {"resolving", "unread"} /\ from = "reading"
             \/ at = "answering" /\ from = "checking"
      PROVE  ProxyInv'
  <2> DEFINE next == [x EXCEPT !.at = at]
  <2>1. next = [x EXCEPT !.at = at, !.up = x.up, !.down = x.down]
    BY <1>0 DEF TaskSound
  <2>2. Step(c, from, next)
    BY <1>2 DEF MovedTo
  <2> HIDE DEF next
  <2>3. TaskSound(next, poolMode)
    BY <1>0, <1>2, <2>1, TaskMoves
  <2> QED BY <2>2, <2>3, StepKeepsTasks
<1>3. ReadRequest(c) => ProxyInv'
  <2> SUFFICES ASSUME ReadRequest(c) PROVE ProxyInv'
    OBVIOUS
  <2> DEFINE at == IF Accepted(client[c].request) THEN "resolving" ELSE "unread"
  <2>1. x.at = "reading" /\ Step(c, "reading", MovedTo(c, at)) /\ at \in {"resolving", "unread"}
    BY DEF ReadRequest
  <2> HIDE DEF at
  <2>2. PICK a : a = at
    OBVIOUS
  <2>3. Step(c, "reading", MovedTo(c, a)) /\ a \in {"resolving", "unread"}
    BY <2>1, <2>2
  <2> QED BY <1>2, <2>1, <2>3
<1>4. ClientFails(c) => ProxyInv'
  <2> SUFFICES ASSUME NEW from \in {"reading", "resolving", "connecting", "opening", "answering"},
                      Step(c, from, MovedTo(c, "closed"))
               PROVE  ProxyInv'
    BY DEF ClientFails
  <2>1. x.at = from
    BY DEF Step
  <2> QED BY <1>2, <2>1
<1>5. NodeRefused(c) => ProxyInv'
  <2> SUFFICES ASSUME NodeRefused(c) PROVE ProxyInv'
    OBVIOUS
  <2>1. x.at = "opening" /\ Step(c, "opening", MovedTo(c, "closed"))
    BY DEF NodeRefused, Step
  <2> QED BY <1>2, <2>1
<1>6. StreamChecked(c) => ProxyInv'
  <2> SUFFICES ASSUME StreamChecked(c) PROVE ProxyInv'
    OBVIOUS
  <2> DEFINE at == IF poolMode \/ ProxyOnline(client[c].stream) THEN "answering" ELSE "closed"
  <2>1. x.at = "checking" /\ Step(c, "checking", MovedTo(c, at)) /\ at \in {"answering", "closed"}
    BY DEF StreamChecked
  <2> HIDE DEF at
  <2>2. PICK a : a = at
    OBVIOUS
  <2>3. Step(c, "checking", MovedTo(c, a)) /\ a \in {"answering", "closed"}
    BY <2>1, <2>2
  <2> QED BY <1>2, <2>1, <2>3
<1> QED BY <1>1, <1>3, <1>4, <1>5, <1>6

(* A client is routed once: a rejected one is told and let nowhere.        *)
LEMMA RoutingKeepsTasks ==
  ASSUME ProxyInv, NEW c \in Clients, NEW ip, ResolveAndRoute(c, ip)
  PROVE  ProxyInv'
<1> PICK x : x = client[c]
  OBVIOUS
<1> DEFINE t == client[c].request.target
           destination == [ip |-> ip, port |-> t.port]
           route == Decide(ProxyPolicy, TargetDomain(t), destination)
           next == CASE route = "REJECT" ->
                          [x EXCEPT !.at = "closed", !.route = route, !.answer = "forbidden"]
                     [] route = "DIRECT" ->
                          [x EXCEPT !.at = "connecting", !.route = route, !.target = destination]
                     [] OTHER ->
                          [x EXCEPT !.at = "opening", !.route = route, !.target = destination]
<1>1. Step(c, "resolving", next) /\ x.at = "resolving"
  BY Zenon DEF ResolveAndRoute, Step
<1>2. TaskSound(x, poolMode)
  BY DEF ProxyInv
<1> HIDE DEF destination, route
<1>3. PICK n : n = next
  OBVIOUS
<1>4. CASE route = "REJECT"
  <2>1. n = [x EXCEPT !.at = "closed", !.route = route, !.answer = "forbidden"]
    BY <1>3, <1>4
  <2>2. /\ DOMAIN n = DOMAIN x /\ n.at = "closed" /\ n.request = x.request /\ n.route = "REJECT"
        /\ n.stream = x.stream /\ n.answer = "forbidden" /\ n.head = x.head
    BY <1>2, <1>4, <2>1 DEF TaskSound
  <2>3. TaskSound(n, poolMode)
    BY <1>1, <1>2, <2>2, ProxyAssumption DEF TaskSound, ServedTask, Direct
  <2> QED BY <1>1, <1>3, <2>3, StepKeepsTasks
<1>5. CASE route = "DIRECT"
  <2>1. n = [x EXCEPT !.at = "connecting", !.route = route, !.target = destination]
    BY <1>3, <1>5
  <2>2. /\ DOMAIN n = DOMAIN x /\ n.at = "connecting" /\ n.request = x.request /\ n.route = "DIRECT"
        /\ n.stream = x.stream /\ n.answer = x.answer /\ n.head = x.head
    BY <1>2, <1>5, <2>1 DEF TaskSound
  <2>3. TaskSound(n, poolMode)
    BY <1>1, <1>2, <2>2 DEF TaskSound, ServedTask
  <2> QED BY <1>1, <1>3, <2>3, StepKeepsTasks
<1>6. CASE route \notin {"REJECT", "DIRECT"}
  <2>1. n = [x EXCEPT !.at = "opening", !.route = route, !.target = destination]
    BY <1>3, <1>6
  <2>2. /\ DOMAIN n = DOMAIN x /\ n.at = "opening" /\ n.request = x.request /\ n.route = route
        /\ n.stream = x.stream /\ n.answer = x.answer /\ n.head = x.head
    BY <1>2, <2>1 DEF TaskSound
  <2>3. TaskSound(n, poolMode)
    BY <1>1, <1>2, <1>6, <2>2, ProxyAssumption DEF TaskSound, ServedTask, Direct
  <2> QED BY <1>1, <1>3, <2>3, StepKeepsTasks
<1> QED BY <1>4, <1>5, <1>6

(* A way out is opened as the route says.                                  *)
LEMMA OpeningKeepsTasks ==
  ASSUME ProxyInv, NEW c \in Clients, DirectConnects(c) \/ StreamOpened(c)
  PROVE  ProxyInv'
<1> PICK x, g : x = client[c] /\ g = proxyRuntime.generation
  OBVIOUS
<1>0. TaskSound(x, poolMode) /\ g \in Nat \ {0} /\ None \notin Nat
  BY ProxyAssumption DEF ProxyInv
<1>1. CASE DirectConnects(c)
  <2> DEFINE next == [x EXCEPT !.at = "answering", !.stream = Direct]
  <2>1. Step(c, "connecting", next) /\ x.at = "connecting"
    BY <1>1 DEF DirectConnects, Step
  <2>2. /\ DOMAIN next = DOMAIN x /\ next.at = "answering" /\ next.request = x.request
        /\ next.route = x.route /\ next.stream = Direct /\ next.answer = x.answer /\ next.head = x.head
    BY <1>0 DEF TaskSound
  <2> HIDE DEF next
  <2>3. Direct # None
    BY <1>0 DEF Direct
  <2>4. TaskSound(next, poolMode)
    BY <1>0, <2>1, <2>2, <2>3 DEF TaskSound, ServedTask
  <2> QED BY <2>1, <2>4, StepKeepsTasks
<1>2. CASE StreamOpened(c)
  <2> DEFINE next == [x EXCEPT !.at = "checking", !.stream = g]
  <2>1. /\ Step(c, "opening", next) /\ x.at = "opening" /\ (x.route = "PROXY" \/ poolMode)
    BY <1>2 DEF StreamOpened, Step
  <2>2. /\ DOMAIN next = DOMAIN x /\ next.at = "checking" /\ next.request = x.request
        /\ next.route = x.route /\ next.stream = g /\ next.answer = x.answer /\ next.head = x.head
    BY <1>0 DEF TaskSound
  <2> HIDE DEF next
  <2>3. g # None /\ g # Direct
    BY <1>0 DEF Direct
  <2>4. TaskSound(next, poolMode)
    BY <1>0, <2>1, <2>2, <2>3 DEF TaskSound, ServedTask
  <2> QED BY <2>1, <2>4, StepKeepsTasks
<1> QED BY <1>1, <1>2

(* Success is told, and a head forwarded, only over that way out.          *)
LEMMA AnsweringKeepsTasks ==
  ASSUME ProxyInv, NEW c \in Clients, ClientAnswered(c)
  PROVE  ProxyInv'
<1> PICK x : x = client[c]
  OBVIOUS
<1> DEFINE answer == IF x.request.kind = "forward" THEN "none" ELSE "success"
           head == IF x.request.kind = "forward" THEN RewrittenHead(x.request.headers) ELSE None
           next == [x EXCEPT !.at = "relaying", !.up = TRUE, !.down = TRUE,
                             !.answer = answer, !.head = head]
<1>0. TaskSound(x, poolMode)
  BY DEF ProxyInv
<1>1. Step(c, "answering", next) /\ x.at = "answering"
  BY DEF ClientAnswered, Step
<1>2. head # None => HeadIsClean(head, x.request.headers)
  <2> SUFFICES ASSUME x.request.kind = "forward"
               PROVE  HeadIsClean(RewrittenHead(x.request.headers), x.request.headers)
    OBVIOUS
  <2>1. x.request \in ProxyRequests
    BY <1>0, <1>1 DEF TaskSound
  <2>2. x.request.headers \in Seq(Range(x.request.headers))
    BY <2>1, ProxyAssumption
  <2> QED BY <2>2, RewrittenHeadIsClean
<1>3. answer \in {"none", "success"}
  OBVIOUS
<1> HIDE DEF answer, head
<1>4. /\ DOMAIN next = DOMAIN x /\ next.at = "relaying" /\ next.request = x.request
      /\ next.route = x.route /\ next.stream = x.stream /\ next.answer = answer /\ next.head = head
  BY <1>0 DEF TaskSound
<1> HIDE DEF next
<1>5. TaskSound(next, poolMode)
  BY <1>0, <1>1, <1>2, <1>3, <1>4 DEF TaskSound, ServedTask
<1> QED BY <1>1, <1>5, StepKeepsTasks

(* The ends of a relay change nothing that was served.                     *)
LEMMA RelayingKeepsTasks ==
  ASSUME ProxyInv, NEW c \in Clients, UpstreamEnds(c) \/ DownstreamEnds(c) \/ DirectBreaks(c)
  PROVE  ProxyInv'
<1> PICK x : x = client[c]
  OBVIOUS
<1>0. TaskSound(x, poolMode)
  BY DEF ProxyInv
<1>1. ASSUME NEW next, Step(c, "relaying", next),
             \/ next = [x EXCEPT !.at = "closed", !.up = FALSE, !.down = FALSE]
             \/ next = [x EXCEPT !.up = FALSE]
             \/ next = [x EXCEPT !.down = FALSE]
      PROVE  ProxyInv'
  <2>1. x.at = "relaying"
    BY <1>1 DEF Step
  <2>2. PICK at, up, down :
          /\ at = "closed" \/ (at = "relaying" /\ x.at = "relaying")
          /\ next = [x EXCEPT !.at = at, !.up = up, !.down = down]
    <3>1. /\ [x EXCEPT !.up = FALSE] = [x EXCEPT !.at = "relaying", !.up = FALSE, !.down = x.down]
          /\ [x EXCEPT !.down = FALSE] = [x EXCEPT !.at = "relaying", !.up = x.up, !.down = FALSE]
      BY <1>0, <2>1 DEF TaskSound
    <3>2. CASE next = [x EXCEPT !.at = "closed", !.up = FALSE, !.down = FALSE]
      <4> WITNESS "closed", FALSE, FALSE
      <4> QED BY <3>2
    <3>3. CASE next = [x EXCEPT !.up = FALSE]
      <4> WITNESS "relaying", FALSE, x.down
      <4> QED BY <2>1, <3>1, <3>3
    <3>4. CASE next = [x EXCEPT !.down = FALSE]
      <4> WITNESS "relaying", x.up, FALSE
      <4> QED BY <2>1, <3>1, <3>4
    <3> QED BY <1>1, <3>2, <3>3, <3>4
  <2>3. TaskSound(next, poolMode)
    BY <1>0, <2>1, <2>2, TaskMoves
  <2> QED BY <1>1, <2>3, StepKeepsTasks
<1>2. CASE UpstreamEnds(c)
  <2> DEFINE after == IF client[c].stream = Direct /\ ~client[c].down
                      THEN Relayed(c) ELSE [client[c] EXCEPT !.up = FALSE]
  <2>1. Step(c, "relaying", after)
    BY <1>2 DEF UpstreamEnds
  <2>2. \/ after = [x EXCEPT !.at = "closed", !.up = FALSE, !.down = FALSE]
        \/ after = [x EXCEPT !.up = FALSE]
    BY DEF Relayed
  <2> HIDE DEF after
  <2>3. PICK n : n = after
    OBVIOUS
  <2> QED BY <1>1, <2>1, <2>2, <2>3
<1>3. CASE DownstreamEnds(c)
  <2> DEFINE after == IF client[c].stream = Direct /\ client[c].up
                      THEN [client[c] EXCEPT !.down = FALSE] ELSE Relayed(c)
  <2>1. Step(c, "relaying", after)
    BY <1>3 DEF DownstreamEnds
  <2>2. \/ after = [x EXCEPT !.at = "closed", !.up = FALSE, !.down = FALSE]
        \/ after = [x EXCEPT !.down = FALSE]
    BY DEF Relayed
  <2> HIDE DEF after
  <2>3. PICK n : n = after
    OBVIOUS
  <2> QED BY <1>1, <2>1, <2>2, <2>3
<1>4. CASE DirectBreaks(c)
  <2>1. Step(c, "relaying", Relayed(c))
    BY <1>4 DEF DirectBreaks
  <2>2. PICK n : n = Relayed(c)
    OBVIOUS
  <2>3. n = [x EXCEPT !.at = "closed", !.up = FALSE, !.down = FALSE]
    BY <2>2 DEF Relayed
  <2> QED BY <1>1, <2>1, <2>2, <2>3
<1> QED BY <1>2, <1>3, <1>4

(* The runtime, the listeners and the adapter leave the tasks alone.       *)
LEMMA OthersKeepTasks ==
  ASSUME ProxyInv,
         \/ ProxyRuntimeChanges \/ ProxyStop
         \/ \E bound \in BOOLEAN : ProxyStart(bound)
         \/ \E l \in {4, 6} : ListenerEnds(l)
         \/ UNCHANGED proxyVars
  PROVE  ProxyInv'
<1>1. UNCHANGED <<poolMode, client>>
  BY DEF ProxyRuntimeChanges, ProxyStop, ProxyStart, ListenerEnds, proxyVars
<1>2. proxyRuntime'.generation \in Nat \ {0} /\ DOMAIN proxyRuntime' = {"generation", "online"}
  <2>1. CASE UNCHANGED proxyRuntime
    BY <2>1 DEF ProxyInv
  <2>2. CASE ProxyRuntimeChanges
    BY <2>2 DEF ProxyRuntimeChanges, ProxyInv
  <2> QED BY <2>1, <2>2 DEF ProxyStop, ProxyStart, ListenerEnds, proxyVars
<1> QED BY <1>1, <1>2 DEF ProxyInv, TaskSound, ServedTask

(* For all clients, requests, policies and resolutions: a local client is  *)
(* served as the policy routed it, and what a forwarded request begins     *)
(* with has one Host, one Connection, nothing of this hop and everything   *)
(* else as often as it came.                                               *)
THEOREM AlwaysServedAsRouted == ProxySpec => []ServedAsRouted
<1>1. ProxyInit => ProxyInv
  <2> SUFFICES ASSUME ProxyInit PROVE ProxyInv
    OBVIOUS
  <2>1. TaskSound(NewClient, poolMode)
    BY ProxyAssumption DEF NewClient, TaskSound, ServedTask, Direct
  <2> QED BY <2>1 DEF ProxyInit, ProxyInv
<1>2. ProxyInv /\ [ProxyNext]_proxyVars => ProxyInv'
  <2> SUFFICES ASSUME ProxyInv, [ProxyNext]_proxyVars PROVE ProxyInv'
    OBVIOUS
  <2>1. CASE \/ ProxyRuntimeChanges \/ ProxyStop
             \/ \E bound \in BOOLEAN : ProxyStart(bound)
             \/ \E l \in {4, 6} : ListenerEnds(l)
             \/ UNCHANGED proxyVars
    BY <2>1, OthersKeepTasks
  <2>2. ASSUME NEW c \in Clients,
               \/ \E l \in {4, 6}, r \in ProxyRequests : ProxyAccept(l, c, r)
               \/ ReadRequest(c) \/ ClientFails(c) \/ NodeRefused(c) \/ StreamChecked(c)
        PROVE  ProxyInv'
    BY <2>2, TasksBegin
  <2>3. ASSUME NEW c \in Clients, NEW ip, ResolveAndRoute(c, ip) PROVE ProxyInv'
    BY <2>3, RoutingKeepsTasks
  <2>4. ASSUME NEW c \in Clients, DirectConnects(c) \/ StreamOpened(c) PROVE ProxyInv'
    BY <2>4, OpeningKeepsTasks
  <2>5. ASSUME NEW c \in Clients, ClientAnswered(c) PROVE ProxyInv'
    BY <2>5, AnsweringKeepsTasks
  <2>6. ASSUME NEW c \in Clients, UpstreamEnds(c) \/ DownstreamEnds(c) \/ DirectBreaks(c)
        PROVE  ProxyInv'
    BY <2>6, RelayingKeepsTasks
  <2> QED BY <2>1, <2>2, <2>3, <2>4, <2>5, <2>6 DEF ProxyNext
<1>3. ProxyInv => ServedAsRouted
  BY DEF ProxyInv, TaskSound, ServedTask, ServedAsRouted
<1> QED BY <1>1, <1>2, <1>3, PTL DEF ProxySpec
=============================================================================
