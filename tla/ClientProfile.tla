--------------------------- MODULE ClientProfile ----------------------------
(***************************************************************************)
(* Client documents and the multi-node engine they drive: the profile and  *)
(* enrollment documents of velum-client-profile with the validation and    *)
(* normalisation behind the profile and enrollment ABI, and the engine     *)
(* handle of velum-client-ffi, whose commands host threads issue.          *)
(*                                                                         *)
(* The app activates the nodes of a normalised profile, an alias defaulting*)
(* to the id, and starts the proxy with its rules. The pool behind the     *)
(* engine is here the last state it was given; NodePool has its steps.     *)
(***************************************************************************)
EXTENDS Naturals, Sequences, SequencesExt, FiniteSets, Routing

CONSTANTS
  Identifiers,      \* texts that are lower-case letters, digits, inner - and _, at most 64
  SecretSegments,   \* non-empty path segments of letters, digits, - _ . other than . and ..
  Profiles,         \* profile documents that may be given to the client
  Bundles,          \* enrollment documents
  MaxProfileNodes,  \* 128 in the code
  MaxProfileRules,  \* 10000 in the code
  HostThreads,
  MaxEngineGeneration \* bound: generations of the pool

ASSUME DocumentsAssumption ==
  /\ None \notin Identifiers /\ "PROXY" \notin Identifiers
  /\ Identifiers \cup {"enrollment"} \subseteq SecretSegments
  /\ \A p \in Profiles :
       /\ DOMAIN p = {"version", "id", "named", "nodes", "default", "rules", "tun"}
       /\ Len(p.rules) \in Nat /\ DOMAIN p.rules = 1 .. Len(p.rules)
       /\ \A i \in DOMAIN p.rules : DOMAIN p.rules[i] = {"kind", "value", "action"}
  /\ \A b \in Bundles :
       /\ DOMAIN b = {"kind", "version", "node", "named", "reachable", "server", "principal",
                     "credential", "trust"}
       /\ DOMAIN b.credential = {"hex", "bytes", "upper"}
       /\ b.principal \in SecretSegments                    \* a number's digits

VARIABLES
  stored,           \* canonical documents: [profiles, bundles]
  engineHandle,     \* [inTable, destroyed, proxy, pool] of the handle, or None
  command           \* [HostThreads -> the command a thread holds an entry for, or None]

engineVars == <<stored, engineHandle, command>>

EmptyPool == [generation |-> 0, nodes |-> << >>, aliases |-> << >>, default |-> None, source |-> None]

EngineInit ==
  /\ stored = [profiles |-> {}, bundles |-> {}]
  /\ engineHandle = None
  /\ command = [t \in HostThreads |-> None]

----------------------------------------------------------------------------
(* SecretRef::parse and validate_server_name.                              *)
ValidSecretRef(r) ==
  /\ r.namespace /\ r.segments # << >> /\ ~r.long
  /\ \A i \in DOMAIN r.segments : r.segments[i] \in SecretSegments
ValidServerName(name) == name.ip \/ NormalizeDomain(name.name) # None

(* InterfaceAddress::new: host bits are kept, the prefix is checked.       *)
ValidInterface(a) == a.prefix <= AddressBits[a.family]

(* What a node may be called by, and the node a name means.                *)
NamesOf(node) == {node.id} \cup ({node.alias} \ {None})
Meaning(nodes) ==
  [r \in UNION {NamesOf(nodes[i]) : i \in DOMAIN nodes} |->
     nodes[CHOOSE i \in DOMAIN nodes : r \in NamesOf(nodes[i])].id]

(* Mutant: a second use of a name replaces the first.                      *)
ReferencesOverwrite(nodes) ==
  [r \in DOMAIN Meaning(nodes) |->
     nodes[CHOOSE i \in DOMAIN nodes :
             /\ r \in NamesOf(nodes[i])
             /\ \A k \in DOMAIN nodes : r \in NamesOf(nodes[k]) => k <= i].id]

(* The references of a profile: ids and aliases share one name space, and  *)
(* no name may be used twice (None).                                       *)
References(nodes) ==
  IF /\ \A i \in DOMAIN nodes : nodes[i].alias # nodes[i].id
     /\ \A i, j \in DOMAIN nodes : i # j => NamesOf(nodes[i]) \cap NamesOf(nodes[j]) = {}
  THEN Meaning(nodes) ELSE None

ValidNode(node) ==
  /\ node.id \in Identifiers
  /\ node.alias # None => node.alias \in Identifiers
  /\ ValidServerName(node.server)
  /\ ValidSecretRef(node.credential)
  /\ node.ca # None => ValidSecretRef(node.ca)
ValidTraffic(tun) ==
  /\ 576 <= tun.mtu /\ tun.mtu <= 9000
  /\ tun.ipv4.family = 4 /\ tun.ipv6.family = 6
  /\ ValidInterface(tun.ipv4) /\ ValidInterface(tun.ipv6)
  /\ tun.dns # << >>

IsNode(action) == action \notin {"DIRECT", "REJECT", "PROXY"}

(* validate_and_normalize: None, or the profile with every reference       *)
(* replaced by the id it means.                                            *)
Normalize(p) ==
  LET references == References(p.nodes)
      resolve(action) == IF IsNode(action) THEN references[action] ELSE action
  IN IF /\ p.version = 1 /\ p.id \in Identifiers /\ p.named
        /\ Len(p.nodes) \in 1..MaxProfileNodes /\ Len(p.rules) <= MaxProfileRules
        /\ \A i \in DOMAIN p.nodes : ValidNode(p.nodes[i])
        /\ references # None
        /\ p.default \in DOMAIN references
        /\ \A i \in DOMAIN p.rules :
             IsNode(p.rules[i].action) => p.rules[i].action \in DOMAIN references
        /\ ValidPolicy(p.rules)
        /\ ValidTraffic(p.tun)
     THEN [p EXCEPT !.default = references[p.default],
                    !.rules = [i \in DOMAIN p.rules |->
                                 [p.rules[i] EXCEPT !.action = resolve(p.rules[i].action)]]]
     ELSE None

(* EnrollmentBundle: validate_and_normalize, and the reference under which *)
(* the app stores the credential. A bundle has no upper-case digits after. *)
NormalizeBundle(b) ==
  IF /\ b.kind = "velum-enrollment" /\ b.version = 1
     /\ b.node \in Identifiers /\ b.named /\ b.reachable
     /\ ValidServerName(b.server)
     /\ b.credential.hex /\ b.credential.bytes = 32
     /\ b.trust # "bad certificate"
  THEN [b EXCEPT !.credential.upper = FALSE] ELSE None
CredentialRef(b) ==
  [namespace |-> TRUE, segments |-> <<"enrollment", b.node, b.principal>>, long |-> FALSE]

(* The ABI calls: the canonical text is written if the buffer holds it.    *)
NormalizeProfile(p, fits) ==
  /\ stored' = IF Normalize(p) = None \/ ~fits THEN stored
               ELSE [stored EXCEPT !.profiles = @ \cup {[source |-> p, canonical |-> Normalize(p)]}]
  /\ UNCHANGED <<engineHandle, command>>
NormalizeEnrollment(b, fits) ==
  /\ stored' = IF NormalizeBundle(b) = None \/ ~fits THEN stored
               ELSE [stored EXCEPT !.bundles = @ \cup {NormalizeBundle(b)}]
  /\ UNCHANGED <<engineHandle, command>>

----------------------------------------------------------------------------
NextGeneration == engineHandle.pool.generation + 1

(* NodePool::prepare: ids among ids and aliases among aliases are unique.  *)
Prepare(document) ==
  LET nodes == document.canonical.nodes
      alias(i) == IF nodes[i].alias = None THEN nodes[i].id ELSE nodes[i].alias
      ids == {nodes[i].id : i \in DOMAIN nodes}
      aliases == [i \in DOMAIN nodes |-> alias(i)]
  IN IF Cardinality(ids) = Len(nodes) /\ IsInjective(aliases)
     THEN [generation |-> NextGeneration, nodes |-> ids,
           aliases |-> [a \in ToSet(aliases) |-> nodes[CHOOSE i \in DOMAIN nodes : alias(i) = a].id],
           default |-> document.canonical.default, source |-> document.source]
     ELSE None

(* What a reference means to the pool: PROXY is the default, ids first.    *)
PoolNode(pool, reference) ==
  IF reference = "PROXY" THEN pool.default
  ELSE IF reference \in pool.nodes THEN reference
  ELSE IF reference \in DOMAIN pool.aliases THEN pool.aliases[reference]
  ELSE None

CreateEngine ==
  /\ engineHandle = None
  /\ engineHandle' = [inTable |-> TRUE, destroyed |-> FALSE, proxy |-> None, pool |-> EmptyPool]
  /\ UNCHANGED <<stored, command>>

(* engine_entry: the handle is looked up before the command mutex is taken.*)
FindEngine(t, operation, document) ==
  /\ command[t] = None /\ engineHandle # None /\ engineHandle.inTable
  /\ command' = [command EXCEPT ![t] = [operation |-> operation, document |-> document]]
  /\ UNCHANGED <<stored, engineHandle>>

(* Everything a command does happens under the mutex, after the check that *)
(* the entry was not destroyed meanwhile.                                  *)
RunsCommand(t, operation) ==
  /\ command[t] # None /\ command[t].operation = operation
  /\ command' = [command EXCEPT ![t] = None]
  /\ UNCHANGED stored
CommandRefused(t) ==
  /\ command[t] # None /\ engineHandle.destroyed /\ command[t].operation # "destroy"
  /\ command' = [command EXCEPT ![t] = None]
  /\ UNCHANGED <<stored, engineHandle>>

(* Mutant: the proxy keeps running over the change of profile.             *)
ActivateKeepsProxy(t) ==
  /\ RunsCommand(t, "activate") /\ ~engineHandle.destroyed
  /\ NextGeneration <= MaxEngineGeneration
  /\ LET prepared == Prepare(command[t].document)
     IN engineHandle' = IF prepared = None THEN engineHandle
                  ELSE [engineHandle EXCEPT !.pool = prepared]

(* activate: the proxy goes first, also when the pool then refuses.        *)
ActivateEngine(t) ==
  /\ RunsCommand(t, "activate") /\ ~engineHandle.destroyed
  /\ NextGeneration <= MaxEngineGeneration
  /\ LET prepared == Prepare(command[t].document)
     IN \/ /\ prepared # None
           /\ engineHandle' = [engineHandle EXCEPT !.proxy = None, !.pool = prepared]
        \/ engineHandle' = [engineHandle EXCEPT !.proxy = None]   \* prepare or the default node failed

StopEngine(t) ==
  /\ RunsCommand(t, "stop") /\ ~engineHandle.destroyed
  /\ NextGeneration <= MaxEngineGeneration
  /\ engineHandle' = [engineHandle EXCEPT !.proxy = None, !.pool = [EmptyPool EXCEPT !.generation = NextGeneration]]

(* destroy: out of the table at once, the rest under the mutex.            *)
RemoveEngine(t) ==
  /\ command[t] = None /\ engineHandle # None /\ engineHandle.inTable
  /\ engineHandle' = [engineHandle EXCEPT !.inTable = FALSE]
  /\ command' = [command EXCEPT ![t] = [operation |-> "destroy", document |-> None]]
  /\ UNCHANGED stored
DestroyEngine(t) ==
  /\ RunsCommand(t, "destroy")
  /\ engineHandle' = [engineHandle EXCEPT !.destroyed = TRUE, !.proxy = None,
                              !.pool = [EmptyPool EXCEPT !.generation = NextGeneration]]

(* proxy_start: one proxy at a time, with a policy that has rules. It fails*)
(* as well if the default node is not online or the port is taken.         *)
StartEngineProxy(t) ==
  /\ RunsCommand(t, "proxy start") /\ ~engineHandle.destroyed
  /\ LET rules == command[t].document.canonical.rules
     IN \/ /\ engineHandle.proxy = None /\ rules # << >> /\ ValidPolicy(rules)
           /\ engineHandle' = [engineHandle EXCEPT !.proxy =
                                 [rules |-> rules, generation |-> engineHandle.pool.generation]]
        \/ engineHandle' = engineHandle
StopEngineProxy(t) ==
  /\ RunsCommand(t, "proxy stop") /\ ~engineHandle.destroyed
  /\ engineHandle' = [engineHandle EXCEPT !.proxy = None]

EngineNext ==
  \/ CreateEngine
  \/ \E p \in Profiles, fits \in BOOLEAN : NormalizeProfile(p, fits)
  \/ \E b \in Bundles, fits \in BOOLEAN : NormalizeEnrollment(b, fits)
  \/ \E t \in HostThreads :
       \/ \E o \in {"activate", "proxy start"}, d \in stored.profiles : FindEngine(t, o, d)
       \/ \E o \in {"stop", "proxy stop"} : FindEngine(t, o, None)
       \/ CommandRefused(t) \/ ActivateEngine(t) \/ StopEngine(t) \/ RemoveEngine(t)
       \/ DestroyEngine(t) \/ StartEngineProxy(t) \/ StopEngineProxy(t)

EngineSpec == EngineInit /\ [][EngineNext]_engineVars

----------------------------------------------------------------------------
(* A normalised document is a fixed point of normalisation, so that what   *)
(* the app stores it can load again, within the 1 MiB that from_yaml reads *)
(* and that the canonical text of a smaller document may exceed; and an    *)
(* enrolled credential has a reference a profile accepts.                  *)
DocumentsStable ==
  /\ \A d \in stored.profiles : Normalize(d.canonical) = d.canonical
  /\ \A b \in stored.bundles : NormalizeBundle(b) = b /\ ValidSecretRef(CredentialRef(b))

(* What the user wrote is where traffic goes: an id or an alias in the     *)
(* profile means the same node to the pool once activated; and a running   *)
(* proxy serves the profile it was started for, of an engine that lives.   *)
EngineServesProfile ==
  engineHandle # None =>
    /\ LET pool == engineHandle.pool
       IN pool.source # None =>
            LET written == pool.source
                named == {written.nodes[i].id : i \in DOMAIN written.nodes}
                           \cup ({written.nodes[i].alias : i \in DOMAIN written.nodes} \ {None})
            IN /\ \A r \in named : \E i \in DOMAIN written.nodes :
                    r \in {written.nodes[i].id, written.nodes[i].alias}
                      /\ PoolNode(pool, r) = written.nodes[i].id
               /\ \A i \in DOMAIN written.nodes :
                    written.default \in {written.nodes[i].id, written.nodes[i].alias} =>
                      PoolNode(pool, "PROXY") = written.nodes[i].id
    /\ engineHandle.proxy # None => ~engineHandle.destroyed /\ engineHandle.proxy.generation = engineHandle.pool.generation

(* What was stored can be loaded, and what was loaded is what is served.   *)
ProfileServed == DocumentsStable /\ EngineServesProfile
=============================================================================
