-------------------------- MODULE ComponentProofs ---------------------------
(***************************************************************************)
(* Theorems about components that meet the rest of the system only through *)
(* the outcome of a call. The traffic host: whatever the requests, their   *)
(* order and the moments at which the host dies, a record on disk covers   *)
(* the routes, older routes never replace newer ones, and a retry of a     *)
(* recent request is not executed again. The TUN adapter: whatever the     *)
(* frames, responses and reconnections, the flow registry and the session  *)
(* table hold the same flows, and nothing of an earlier connection reaches *)
(* the TUN. The service of the node: whatever requests overlap, a control  *)
(* that was confirmed is obeyed. Its certificate files: wherever a command *)
(* or the relay dies, the pair in use can be had and what the relay serves *)
(* fits. Its datagrams: an association serves the destination it was bound *)
(* for, within the budget. Its configuration: whatever fails or dies, each *)
(* credential handed out works and none withdrawn does.                    *)
(***************************************************************************)
EXTENDS TrafficHost, TunAdapter, NodeService, CertificateFiles, DatagramRelay, NodeConfig,
        FiniteSetTheorems, SequenceTheorems, WellFoundedInduction, TLAPS

(* The variables have their types; what is cached was answered.            *)
HostTypeOK ==
  /\ host \in HostStates \cup {Nothing}
  /\ journal \in Nat \cup {Nothing}
  /\ applied \in Nat \cup {Nothing}
  /\ working \in [request : HostRequests, at : HostSteps] \cup {Nothing}
  /\ answered \in SUBSET Nat /\ IsFiniteSet(answered)
  /\ DOMAIN responses \subseteq answered
  /\ host = Nothing => working = Nothing /\ answered = {}

(* Where a request stands tells what is on disk and what is installed.     *)
StepsCovered ==
  /\ applied # Nothing => journal # Nothing
  /\ working # Nothing =>
       /\ working.at \in {"backend start", "backend recover", "clear recovered"} => journal # Nothing
       /\ working.at \in {"clear stopped", "clear recovered"} => applied = Nothing
       /\ working.at \in {"write journal", "backend start"} =>
            ~host.recoveryRequired /\ host.generation <= working.request.generation

(* A host that has not yet answered anything has read the journal; a host  *)
(* that need not recover is not older than the installed routes.           *)
HostKnows ==
  host # Nothing =>
    /\ journal # Nothing /\ answered = {} /\ working = Nothing => host.recoveryRequired
    /\ applied # Nothing /\ ~host.recoveryRequired => applied <= host.generation

(* An answered request that is no longer cached is older than all that     *)
(* are, and the cache is full of them.                                     *)
CacheKeepsNewest ==
  /\ \A i \in answered \ DOMAIN responses :
       /\ \A j \in DOMAIN responses : i < j
       /\ MaxCachedResponses <= Cardinality(DOMAIN responses)
  /\ working # Nothing => working.request.id \notin DOMAIN responses

HostInv == HostTypeOK /\ StepsCovered /\ HostKnows /\ CacheKeepsNewest

----------------------------------------------------------------------------
(* A nonempty set of naturals has a least element, which Min returns.      *)
LEMMA LeastElement ==
  ASSUME NEW S \in SUBSET Nat, S # {}
  PROVE  Min(S) \in S /\ \A y \in S : Min(S) <= y
<1> DEFINE R == OpToRel(<, Nat)
<1>1. PICK k \in S : \A j \in S : ~(<<j, k>> \in R)
  <2>1. IsWellFoundedOn(R, Nat) BY NatLessThanWellFounded
  <2> HIDE DEF R
  <2> QED BY <2>1, WFMin
<1>2. \A y \in S : k <= y
  <2> TAKE y \in S
  <2>1. ~(y < k) BY <1>1 DEF OpToRel
  <2> QED BY <2>1
<1> QED BY <1>2 DEF Min

(* The ids the cache holds after a response is added.                      *)
LEMMA CacheDomain ==
  ASSUME NEW id, NEW result
  PROVE  LET ids == DOMAIN responses \cup {id}
         IN DOMAIN Cache(id, result) = IF Cardinality(ids) <= MaxCachedResponses THEN ids
                                       ELSE ids \ {Min(ids)}
<1> DEFINE all == [i \in DOMAIN responses \cup {id} |-> IF i = id THEN result ELSE responses[i]]
<1>1. DOMAIN all = DOMAIN responses \cup {id}
  OBVIOUS
<1>2. DOMAIN Restrict(all, DOMAIN all \ {Min(DOMAIN all)}) = DOMAIN all \ {Min(DOMAIN all)}
  BY DEF Restrict
<1>3. Cache(id, result) = IF Cardinality(DOMAIN all) <= MaxCachedResponses THEN all
                          ELSE Restrict(all, DOMAIN all \ {Min(DOMAIN all)})
  BY DEF Cache
<1> HIDE DEF all
<1> QED BY <1>1, <1>2, <1>3

(* A response keeps what CacheKeepsNewest says of the answered ids.        *)
LEMMA RespondKeepsNewest ==
  ASSUME HostTypeOK, CacheKeepsNewest, NEW r \in HostRequests, NEW result,
         r.id \notin DOMAIN responses, Respond(r, result)
  PROVE  /\ working' = Nothing
         /\ answered' \in SUBSET Nat /\ IsFiniteSet(answered') /\ answered' # {}
         /\ DOMAIN responses' \subseteq answered'
         /\ CacheKeepsNewest'
<1> DEFINE D == DOMAIN responses
           ids == D \cup {r.id}
<1>0. r.id \in Nat /\ MaxCachedResponses \in Nat BY HostAssumption
<1>1. working' = Nothing /\ answered' = answered \cup {r.id}
  BY DEF Respond
<1>2. answered' \in SUBSET Nat /\ IsFiniteSet(answered') /\ answered' # {}
  BY <1>0, <1>1, FS_AddElement DEF HostTypeOK
<1>3. /\ D \subseteq answered /\ D \in SUBSET Nat /\ IsFiniteSet(D) /\ Cardinality(D) \in Nat
  BY FS_Subset, FS_CardinalityType DEF HostTypeOK
<1>4. /\ ids \in SUBSET Nat /\ ids # {} /\ IsFiniteSet(ids)
      /\ Cardinality(ids) = Cardinality(D) + 1
  BY <1>0, <1>3, FS_AddElement
<1>5. DOMAIN responses' = IF Cardinality(ids) <= MaxCachedResponses THEN ids ELSE ids \ {Min(ids)}
  BY CacheDomain DEF Respond
<1>6. \A i \in answered \ D : (\A j \in D : i < j) /\ MaxCachedResponses <= Cardinality(D)
  BY DEF CacheKeepsNewest
<1>7. Min(ids) \in ids /\ \A y \in ids : Min(ids) <= y
  BY <1>4, LeastElement
<1>8. Cardinality(ids \ {Min(ids)}) = Cardinality(D)
  <2> HIDE DEF ids, D
  <2>1. Cardinality(ids \ {Min(ids)}) = Cardinality(ids) - 1
    BY <1>4, <1>7, FS_RemoveElement
  <2> QED BY <2>1, <1>3, <1>4
<1>9. ASSUME NEW i \in answered' \ DOMAIN responses'
      PROVE  (\A j \in DOMAIN responses' : i < j)
             /\ MaxCachedResponses <= Cardinality(DOMAIN responses')
  <2>1. CASE Cardinality(ids) <= MaxCachedResponses
    <3>1. i \in answered \ D BY <1>1, <1>5, <2>1
    <3> QED BY <3>1, <1>0, <1>3, <1>4, <1>6, <2>1
  <2>2. CASE ~(Cardinality(ids) <= MaxCachedResponses)
    <3>1. DOMAIN responses' = ids \ {Min(ids)} BY <1>5, <2>2
    <3>2. MaxCachedResponses <= Cardinality(DOMAIN responses')
      <4> HIDE DEF ids, D
      <4> QED BY <3>1, <1>0, <1>3, <1>4, <1>8, <2>2
    <3>3. CASE i = Min(ids)
      BY <3>1, <3>2, <3>3, <1>4, <1>7
    <3>4. CASE i # Min(ids)
      <4>1. i \in answered \ D /\ i # r.id BY <3>1, <3>4, <1>1
      <4>2. \A j \in D : i < j BY <4>1, <1>6
      <4>3. CASE r.id < i
        <5>1. Min(ids) = r.id
          BY <4>1, <4>2, <4>3, <1>0, <1>2, <1>3, <1>4, <1>7
        <5> QED BY <5>1, <3>1, <3>2, <4>2
      <4>4. CASE i < r.id
        BY <4>2, <4>4, <3>1, <3>2
      <4> QED BY <4>1, <4>3, <4>4, <1>0, <1>2, <1>1
    <3> QED BY <3>3, <3>4
  <2> QED BY <2>1, <2>2
<1>10. DOMAIN responses' \subseteq answered'
  BY <1>1, <1>3, <1>5
<1>11. CacheKeepsNewest'
  BY <1>1, <1>9 DEF CacheKeepsNewest
<1> QED BY <1>1, <1>2, <1>10, <1>11

----------------------------------------------------------------------------
(* What SetHost leaves of the host.                                        *)
LEMMA HostSet ==
  ASSUME NEW st \in {"stopped", "starting", "running", "stopping", "recovering", "failed"}, NEW g \in Nat, NEW b \in BOOLEAN, SetHost(st, g, b)
  PROVE  /\ host' \in HostStates
         /\ host'.generation = g /\ host'.recoveryRequired = b
BY DEF SetHost, HostStates

(* A host has a generation and knows whether it must recover.              *)
LEMMA HostFields ==
  ASSUME NEW h \in HostStates PROVE h.generation \in Nat /\ h.recoveryRequired \in BOOLEAN
BY DEF HostStates

(* Before the first start there is no host and nothing is installed.       *)
LEMMA HostInitially == HostInit => HostInv
BY HostAssumption, FS_EmptySet DEF HostInit, HostInv, HostTypeOK, StepsCovered, HostKnows, CacheKeepsNewest

(* A host starts, with what it reads of the journal.                       *)
LEMMA StartKeeps == HostInv /\ HostStarts => HostInv'
<1> SUFFICES ASSUME HostInv, HostStarts PROVE HostInv' OBVIOUS
<1> USE HostAssumption DEF HostInv
<1>1. /\ host = Nothing /\ working = Nothing /\ answered = {}
      /\ UNCHANGED <<responses, journal, applied, working, answered>>
      /\ host' \in HostStates
      /\ host'.recoveryRequired = (journal # Nothing)
  <2>1. /\ host = Nothing /\ working = Nothing /\ answered = {}
        /\ UNCHANGED <<responses, journal, applied, working, answered>>
    BY DEF HostTypeOK, HostStarts
  <2>2. (journal # Nothing) \in BOOLEAN /\ 0 \in Nat
        /\ (IF journal = Nothing THEN "stopped" ELSE "recovering")
              \in {"stopped", "starting", "running", "stopping", "recovering", "failed"}
    OBVIOUS
  <2>3. SetHost(IF journal = Nothing THEN "stopped" ELSE "recovering", 0, journal # Nothing)
    BY DEF HostStarts
  <2>4. host' \in HostStates /\ host'.recoveryRequired = (journal # Nothing)
    BY <2>2, <2>3, HostSet
  <2> QED BY <2>1, <2>4
<1>2. HostTypeOK' BY <1>1 DEF HostTypeOK
<1>3. StepsCovered' BY <1>1 DEF StepsCovered
<1>4. HostKnows' BY <1>1 DEF HostKnows, StepsCovered
<1>5. CacheKeepsNewest' BY <1>1 DEF CacheKeepsNewest
<1> QED BY <1>2, <1>3, <1>4, <1>5

(* A crash forgets the cache and the request; journal and routes stay.     *)
LEMMA CrashKeeps == HostInv /\ HostCrashes => HostInv'
<1> SUFFICES ASSUME HostInv, HostCrashes PROVE HostInv' OBVIOUS
<1> USE HostAssumption, FS_EmptySet DEF HostInv, HostCrashes
<1>1. HostTypeOK' BY DEF HostTypeOK
<1>2. StepsCovered' BY DEF StepsCovered
<1>3. HostKnows' BY DEF HostKnows
<1>4. CacheKeepsNewest' BY DEF CacheKeepsNewest
<1> QED BY <1>1, <1>2, <1>3, <1>4

(* A step that answers a request: what is left to show is about the disk   *)
(* and the host.                                                           *)
LEMMA AnswerKeeps ==
  ASSUME HostInv, NEW r \in HostRequests, NEW result,
         host # Nothing, r.id \notin DOMAIN responses, Respond(r, result),
         host' \in HostStates,
         journal' \in Nat \cup {Nothing}, applied' \in Nat \cup {Nothing},
         applied' # Nothing => journal' # Nothing,
         applied' # Nothing /\ ~host'.recoveryRequired => applied' <= host'.generation
  PROVE  HostInv'
<1>1. /\ working' = Nothing /\ answered' # {}
      /\ answered' \in SUBSET Nat /\ IsFiniteSet(answered')
      /\ DOMAIN responses' \subseteq answered'
      /\ CacheKeepsNewest'
  BY RespondKeepsNewest DEF HostInv
<1>2. host' # Nothing BY HostAssumption
<1>3. HostTypeOK' BY <1>1, <1>2 DEF HostTypeOK
<1>4. StepsCovered' BY <1>1 DEF StepsCovered
<1>5. HostKnows' BY <1>1 DEF HostKnows
<1> QED BY <1>1, <1>3, <1>4, <1>5 DEF HostInv

(* A step that begins a change.                                            *)
LEMMA BeginKeeps ==
  ASSUME HostInv, NEW r \in HostRequests, NEW at \in HostSteps,
         Begin(r), UNCHANGED <<responses, answered, journal>>,
         working' = [request |-> r, at |-> at],
         host' \in HostStates,
         host'.recoveryRequired = host.recoveryRequired, host'.generation = host.generation,
         at \in {"backend start", "backend recover", "clear recovered"} => journal # Nothing,
         at \notin {"clear stopped", "clear recovered"},
         at \in {"write journal", "backend start"} =>
            ~host.recoveryRequired /\ host.generation <= r.generation
  PROVE  HostInv'
<1>1. /\ host # Nothing /\ working = Nothing /\ r.id \notin DOMAIN responses
      /\ applied' = applied
  BY DEF Begin
<1>2. host' # Nothing /\ working' # Nothing /\ working'.request = r /\ working'.at = at
      /\ working' \in [request : HostRequests, at : HostSteps]
  <2>1. working'.request = r /\ working'.at = at
        /\ working' \in [request : HostRequests, at : HostSteps]
    OBVIOUS
  <2>2. host' # Nothing BY HostAssumption
  <2>3. working' # Nothing BY <2>1, HostAssumption
  <2> QED BY <2>1, <2>2, <2>3
<1>3. HostTypeOK' BY <1>1, <1>2 DEF HostTypeOK, HostInv
<1>4. StepsCovered' BY <1>1, <1>2 DEF StepsCovered, HostInv
<1>5. HostKnows' BY <1>1, <1>2 DEF HostKnows, HostInv
<1>6. CacheKeepsNewest' BY <1>1, <1>2 DEF CacheKeepsNewest, HostInv
<1> QED BY <1>3, <1>4, <1>5, <1>6 DEF HostInv

(* Every request handled at once, or begun.                                *)
LEMMA HandleKeeps ==
  ASSUME HostInv, NEW r \in HostRequests,
         \/ HandleRejected(r) \/ HandleQuery(r) \/ StartAnswered(r) \/ StopAnswered(r)
  PROVE  HostInv'
<1>1. PICK result : Begin(r) /\ Respond(r, result) /\ UNCHANGED <<host, journal>>
  BY DEF HandleRejected, HandleQuery, StartAnswered, StopAnswered, Executes
<1>2. host # Nothing /\ r.id \notin DOMAIN responses /\ applied' = applied
  BY <1>1 DEF Begin
<1>3. host' \in HostStates
      /\ journal' \in Nat \cup {Nothing} /\ applied' \in Nat \cup {Nothing}
  BY <1>1, <1>2 DEF HostInv, HostTypeOK
<1>4. /\ applied' # Nothing => journal' # Nothing
      /\ applied' # Nothing /\ ~host'.recoveryRequired => applied' <= host'.generation
  BY <1>1, <1>2 DEF HostInv, StepsCovered, HostKnows
<1> QED BY <1>1, <1>2, <1>3, <1>4, AnswerKeeps

(* A start is begun only by a host that need not recover and is not newer. *)
LEMMA StartBeginsKeeps ==
  ASSUME HostInv, NEW r \in HostRequests, StartBegins(r) PROVE HostInv'
<1>1. Begin(r) /\ Rejection(r) = "none" /\ StartAnswer(r) = "none"
  BY DEF StartBegins, Executes
<1>2. /\ host # Nothing
      /\ host \in HostStates
      /\ r.generation \in Nat
  BY <1>1, HostAssumption DEF Begin, HostInv, HostTypeOK
<1>3. ~(r.generation < host.generation)
  BY <1>1 DEF Rejection
<1>4. ~host.recoveryRequired
  BY <1>1 DEF StartAnswer
<1>5. UNCHANGED <<host, responses, answered, journal>>
      /\ working' = [request |-> r, at |-> "write journal"]
  BY DEF StartBegins
<1>6. host.generation <= r.generation BY <1>2, <1>3, HostFields
<1>7. "write journal" \in HostSteps BY DEF HostSteps
<1> QED BY <1>1, <1>2, <1>4, <1>5, <1>6, <1>7, BeginKeeps

(* A stop is begun; routes and journal are still as they were.             *)
LEMMA StopBeginsKeeps ==
  ASSUME HostInv, NEW r \in HostRequests, StopBegins(r) PROVE HostInv'
<1>1. Begin(r) /\ ~host.recoveryRequired /\ SetHost("stopping", host.generation, FALSE)
      /\ working' = [request |-> r, at |-> "backend stop"] /\ UNCHANGED <<responses, answered, journal>>
  BY DEF StopBegins, Executes
<1>2. host \in HostStates
  BY <1>1 DEF Begin, HostInv, HostTypeOK
<1>3. /\ host' \in HostStates
      /\ host'.recoveryRequired = host.recoveryRequired /\ host'.generation = host.generation
  BY <1>1, <1>2, HostSet, HostFields
<1>4. "backend stop" \in HostSteps BY DEF HostSteps
<1> QED BY <1>1, <1>3, <1>4, BeginKeeps

(* A recovery reads the journal, and fails or finds a record or none.      *)
LEMMA RecoverKeeps ==
  ASSUME HostInv, NEW r \in HostRequests, RecoverBegins(r) \/ RecoverUnreadable(r) PROVE HostInv'
<1>1. Begin(r) /\ journal' = journal
  BY DEF RecoverBegins, RecoverUnreadable, Executes
<1>2. /\ host # Nothing /\ r.id \notin DOMAIN responses /\ applied' = applied
      /\ host \in HostStates
      /\ journal \in Nat \cup {Nothing} /\ applied \in Nat \cup {Nothing}
      /\ applied # Nothing => journal # Nothing
      /\ applied # Nothing /\ ~host.recoveryRequired => applied <= host.generation
  BY <1>1 DEF Begin, HostInv, HostTypeOK, StepsCovered, HostKnows
<1>3. CASE RecoverBegins(r) /\ journal = Nothing
  <2>1. SetHost("stopped", host.generation, FALSE) /\ Respond(r, "recovered")
    BY <1>3 DEF RecoverBegins
  <2>2. /\ host' \in HostStates
        /\ host'.generation = host.generation /\ host'.recoveryRequired = FALSE
    BY <2>1, <1>2, HostSet, HostFields
  <2> QED BY <2>1, <2>2, <1>1, <1>2, <1>3, AnswerKeeps
<1>4. CASE RecoverBegins(r) /\ journal # Nothing
  <2>1. /\ SetHost("recovering", host.generation, host.recoveryRequired)
        /\ working' = [request |-> r, at |-> "backend recover"]
        /\ UNCHANGED <<responses, answered>>
    BY <1>4 DEF RecoverBegins
  <2>2. /\ host' \in HostStates
        /\ host'.generation = host.generation /\ host'.recoveryRequired = host.recoveryRequired
    BY <2>1, <1>2, HostSet, HostFields
  <2>3. "backend recover" \in HostSteps BY DEF HostSteps
  <2> QED BY <2>1, <2>2, <2>3, <1>1, <1>4, BeginKeeps
<1>5. CASE RecoverUnreadable(r)
  <2>1. SetHost("recovering", host.generation, host.recoveryRequired) /\ Respond(r, "platform")
    BY <1>5 DEF RecoverUnreadable
  <2>2. /\ host' \in HostStates
        /\ host'.generation = host.generation /\ host'.recoveryRequired = host.recoveryRequired
    BY <2>1, <1>2, HostSet, HostFields
  <2> QED BY <2>1, <2>2, <1>1, <1>2, AnswerKeeps
<1> QED BY <1>3, <1>4, <1>5

(* What holds while a request is being executed.                           *)
LEMMA WhileWorking ==
  ASSUME HostInv, working # Nothing
  PROVE  /\ host # Nothing /\ host \in HostStates
         /\ host.generation \in Nat /\ host.recoveryRequired \in BOOLEAN
         /\ working.request \in HostRequests /\ working.at \in HostSteps
         /\ working.request.generation \in Nat
         /\ working.request.id \notin DOMAIN responses
         /\ journal \in Nat \cup {Nothing} /\ applied \in Nat \cup {Nothing}
<1>1. host # Nothing /\ host \in HostStates /\ working \in [request : HostRequests, at : HostSteps]
      /\ journal \in Nat \cup {Nothing} /\ applied \in Nat \cup {Nothing}
  BY DEF HostInv, HostTypeOK
<1>2. working.request \in HostRequests /\ working.at \in HostSteps BY <1>1
<1>3. working.request.id \notin DOMAIN responses BY DEF HostInv, CacheKeepsNewest
<1> QED BY <1>1, <1>2, <1>3, HostFields, HostAssumption

(* The record is written before the routes change.                         *)
LEMMA WriteJournalKeeps == ASSUME HostInv, WriteJournal PROVE HostInv'
<1>1. working # Nothing /\ working.at = "write journal" BY DEF WriteJournal, Working
<1>2. /\ host # Nothing /\ host.generation \in Nat /\ host.recoveryRequired \in BOOLEAN
      /\ working.request \in HostRequests /\ working.request.generation \in Nat
      /\ working \in [request : HostRequests, at : HostSteps]
  BY <1>1, WhileWorking DEF HostInv, HostTypeOK
<1>3. /\ host' \in HostStates /\ host'.generation = host.generation
      /\ host'.recoveryRequired = host.recoveryRequired
  <2>1. SetHost("starting", host.generation, host.recoveryRequired) BY DEF WriteJournal
  <2> QED BY <2>1, <1>2, HostSet
<1>4. /\ working' \in [request : HostRequests, at : HostSteps]
      /\ working'.request = working.request /\ working'.at = "backend start"
  BY <1>2 DEF WriteJournal, AtStep, HostSteps
<1>5. host' # Nothing /\ working' # Nothing BY <1>3, <1>4, HostAssumption
<1>6. /\ journal' \in Nat /\ journal' # Nothing
      /\ UNCHANGED <<responses, applied, answered>>
  BY <1>2, HostAssumption DEF WriteJournal
<1>7. ~host.recoveryRequired /\ host.generation <= working.request.generation
  BY <1>1 DEF HostInv, StepsCovered
<1>8. HostTypeOK' BY <1>3, <1>4, <1>5, <1>6 DEF HostInv, HostTypeOK
<1>9. StepsCovered' BY <1>3, <1>4, <1>5, <1>6, <1>7 DEF StepsCovered
<1>10. HostKnows' BY <1>2, <1>3, <1>5, <1>6 DEF HostInv, HostKnows
<1>11. CacheKeepsNewest' BY <1>1, <1>4, <1>6 DEF HostInv, CacheKeepsNewest
<1> QED BY <1>8, <1>9, <1>10, <1>11 DEF HostInv

(* A record that cannot be written ends the start.                         *)
LEMMA WriteJournalFailsKeeps == ASSUME HostInv, WriteJournalFails PROVE HostInv'
<1>1. working # Nothing /\ working.at = "write journal" BY DEF WriteJournalFails, Working
<1>2. SetHost("failed", host.generation, host.recoveryRequired)
      /\ Respond(working.request, "platform")
      /\ journal' \in {journal, working.request.generation} /\ applied' = applied
  BY DEF WriteJournalFails
<1>3. /\ host' \in HostStates /\ host'.generation = host.generation
      /\ host'.recoveryRequired = host.recoveryRequired
  BY <1>1, <1>2, WhileWorking, HostSet
<1>4. journal' \in Nat \cup {Nothing} /\ (journal # Nothing => journal' # Nothing)
  BY <1>1, <1>2, WhileWorking, HostAssumption
<1>5. /\ applied' # Nothing => journal' # Nothing
      /\ applied' # Nothing /\ ~host'.recoveryRequired => applied' <= host'.generation
  BY <1>1, <1>2, <1>3, <1>4, WhileWorking DEF HostInv, StepsCovered, HostKnows
<1> QED BY <1>1, <1>2, <1>3, <1>4, <1>5, WhileWorking, AnswerKeeps

(* The routes are installed, or changed and in need of recovery.           *)
LEMMA BackendStartKeeps == ASSUME HostInv, BackendStart \/ BackendStartFails PROVE HostInv'
<1>1. working # Nothing /\ working.at = "backend start"
  BY DEF BackendStart, BackendStartFails, Working
<1>2. journal # Nothing BY <1>1 DEF HostInv, StepsCovered
<1>3. CASE BackendStart
  <2>1. /\ SetHost("running", working.request.generation, host.recoveryRequired)
        /\ Respond(working.request, "started")
        /\ applied' = working.request.generation /\ journal' = journal
    BY <1>3 DEF BackendStart
  <2>2. host' \in HostStates /\ host'.generation = working.request.generation
    BY <2>1, <1>1, WhileWorking, HostSet
  <2>3. applied' \in Nat /\ applied' <= host'.generation
    <3>1. PICK g \in Nat : working.request.generation = g BY <1>1, WhileWorking
    <3>2. applied' = g /\ host'.generation = g BY <2>1, <2>2, <3>1
    <3> QED BY ONLY g \in Nat, <3>2
  <2> QED BY <2>1, <2>2, <2>3, <1>1, <1>2, WhileWorking, AnswerKeeps
<1>4. CASE BackendStartFails
  <2>1. /\ SetHost("recovering", host.generation, TRUE) /\ Respond(working.request, "platform")
        /\ applied' \in {applied, working.request.generation} /\ journal' = journal
    BY <1>4 DEF BackendStartFails
  <2>2. host' \in HostStates /\ host'.recoveryRequired = TRUE
    BY <2>1, <1>1, WhileWorking, HostSet
  <2>3. applied' \in Nat \cup {Nothing} BY <2>1, <1>1, WhileWorking
  <2> QED BY <2>1, <2>2, <2>3, <1>1, <1>2, WhileWorking, AnswerKeeps
<1> QED BY <1>3, <1>4

(* The routes are gone; their record is still on disk.                     *)
LEMMA BackendRestoresKeeps == ASSUME HostInv, BackendRestores PROVE HostInv'
<1>1. working # Nothing /\ working.at \in {"backend stop", "backend recover"}
  BY DEF BackendRestores, Working
<1>2. /\ host # Nothing /\ working \in [request : HostRequests, at : HostSteps]
  BY <1>1, WhileWorking DEF HostInv, HostTypeOK
<1>3. /\ applied' = Nothing /\ UNCHANGED <<host, responses, journal, answered>>
      /\ working' = [working EXCEPT !.at = IF working.at = "backend stop" THEN "clear stopped"
                                           ELSE "clear recovered"]
  BY DEF BackendRestores, AtStep
<1>4. /\ working' \in [request : HostRequests, at : HostSteps]
      /\ working'.request = working.request
      /\ working'.at \in {"clear stopped", "clear recovered"}
      /\ working'.at = "clear recovered" => working.at = "backend recover"
  BY <1>1, <1>2, <1>3 DEF HostSteps
<1>5. working' # Nothing BY <1>4, HostAssumption
<1>6. HostTypeOK' BY <1>2, <1>3, <1>4 DEF HostInv, HostTypeOK
<1>7. StepsCovered' BY <1>1, <1>3, <1>4 DEF HostInv, StepsCovered
<1>8. HostKnows' BY <1>3, <1>5 DEF HostKnows
<1>9. CacheKeepsNewest' BY <1>1, <1>3, <1>4 DEF HostInv, CacheKeepsNewest
<1> QED BY <1>6, <1>7, <1>8, <1>9 DEF HostInv

(* The greater of two numbers is a number.                                 *)
LEMMA MaxOfTwo == ASSUME NEW a \in Nat, NEW b \in Nat PROVE Max({a, b}) \in Nat
<1>1. \E x \in {a, b} : \A y \in {a, b} : x >= y OBVIOUS
<1>2. Max({a, b}) \in {a, b} BY <1>1 DEF Max
<1> QED BY <1>2

(* The record is removed once the routes are gone.                         *)
LEMMA ClearJournalKeeps == ASSUME HostInv, ClearJournal PROVE HostInv'
<1> DEFINE g == IF working.at = "clear stopped" THEN working.request.generation ELSE journal
           answer == IF working.at = "clear stopped" THEN "stopped" ELSE "recovered"
<1>1. working # Nothing /\ working.at \in {"clear stopped", "clear recovered"}
  BY DEF ClearJournal, Working
<1>2. /\ applied = Nothing /\ (working.at = "clear recovered" => journal # Nothing)
  BY <1>1 DEF HostInv, StepsCovered
<1>3. /\ SetHost("stopped", Max({host.generation, g}), FALSE)
      /\ Respond(working.request, answer) /\ journal' = Nothing /\ applied' = applied
  BY DEF ClearJournal
<1>4. Max({host.generation, g}) \in Nat
  BY <1>1, <1>2, WhileWorking, MaxOfTwo
<1> HIDE DEF g, answer
<1>5. host' \in HostStates BY <1>3, <1>4, HostSet
<1> QED BY <1>1, <1>2, <1>3, <1>5, WhileWorking, AnswerKeeps

(* A host that cannot restore the routes keeps asking for recovery.        *)
LEMMA RestoreFailsKeeps == ASSUME HostInv, RestoreFails PROVE HostInv'
<1>1. /\ working # Nothing /\ SetHost("recovering", host.generation, TRUE)
      /\ Respond(working.request, "platform") /\ UNCHANGED <<journal, applied>>
  BY DEF RestoreFails
<1>2. host' \in HostStates /\ host'.recoveryRequired = TRUE
  BY <1>1, WhileWorking, HostSet
<1>3. applied # Nothing => journal # Nothing BY DEF HostInv, StepsCovered
<1> QED BY <1>1, <1>2, <1>3, WhileWorking, AnswerKeeps

----------------------------------------------------------------------------
(* Every step of the host, and every crash, keeps HostInv.                 *)
LEMMA HostStepKeeps == HostInv /\ [HostNext]_hostVars => HostInv'
<1> SUFFICES ASSUME HostInv, [HostNext]_hostVars PROVE HostInv' OBVIOUS
<1>1. CASE UNCHANGED hostVars
  BY <1>1 DEF hostVars, HostInv, HostTypeOK, StepsCovered, HostKnows, CacheKeepsNewest
<1>2. CASE HostNext
  BY <1>2, StartKeeps, CrashKeeps, HandleKeeps, StartBeginsKeeps, StopBeginsKeeps, RecoverKeeps,
     WriteJournalKeeps, WriteJournalFailsKeeps, BackendStartKeeps, BackendRestoresKeeps,
     ClearJournalKeeps, RestoreFailsKeeps DEF HostNext
<1> QED BY <1>1, <1>2

(* HostInv is inductive: TrafficHost's request, its journal and the        *)
(* installed routes agree wherever a request is interrupted.               *)
THEOREM HostInvariant == HostSpec => []HostInv
BY HostInitially, HostStepKeeps, PTL DEF HostSpec

(* JournalCoversRoutes for any requests, any number of crashes at any step *)
(* and a backend that may fail whenever it is called: routes that are      *)
(* installed are on record, and a host that starts knows it must recover   *)
(* (TrafficHost::new, execute_start and restore of src/lib.rs).            *)
THEOREM RoutesAlwaysCovered == HostSpec => []JournalCoversRoutes
<1>1. HostInv => JournalCoversRoutes
  BY DEF HostInv, StepsCovered, HostKnows, JournalCoversRoutes
<1> QED BY <1>1, HostInvariant, PTL

(* A step that changes the routes from one generation to another goes up.  *)
LEMMA RoutesGoUp ==
  ASSUME HostInv, HostNext, applied # Nothing, applied' # Nothing PROVE applied' >= applied
<1>0. applied \in Nat BY DEF HostInv, HostTypeOK
<1>1. CASE BackendStart \/ BackendStartFails
  <2>1. /\ working # Nothing /\ working.at = "backend start"
        /\ applied' \in {applied, working.request.generation}
    BY <1>1 DEF BackendStart, BackendStartFails, Working
  <2>2. ~host.recoveryRequired /\ host.generation <= working.request.generation
    BY <2>1 DEF HostInv, StepsCovered
  <2>3. applied <= host.generation BY <2>1, <2>2, WhileWorking DEF HostInv, HostKnows
  <2>4. PICK g \in Nat, h \in Nat : working.request.generation = g /\ host.generation = h
    BY <2>1, WhileWorking
  <2>5. applied' \in {applied, g} /\ h <= g /\ applied <= h BY <2>1, <2>2, <2>3, <2>4
  <2>6. CASE applied' = applied BY ONLY <2>6, <1>0
  <2>7. CASE applied' = g BY ONLY <2>5, <2>7, <1>0, g \in Nat, h \in Nat
  <2> QED BY <2>5, <2>6, <2>7
<1>2. CASE BackendRestores BY <1>2 DEF BackendRestores
<1>3. CASE ~(BackendStart \/ BackendStartFails \/ BackendRestores)
  <2>1. applied' = applied
    BY <1>3 DEF HostNext, HostStarts, HostCrashes, HandleRejected, HandleQuery, StartAnswered,
       StartBegins, StopAnswered, StopBegins, RecoverBegins, RecoverUnreadable, Executes, Begin,
       WriteJournal, WriteJournalFails, ClearJournal, RestoreFails
  <2> QED BY <2>1, <1>0
<1> QED BY <1>1, <1>2, <1>3

(* A request that is executed is not in the cache.                         *)
LEMMA ExecutedUncached ==
  ASSUME HostInv, HostNext, NEW i \in answered, Executed(i) PROVE i \notin DOMAIN responses
<1>1. CASE working = Nothing /\ working' # Nothing /\ working'.request.id = i
  <2>1. CASE \E r \in HostRequests : StartBegins(r) \/ StopBegins(r) \/ RecoverBegins(r)
    <3>1. PICK r \in HostRequests : StartBegins(r) \/ StopBegins(r) \/ RecoverBegins(r)
      BY <2>1
    <3>2. r.id \notin DOMAIN responses
      BY <3>1 DEF StartBegins, StopBegins, RecoverBegins, Executes, Begin
    <3>3. working'.request = r
      <4>1. CASE StartBegins(r) BY <4>1 DEF StartBegins
      <4>2. CASE StopBegins(r) BY <4>2 DEF StopBegins
      <4>3. CASE RecoverBegins(r)
        <5>1. working' = Nothing \/ working' = [request |-> r, at |-> "backend recover"]
          BY <4>3 DEF RecoverBegins, Respond
        <5>2. working' = [request |-> r, at |-> "backend recover"] BY <5>1, <1>1
        <5> QED BY <5>2
      <4> QED BY <3>1, <4>1, <4>2, <4>3
    <3> QED BY <3>2, <3>3, <1>1
  <2>2. CASE ~(\E r \in HostRequests : StartBegins(r) \/ StopBegins(r) \/ RecoverBegins(r))
    <3>1. working' = Nothing
      BY <2>2, <1>1 DEF HostNext, HostStarts, HostCrashes, HandleRejected, HandleQuery,
         StartAnswered, StopAnswered, RecoverUnreadable, Respond, Working, WriteJournal,
         WriteJournalFails, BackendStart, BackendStartFails, BackendRestores, ClearJournal,
         RestoreFails
    <3> QED BY <3>1, <1>1
  <2> QED BY <2>1, <2>2
<1> QED BY <1>1 DEF Executed

(* NewerStaysOnce for any requests and crashes: the routes of one profile  *)
(* are replaced only by those of a profile at least as new, and a request  *)
(* is executed a second time only when as many newer ones as the cache     *)
(* holds were answered since (TrafficHost::handle and cache).              *)
THEOREM NewerAlwaysStays == HostSpec => NewerStaysOnce
<1>1. ASSUME HostInv, [HostNext]_hostVars
      PROVE  [/\ applied # Nothing /\ applied' # Nothing => applied' >= applied
              /\ \A i \in answered : Executed(i) =>
                   Cardinality({j \in answered : j > i}) >= MaxCachedResponses]_hostVars
  <2>1. SUFFICES ASSUME HostNext
                 PROVE  /\ applied # Nothing /\ applied' # Nothing => applied' >= applied
                        /\ \A i \in answered : Executed(i) =>
                             Cardinality({j \in answered : j > i}) >= MaxCachedResponses
    BY <1>1
  <2>2. ASSUME NEW i \in answered, Executed(i)
        PROVE  Cardinality({j \in answered : j > i}) >= MaxCachedResponses
    <3> DEFINE newer == {j \in answered : j > i}
    <3>1. i \notin DOMAIN responses BY <1>1, <2>1, <2>2, ExecutedUncached
    <3>2. /\ \A j \in DOMAIN responses : i < j
          /\ MaxCachedResponses <= Cardinality(DOMAIN responses)
      BY <1>1, <3>1 DEF HostInv, CacheKeepsNewest
    <3>3. DOMAIN responses \subseteq newer
      BY <1>1, <3>2 DEF HostInv, HostTypeOK
    <3>4. IsFiniteSet(newer) /\ Cardinality(newer) \in Nat
      <4>1. newer \subseteq answered /\ IsFiniteSet(answered) BY <1>1 DEF HostInv, HostTypeOK
      <4> QED BY <4>1, FS_Subset, FS_CardinalityType
    <3>5. Cardinality(DOMAIN responses) <= Cardinality(newer)
          /\ Cardinality(DOMAIN responses) \in Nat
      BY <3>3, <3>4, FS_Subset, FS_CardinalityType
    <3> HIDE DEF newer
    <3>6. Cardinality(newer) >= MaxCachedResponses
      BY <3>2, <3>4, <3>5, HostAssumption
    <3> QED BY <3>6 DEF newer
  <2> QED BY <1>1, <2>1, <2>2, RoutesGoUp
<1> QED BY <1>1, HostInvariant, PTL DEF HostSpec, NewerStaysOnce

----------------------------------------------------------------------------
(* The TUN adapter *)

Responses == [flow : TunFlows, generation : Nat, size : 0 .. Mtu]

(* The tables of the UDP engine hold the same flows, each with a session   *)
(* of its own.                                                             *)
UdpTables ==
  /\ IsFiniteSet(DOMAIN leases) /\ DOMAIN leases = DOMAIN sessionOf
  /\ \A f \in DOMAIN leases : f \in TunFlows /\ f.protocol = "udp"
  /\ \A f \in DOMAIN leases : leases[f] \in Nat /\ leases[f] <= runtime.generation
  /\ \A f \in DOMAIN leases : sessionOf[f] \in TunSessionIds
  /\ Range(sessionOf) = DOMAIN flowOf
  /\ \A f \in DOMAIN leases : flowOf[sessionOf[f]] = f
  /\ Cardinality(DOMAIN leases) <= MaxUdpAssociations
  /\ nextSession \in TunSessionIds

(* While a receive waits no flow is admitted: the leases are not newer     *)
(* than the generation it began under.                                     *)
EngineOK ==
  /\ runtime \in [generation : Nat, online : BOOLEAN]
  /\ engine.call \in {"receive", "received"} =>
       /\ engine.generation \in Nat /\ engine.generation <= runtime.generation
       /\ \A f \in DOMAIN leases : leases[f] <= engine.generation
  /\ engine.call = "received" => engine.size \in Nat

QueuesBounded ==
  /\ inbound \in Seq(TunFrames) /\ Len(inbound) <= QueueCapacity
  /\ outbound \in Seq(Responses) /\ Len(outbound) <= QueueCapacity
StackBounded ==
  /\ stack \in [inbound : Seq(TunFrames), outbound : Seq(Nat)]
  /\ Len(stack.inbound) <= QueueCapacity /\ Len(stack.outbound) <= QueueCapacity

TcpTables ==
  /\ IsFiniteSet(DOMAIN tcpLeases) /\ \A f \in DOMAIN tcpLeases : f.protocol = "tcp"
  /\ Cardinality(DOMAIN tcpLeases) <= MaxTcpFlows
  /\ \A f \in DOMAIN relays :
       /\ relays[f] \in [generation : Nat, stream : Nat, at : {"ready", "busy", "stale"}]
       /\ relays[f].stream = relays[f].generation

TunInv == EngineOK /\ UdpTables /\ QueuesBounded /\ StackBounded /\ TcpTables

(* What admit leaves of a table that holds flows of one protocol: a        *)
(* refusal leaves it alone, since a stale lease that goes makes room for   *)
(* its successor.                                                          *)
LEMMA AdmittedTable ==
  ASSUME NEW T, NEW key, EngineOK, IsFiniteSet(DOMAIN T),
         \A k \in DOMAIN T : k.protocol = key.protocol,
         Limit(key.protocol) \in Nat \ {0}, Cardinality(DOMAIN T) <= Limit(key.protocol)
  PROVE  /\ Admits(T, key) =>
              /\ runtime.online
              /\ DOMAIN Admitted(T, key) = DOMAIN T \cup {key}
              /\ Admitted(T, key)[key] = runtime.generation
              /\ \A k \in DOMAIN T \ {key} : Admitted(T, key)[k] = T[k]
              /\ key \notin DOMAIN T => Cardinality(DOMAIN T) < Limit(key.protocol)
              /\ Cardinality(DOMAIN T \cup {key}) <= Limit(key.protocol)
         /\ ~Admits(T, key) => Admitted(T, key) = T
<1> DEFINE K == Kept(T, key)
           limit == Limit(key.protocol)
<1>0. Cardinality(DOMAIN T) \in Nat BY FS_CardinalityType
<1>1. /\ DOMAIN K \subseteq DOMAIN T /\ DOMAIN T \ {key} \subseteq DOMAIN K
      /\ \A k \in DOMAIN K : K[k] = T[k]
      /\ key \notin DOMAIN T => K = T
      /\ K = T \/ (key \in DOMAIN T /\ DOMAIN K = DOMAIN T \ {key})
  BY DEF Kept, Without, Restrict
<1>2. {k \in DOMAIN K : k.protocol = key.protocol} = DOMAIN K
  BY <1>1
<1>3. runtime.online => GenerationOnline(runtime.generation)
  BY DEF EngineOK, GenerationOnline
<1>4. GenerationOnline(runtime.generation) => runtime.online
  BY DEF GenerationOnline
<1>5. Admits(T, key) <=> runtime.online /\ (key \in DOMAIN K \/ Cardinality(DOMAIN K) < limit)
  BY <1>2, <1>3, <1>4 DEF Admits
<1>6. ASSUME Admits(T, key)
      PROVE  /\ runtime.online
             /\ DOMAIN Admitted(T, key) = DOMAIN T \cup {key}
             /\ Admitted(T, key)[key] = runtime.generation
             /\ \A k \in DOMAIN T \ {key} : Admitted(T, key)[k] = T[k]
             /\ key \notin DOMAIN T => Cardinality(DOMAIN T) < limit
             /\ Cardinality(DOMAIN T \cup {key}) <= limit
  <2>1. Admitted(T, key) = [k \in DOMAIN K \cup {key} |-> IF k = key THEN runtime.generation ELSE K[k]]
    BY <1>6 DEF Admitted, With
  <2>2. DOMAIN K \cup {key} = DOMAIN T \cup {key} BY <1>1
  <2>3. key \notin DOMAIN T => Cardinality(DOMAIN T) < limit
    BY <1>1, <1>5, <1>6
  <2>4. Cardinality(DOMAIN T \cup {key}) = IF key \in DOMAIN T THEN Cardinality(DOMAIN T)
                                           ELSE Cardinality(DOMAIN T) + 1
    BY FS_AddElement
  <2>5. Cardinality(DOMAIN T \cup {key}) <= limit
    BY <2>3, <2>4, <1>0
  <2> HIDE DEF K, limit
  <2> QED BY <2>1, <2>2, <2>3, <2>5, <1>1, <1>5, <1>6
<1>7. ASSUME ~Admits(T, key) PROVE Admitted(T, key) = T
  <2>1. CASE ~runtime.online BY <2>1, <1>7 DEF Admitted
  <2>2. CASE runtime.online
    <3>1. ~(key \in DOMAIN K) /\ ~(Cardinality(DOMAIN K) < limit) BY <2>2, <1>5, <1>7
    <3>2. ASSUME key \in DOMAIN T PROVE FALSE
      <4>1. DOMAIN K = DOMAIN T \ {key} BY <3>1, <3>2, <1>1
      <4>2. Cardinality(DOMAIN K) = Cardinality(DOMAIN T) - 1 BY <4>1, <3>2, FS_RemoveElement
      <4>3. Cardinality(DOMAIN T) - 1 < limit BY <1>0
      <4> HIDE DEF K, limit
      <4> QED BY <4>2, <4>3, <3>1
    <3>3. K = T BY <3>2, <1>1
    <3> QED BY <3>3, <2>2, <1>7 DEF Admitted
  <2> QED BY <2>1, <2>2
<1> QED BY <1>6, <1>7

(* allocate_session finds an identifier: there are more than associations. *)
LEMMA FreeSession ==
  ASSUME UdpTables PROVE NextFree \in TunSessionIds \ DOMAIN flowOf
<1> DEFINE Free == TunSessionIds \ DOMAIN flowOf
           distance(i) == (i + MaxSession - nextSession) % MaxSession
           Distances == {distance(i) : i \in Free}
<1>0. /\ MaxSession \in Nat /\ MaxSession > MaxUdpAssociations /\ MaxUdpAssociations \in Nat
      /\ TunSessionIds = 1 .. MaxSession
  BY TunAdapterAssumption DEF TunSessionIds
<1>1. Free # {}
  <2>1. SUFFICES ASSUME TunSessionIds \subseteq DOMAIN flowOf PROVE FALSE OBVIOUS
  <2>2. PICK S : S = DOMAIN leases OBVIOUS
  <2>3. IsFiniteSet(S) /\ Cardinality(S) \in Nat /\ Cardinality(S) <= MaxUdpAssociations
    BY <2>2, FS_CardinalityType DEF UdpTables
  <2>4. PICK h : h = [f \in S |-> sessionOf[f]] OBVIOUS
  <2>5. \A f \in S : h[f] \in TunSessionIds BY <2>2, <2>4 DEF UdpTables
  <2>6. \A id \in TunSessionIds : \E f \in S : h[f] = id
    BY <2>1, <2>2, <2>4 DEF UdpTables, Range
  <2>7. h \in Surjection(S, TunSessionIds) BY <2>4, <2>5, <2>6 DEF Surjection
  <2>8. Cardinality(TunSessionIds) <= Cardinality(S) BY <2>3, <2>7, FS_Surjection
  <2>9. Cardinality(TunSessionIds) = MaxSession BY <1>0, FS_Interval
  <2> QED BY <2>3, <2>8, <2>9, <1>0
<1>2. \A i \in Free : distance(i) \in Nat
  <2>1. \A i \in Free : i \in 1 .. MaxSession /\ nextSession \in 1 .. MaxSession
    BY <1>0 DEF UdpTables
  <2>2. ASSUME NEW i \in Free PROVE distance(i) \in Nat
    <3>1. i \in Nat /\ nextSession \in Nat /\ nextSession <= MaxSession /\ MaxSession > 0
      BY <2>1, <1>0
    <3> QED BY <3>1, <1>0
  <2> QED BY <2>2
<1>3. Distances \in SUBSET Nat /\ Distances # {} BY <1>1, <1>2
<1>4. Min(Distances) \in Distances /\ \A y \in Distances : Min(Distances) <= y
  <2> HIDE DEF Distances
  <2> QED BY <1>3, LeastElement
<1>5. PICK id \in Free : distance(id) = Min(Distances) BY <1>4
<1>6. \A other \in Free : distance(id) <= distance(other) BY <1>4, <1>5
<1>7. \E i \in Free : \A other \in Free : distance(i) <= distance(other) BY <1>6
<1>8. NextFree = CHOOSE i \in Free : \A other \in Free : distance(i) <= distance(other)
  BY DEF NextFree
<1> HIDE DEF Free, distance
<1>9. NextFree \in Free BY <1>7, <1>8
<1> QED BY <1>9 DEF Free

(* The runtime goes on or off line; its generation never goes back.        *)
LEMMA TunRuntimeKeeps == ASSUME TunInv, RuntimeNext PROVE TunInv'
<1>1. runtime \in [generation : Nat, online : BOOLEAN] BY DEF TunInv, EngineOK
<1>2. /\ runtime' \in [generation : Nat, online : BOOLEAN]
      /\ runtime.generation \in Nat /\ runtime'.generation \in Nat
      /\ runtime.generation <= runtime'.generation
  <2>1. CASE RuntimeOnline BY <2>1, <1>1 DEF RuntimeOnline
  <2>2. CASE RuntimeOffline
    <3>1. PICK g \in {runtime.generation, runtime.generation + 1} :
            runtime' = [generation |-> g, online |-> FALSE]
      BY <2>2 DEF RuntimeOffline
    <3>2. g \in Nat /\ runtime.generation \in Nat /\ runtime.generation <= g BY <1>1
    <3> QED BY <3>1, <3>2
  <2> QED BY <2>1, <2>2 DEF RuntimeNext
<1>3. UNCHANGED <<udpVars, tcpVars>> BY DEF RuntimeNext, RuntimeOnline, RuntimeOffline
<1>4. EngineOK' BY <1>2, <1>3 DEF TunInv, EngineOK, udpVars
<1>5. UdpTables' BY <1>2, <1>3 DEF TunInv, UdpTables, udpVars
<1>6. QueuesBounded' BY <1>3 DEF TunInv, QueuesBounded, udpVars
<1>7. StackBounded' BY <1>3 DEF TunInv, StackBounded, tcpVars
<1>8. TcpTables' BY <1>3 DEF TunInv, TcpTables, tcpVars
<1> QED BY <1>4, <1>5, <1>6, <1>7, <1>8 DEF TunInv

(* A frame is queued while there is room; one goes when it is taken.       *)
LEMMA Queued ==
  ASSUME NEW S, NEW q \in Seq(S), Len(q) <= QueueCapacity
  PROVE  /\ \A e \in S : Len(q) # QueueCapacity =>
                Append(q, e) \in Seq(S) /\ Len(Append(q, e)) = Len(q) + 1 /\ Len(q) + 1 <= QueueCapacity
         /\ q # << >> => Tail(q) \in Seq(S) /\ Len(Tail(q)) = Len(q) - 1 /\ Len(Tail(q)) <= QueueCapacity
                         /\ Head(q) \in S
<1>1. QueueCapacity \in Nat /\ Len(q) \in Nat BY TunAdapterAssumption
<1>2. ASSUME NEW e \in S, Len(q) # QueueCapacity
      PROVE  Append(q, e) \in Seq(S) /\ Len(Append(q, e)) = Len(q) + 1 /\ Len(q) + 1 <= QueueCapacity
  BY <1>1, <1>2
<1>3. ASSUME q # << >>
      PROVE  Tail(q) \in Seq(S) /\ Len(Tail(q)) = Len(q) - 1 /\ Len(Tail(q)) <= QueueCapacity
             /\ Head(q) \in S
  BY <1>1, <1>3
<1> QED BY <1>2, <1>3

(* Calls of the engine that leave its tables alone.                        *)
LEMMA TunCallKeeps ==
  ASSUME TunInv,
         \/ \E frame \in TunFrames : PushInbound(frame)
         \/ PopOutbound \/ ForwardReturns \/ ReceiveNext \/ ReceiveFails
         \/ \E id \in TunSessionIds, f \in TunFlows, size \in Payloads :
              DatagramArrives(id, f.destination, size)
  PROVE  TunInv'
<1>1. UNCHANGED <<runtime, leases, sessionOf, flowOf, nextSession, tcpVars>>
  BY DEF PushInbound, PopOutbound, ForwardReturns, ReceiveNext, ReceiveFails, DatagramArrives
<1>2. QueuesBounded'
  <2>1. CASE \E frame \in TunFrames : PushInbound(frame)
    <3>1. PICK frame \in TunFrames : PushInbound(frame) BY <2>1
    <3>2. Len(inbound) # QueueCapacity /\ inbound' = Append(inbound, frame) /\ outbound' = outbound
      BY <3>1 DEF PushInbound
    <3>3. inbound' \in Seq(TunFrames) /\ Len(inbound') <= QueueCapacity
      BY <3>2, Queued DEF TunInv, QueuesBounded
    <3> QED BY <3>2, <3>3 DEF TunInv, QueuesBounded
  <2>2. CASE PopOutbound
    <3>1. outbound # << >> /\ outbound' = Tail(outbound) /\ inbound' = inbound
      BY <2>2 DEF PopOutbound
    <3>2. outbound' \in Seq(Responses) /\ Len(outbound') <= QueueCapacity
      BY <3>1, Queued DEF TunInv, QueuesBounded
    <3> QED BY <3>1, <3>2 DEF TunInv, QueuesBounded
  <2>3. CASE UNCHANGED <<inbound, outbound>> BY <2>3 DEF TunInv, QueuesBounded
  <2> QED BY <2>1, <2>2, <2>3 DEF ForwardReturns, ReceiveNext, ReceiveFails, DatagramArrives
<1>3. EngineOK'
  <2>1. CASE engine' = engine BY <2>1, <1>1 DEF TunInv, EngineOK
  <2>2. CASE engine' = Idle
    <3>1. engine'.call = "none" BY <2>2 DEF Idle
    <3> QED BY <3>1, <1>1 DEF TunInv, EngineOK
  <2>3. CASE ReceiveNext
    <3>1. engine'.call = "receive" /\ engine'.generation = runtime.generation BY <2>3 DEF ReceiveNext
    <3>2. runtime.generation \in Nat BY DEF TunInv, EngineOK
    <3> QED BY <3>1, <3>2, <1>1 DEF TunInv, EngineOK, UdpTables
  <2>4. CASE \E id \in TunSessionIds, f \in TunFlows, size \in Payloads :
               DatagramArrives(id, f.destination, size)
    <3>1. PICK id \in TunSessionIds, f \in TunFlows, size \in Payloads :
            DatagramArrives(id, f.destination, size) BY <2>4
    <3>2. /\ engine.call = "receive" /\ engine'.call = "received"
          /\ engine'.generation = engine.generation /\ engine'.size = size
      BY <3>1 DEF DatagramArrives
    <3>3. size \in Nat BY TunAdapterAssumption
    <3> QED BY <3>2, <3>3, <1>1 DEF TunInv, EngineOK
  <2> QED BY <2>1, <2>2, <2>3, <2>4 DEF PushInbound, PopOutbound, ForwardReturns, ReceiveFails
<1>4. UdpTables' BY <1>1 DEF TunInv, UdpTables
<1>5. StackBounded' BY <1>1 DEF TunInv, StackBounded, tcpVars
<1>6. TcpTables' BY <1>1 DEF TunInv, TcpTables, tcpVars
<1> QED BY <1>2, <1>3, <1>4, <1>5, <1>6 DEF TunInv

(* A response that may be delivered, as it is queued.                      *)
LEMMA ResponseTyped ==
  ASSUME TunInv, engine.call = "received", Deliverable
  PROVE  [flow |-> flowOf[engine.session], generation |-> engine.generation,
          size |-> ResponseBytes(flowOf[engine.session], engine.size)] \in Responses
<1> DEFINE flow == flowOf[engine.session]
<1>1. engine.generation \in Nat /\ engine.size \in Nat BY DEF TunInv, EngineOK
<1>2. flow \in TunFlows BY DEF Deliverable, IsActive, TunInv, UdpTables
<1>3. ResponseBytes(flow, engine.size) \in Nat
  <2>1. HeaderBytes(flow.family) \in Nat BY DEF HeaderBytes
  <2> QED BY <2>1, <1>1 DEF ResponseBytes
<1>4. ResponseBytes(flow, engine.size) <= Mtu /\ Mtu \in Nat
  BY TunAdapterAssumption DEF Deliverable
<1> HIDE DEF flow
<1>5. ResponseBytes(flow, engine.size) \in 0 .. Mtu BY <1>3, <1>4
<1> QED BY <1>1, <1>2, <1>5 DEF Responses, flow

(* A received datagram is queued for the TUN, or dropped.                  *)
LEMMA ReceiveReturnsKeeps == ASSUME TunInv, ReceiveReturns PROVE TunInv'
<1>1. /\ engine.call = "received" /\ engine' = Idle
      /\ UNCHANGED <<runtime, leases, sessionOf, flowOf, nextSession, inbound, tcpVars>>
  BY DEF ReceiveReturns
<1>2. EngineOK'
  <2>1. engine'.call = "none" BY <1>1 DEF Idle
  <2> QED BY <2>1, <1>1 DEF TunInv, EngineOK
<1>3. QueuesBounded'
  <2> DEFINE r == [flow |-> flowOf[engine.session], generation |-> engine.generation,
                   size |-> ResponseBytes(flowOf[engine.session], engine.size)]
  <2>1. CASE Deliverable
    <3>1. outbound' = Append(outbound, r) BY <2>1 DEF ReceiveReturns
    <3>2. r \in Responses BY <1>1, <2>1, ResponseTyped
    <3>3. Len(outbound) # QueueCapacity BY <2>1 DEF Deliverable
    <3> HIDE DEF r
    <3>4. outbound' \in Seq(Responses) /\ Len(outbound') <= QueueCapacity
      BY <3>1, <3>2, <3>3, Queued DEF TunInv, QueuesBounded
    <3> QED BY <3>4, <1>1 DEF TunInv, QueuesBounded
  <2>2. CASE ~Deliverable
    <3>1. outbound' = outbound BY <2>2 DEF ReceiveReturns
    <3> QED BY <3>1, <1>1 DEF TunInv, QueuesBounded
  <2> QED BY <2>1, <2>2
<1>4. UdpTables' BY <1>1 DEF TunInv, UdpTables
<1>5. StackBounded' BY <1>1 DEF TunInv, StackBounded, tcpVars
<1>6. TcpTables' BY <1>1 DEF TunInv, TcpTables, tcpVars
<1> QED BY <1>2, <1>3, <1>4, <1>5, <1>6 DEF TunInv

(* clear forgets every flow with its session.                              *)
LEMMA ClearEngineKeeps == ASSUME TunInv, ClearEngine PROVE TunInv'
<1>1. /\ engine = Idle /\ leases' = << >> /\ sessionOf' = << >> /\ flowOf' = << >>
      /\ UNCHANGED <<runtime, nextSession, inbound, outbound, engine, tcpVars>>
  BY DEF ClearEngine
<1>2. DOMAIN leases' = {} /\ DOMAIN sessionOf' = {} /\ DOMAIN flowOf' = {}
      /\ Cardinality(DOMAIN leases') = 0 /\ IsFiniteSet(DOMAIN leases')
  <2>1. DOMAIN << >> = {} OBVIOUS
  <2> QED BY <2>1, <1>1, FS_EmptySet
<1>3. UdpTables'
  <2>1. Range(sessionOf') = {} BY <1>2 DEF Range
  <2>2. 0 <= MaxUdpAssociations BY TunAdapterAssumption
  <2> QED BY <1>1, <1>2, <2>1, <2>2 DEF TunInv, UdpTables
<1>4. EngineOK' BY <1>1, <1>2 DEF TunInv, EngineOK, Idle
<1>5. QueuesBounded' BY <1>1 DEF TunInv, QueuesBounded
<1>6. StackBounded' BY <1>1 DEF TunInv, StackBounded, tcpVars
<1>7. TcpTables' BY <1>1 DEF TunInv, TcpTables, tcpVars
<1> QED BY <1>3, <1>4, <1>5, <1>6, <1>7 DEF TunInv

(* The flow of a queued frame, if it has one.                              *)
LEMMA UdpFlowTyped ==
  ASSUME NEW frame \in TunFrames, UdpFlow(frame) # Absent
  PROVE  UdpFlow(frame) \in TunFlows /\ UdpFlow(frame).protocol = "udp"
BY TunAdapterAssumption DEF UdpFlow, Classify

(* The limits of the two protocols.                                        *)
LEMMA Limits ==
  /\ Limit("udp") = MaxUdpAssociations /\ Limit("tcp") = MaxTcpFlows
  /\ MaxUdpAssociations \in Nat \ {0} /\ MaxTcpFlows \in Nat \ {0}
BY TunAdapterAssumption DEF Limit

(* A forwarded frame takes its flow a lease and a session, or neither.     *)
LEMMA ForwardNextKeeps == ASSUME TunInv, ForwardNext PROVE TunInv'
<1> DEFINE flow == UdpFlow(Head(inbound))
<1>1. /\ engine = Idle /\ inbound # << >> /\ inbound' = Tail(inbound)
      /\ UNCHANGED <<runtime, outbound, tcpVars>>
  BY DEF ForwardNext
<1>2. Head(inbound) \in TunFrames /\ inbound' \in Seq(TunFrames) /\ Len(inbound') <= QueueCapacity
  BY <1>1, Queued DEF TunInv, QueuesBounded
<1>3. QueuesBounded' BY <1>1, <1>2 DEF TunInv, QueuesBounded
<1>4. StackBounded' BY <1>1 DEF TunInv, StackBounded, tcpVars
<1>5. TcpTables' BY <1>1 DEF TunInv, TcpTables, tcpVars
<1>6. CASE flow = Absent
  <2>1. UNCHANGED <<leases, sessionOf, flowOf, nextSession, engine>> BY <1>6 DEF ForwardNext
  <2>2. EngineOK' /\ UdpTables' BY <2>1, <1>1 DEF TunInv, EngineOK, UdpTables
  <2> QED BY <2>2, <1>3, <1>4, <1>5 DEF TunInv
<1>7. CASE flow # Absent
  <2>1. flow \in TunFlows /\ flow.protocol = "udp" BY <1>2, <1>7, UdpFlowTyped
  <2>2. /\ IsFiniteSet(DOMAIN leases) /\ Limit(flow.protocol) = MaxUdpAssociations
        /\ Limit(flow.protocol) \in Nat \ {0} /\ Cardinality(DOMAIN leases) <= Limit(flow.protocol)
        /\ \A k \in DOMAIN leases : k.protocol = flow.protocol
    BY <2>1, Limits DEF TunInv, UdpTables
  <2>3. EngineOK BY DEF TunInv
  <2> HIDE DEF flow
  <2>4. /\ Admits(leases, flow) =>
             /\ DOMAIN Admitted(leases, flow) = DOMAIN leases \cup {flow}
             /\ Admitted(leases, flow)[flow] = runtime.generation
             /\ \A k \in DOMAIN leases \ {flow} : Admitted(leases, flow)[k] = leases[k]
             /\ flow \notin DOMAIN leases => Cardinality(DOMAIN leases) < MaxUdpAssociations
             /\ Cardinality(DOMAIN leases \cup {flow}) <= MaxUdpAssociations
        /\ ~Admits(leases, flow) => Admitted(leases, flow) = leases
    BY <2>2, <2>3, AdmittedTable
  <2>5. CASE ~Admits(leases, flow)
    <3>1. UNCHANGED <<leases, sessionOf, flowOf, nextSession, engine>>
      BY <2>4, <2>5, <1>7 DEF ForwardNext, flow
    <3>2. EngineOK' /\ UdpTables' BY <3>1, <1>1 DEF TunInv, EngineOK, UdpTables
    <3> QED BY <3>2, <1>3, <1>4, <1>5 DEF TunInv
  <2>6. CASE Admits(leases, flow)
    <3>1. leases' = Admitted(leases, flow) BY <2>6, <1>7 DEF ForwardNext, flow
    <3>2. /\ DOMAIN leases' = DOMAIN leases \cup {flow} /\ IsFiniteSet(DOMAIN leases')
          /\ Cardinality(DOMAIN leases') <= MaxUdpAssociations
          /\ \A f \in DOMAIN leases' : f \in TunFlows /\ f.protocol = "udp"
      BY <3>1, <2>1, <2>2, <2>4, <2>6, FS_AddElement DEF TunInv, UdpTables
    <3>3. \A f \in DOMAIN leases' : leases'[f] \in Nat /\ leases'[f] <= runtime'.generation
      <4>1. runtime.generation \in Nat BY <2>3 DEF EngineOK
      <4> QED BY <4>1, <3>1, <3>2, <2>4, <2>6, <1>1 DEF TunInv, UdpTables
    <3>4. CASE flow \in DOMAIN sessionOf
      <4>1. /\ engine' = [call |-> "forward", flow |-> flow, session |-> sessionOf[flow],
                          generation |-> runtime.generation]
            /\ UNCHANGED <<sessionOf, flowOf, nextSession>>
        BY <3>4, <2>6, <1>7 DEF ForwardNext, flow
      <4>2. engine'.call = "forward" BY <4>1
      <4>3. DOMAIN leases' = DOMAIN leases BY <3>2, <3>4 DEF TunInv, UdpTables
      <4>4. UdpTables' BY <4>1, <4>3, <3>2, <3>3 DEF TunInv, UdpTables
      <4>5. EngineOK' BY <4>2, <2>3, <1>1 DEF EngineOK
      <4> QED BY <4>4, <4>5, <1>3, <1>4, <1>5 DEF TunInv
    <3>5. CASE flow \notin DOMAIN sessionOf
      <4>1. Cardinality(DOMAIN sessionOf) # MaxUdpAssociations
        <5>1. Cardinality(DOMAIN leases) < MaxUdpAssociations /\ DOMAIN leases = DOMAIN sessionOf
          BY <3>5, <2>4, <2>6 DEF TunInv, UdpTables
        <5>2. Cardinality(DOMAIN leases) \in Nat /\ MaxUdpAssociations \in Nat
          BY <2>2, Limits, FS_CardinalityType
        <5> QED BY <5>1, <5>2
      <4> DEFINE id == NextFree
      <4>2. /\ sessionOf' = With(sessionOf, flow, id) /\ flowOf' = With(flowOf, id, flow)
            /\ nextSession' = After(id)
            /\ engine' = [call |-> "forward", flow |-> flow, session |-> id,
                          generation |-> runtime.generation]
        BY <4>1, <3>5, <2>6, <1>7 DEF ForwardNext, flow
      <4>3. id \in TunSessionIds \ DOMAIN flowOf BY FreeSession DEF TunInv
      <4> HIDE DEF id
      <4>4. /\ DOMAIN sessionOf' = DOMAIN sessionOf \cup {flow} /\ sessionOf'[flow] = id
            /\ \A f \in DOMAIN sessionOf : sessionOf'[f] = sessionOf[f]
        BY <4>2, <3>5 DEF With
      <4>5. /\ DOMAIN flowOf' = DOMAIN flowOf \cup {id} /\ flowOf'[id] = flow
            /\ \A i \in DOMAIN flowOf : flowOf'[i] = flowOf[i]
        BY <4>2, <4>3 DEF With
      <4>6. /\ DOMAIN leases = DOMAIN sessionOf /\ Range(sessionOf) = DOMAIN flowOf
            /\ \A f \in DOMAIN sessionOf : sessionOf[f] \in TunSessionIds /\ flowOf[sessionOf[f]] = f
        BY DEF TunInv, UdpTables
      <4>7. Range(sessionOf') = DOMAIN flowOf'
        BY <4>4, <4>5, <4>6 DEF Range
      <4>8. \A f \in DOMAIN sessionOf : sessionOf[f] \in DOMAIN flowOf BY <4>6 DEF Range
      <4>9. \A f \in DOMAIN sessionOf' : sessionOf'[f] \in TunSessionIds /\ flowOf'[sessionOf'[f]] = f
        BY <4>3, <4>4, <4>5, <4>6, <4>8
      <4>10. nextSession' \in TunSessionIds
        <5>1. MaxSession \in Nat /\ id \in 1 .. MaxSession
          BY <4>3, TunAdapterAssumption DEF TunSessionIds
        <5> QED BY <4>2, <5>1 DEF After, TunSessionIds
      <4>11. UdpTables'
        BY <4>4, <4>6, <4>7, <4>9, <4>10, <3>2, <3>3 DEF UdpTables
      <4>12. engine'.call = "forward" BY <4>2
      <4>13. EngineOK' BY <4>12, <2>3, <1>1 DEF EngineOK
      <4> QED BY <4>11, <4>13, <1>3, <1>4, <1>5 DEF TunInv
    <3> QED BY <3>4, <3>5
  <2> QED BY <2>5, <2>6
<1> QED BY <1>6, <1>7

(* What leaves the UDP engine and the stack alone.                         *)
LEMMA TcpOnly ==
  ASSUME TunInv, UNCHANGED <<runtime, udpVars, stack>>, TcpTables' PROVE TunInv'
BY DEF TunInv, EngineOK, UdpTables, QueuesBounded, StackBounded, udpVars

(* TCP relays: the stream of a relay is of the generation of its lease.    *)
LEMMA TcpKeeps == ASSUME TunInv, TcpNext PROVE TunInv'
<1>1. CASE \E f \in TunFlows : OpenTcp(f)
  <2>1. PICK f \in TunFlows : OpenTcp(f) BY <1>1
  <2>2. /\ f.protocol = "tcp" /\ tcpLeases' = Admitted(tcpLeases, f)
        /\ UNCHANGED <<runtime, udpVars, relays, stack>>
    BY <2>1 DEF OpenTcp
  <2>3. /\ IsFiniteSet(DOMAIN tcpLeases) /\ Limit(f.protocol) = MaxTcpFlows
        /\ Limit(f.protocol) \in Nat \ {0} /\ Cardinality(DOMAIN tcpLeases) <= Limit(f.protocol)
        /\ \A k \in DOMAIN tcpLeases : k.protocol = f.protocol
    BY <2>2, Limits DEF TunInv, TcpTables
  <2>4. /\ Admits(tcpLeases, f) =>
             /\ DOMAIN tcpLeases' = DOMAIN tcpLeases \cup {f}
             /\ Cardinality(DOMAIN tcpLeases \cup {f}) <= MaxTcpFlows
        /\ ~Admits(tcpLeases, f) => tcpLeases' = tcpLeases
    BY <2>2, <2>3, AdmittedTable DEF TunInv
  <2>5. TcpTables'
    BY <2>2, <2>3, <2>4, FS_AddElement DEF TunInv, TcpTables
  <2> QED BY <2>2, <2>5, TcpOnly
<1>2. CASE \E f \in TunFlows : Release(f)
  <2>1. PICK f \in TunFlows : Release(f) BY <1>2
  <2>2. /\ tcpLeases' = Without(tcpLeases, f) /\ relays' = Without(relays, f)
        /\ UNCHANGED <<runtime, udpVars, stack>>
    BY <2>1 DEF Release
  <2>3. /\ DOMAIN tcpLeases' \subseteq DOMAIN tcpLeases
        /\ DOMAIN relays' \subseteq DOMAIN relays /\ \A g \in DOMAIN relays' : relays'[g] = relays[g]
    BY <2>2 DEF Without, Restrict
  <2>4. IsFiniteSet(DOMAIN tcpLeases') /\ Cardinality(DOMAIN tcpLeases') <= MaxTcpFlows
    <3>1. IsFiniteSet(DOMAIN tcpLeases) /\ Cardinality(DOMAIN tcpLeases) <= MaxTcpFlows
      BY DEF TunInv, TcpTables
    <3>2. /\ IsFiniteSet(DOMAIN tcpLeases') /\ Cardinality(DOMAIN tcpLeases') <= Cardinality(DOMAIN tcpLeases)
          /\ Cardinality(DOMAIN tcpLeases') \in Nat /\ Cardinality(DOMAIN tcpLeases) \in Nat
      BY <3>1, <2>3, FS_Subset, FS_CardinalityType
    <3> QED BY <3>1, <3>2, Limits
  <2>5. TcpTables' BY <2>3, <2>4 DEF TunInv, TcpTables
  <2> QED BY <2>2, <2>5, TcpOnly
<1>3. CASE StreamOpens \/ OpenTcpFails
  <2>1. UNCHANGED <<runtime, udpVars, tcpLeases, relays, stack>>
    BY <1>3 DEF StreamOpens, OpenTcpFails
  <2> QED BY <2>1, TcpOnly DEF TunInv, TcpTables
<1>4. CASE OpenTcpReturns
  <2> DEFINE r == [generation |-> opening.generation, stream |-> opening.stream, at |-> "ready"]
  <2>1. UNCHANGED <<runtime, udpVars, tcpLeases, stack>> BY <1>4 DEF OpenTcpReturns
  <2>2. CASE GenerationOnline(opening.stream) /\ IsActive(tcpLeases, opening.flow, opening.generation)
    <3>1. relays' = With(relays, opening.flow, r) BY <1>4, <2>2 DEF OpenTcpReturns
    <3>2. opening.stream = runtime.generation /\ opening.generation = runtime.generation
      BY <2>2 DEF GenerationOnline, IsActive
    <3>3. runtime.generation \in Nat BY DEF TunInv, EngineOK
    <3>4. /\ r \in [generation : Nat, stream : Nat, at : {"ready", "busy", "stale"}]
          /\ r.stream = r.generation
      BY <3>2, <3>3
    <3> HIDE DEF r
    <3>5. /\ DOMAIN relays' = DOMAIN relays \cup {opening.flow}
          /\ \A f \in DOMAIN relays' : relays'[f] = r \/ (f \in DOMAIN relays /\ relays'[f] = relays[f])
      BY <3>1 DEF With
    <3>6. TcpTables' BY <2>1, <3>4, <3>5 DEF TunInv, TcpTables
    <3> QED BY <2>1, <3>6, TcpOnly
  <2>3. CASE ~(GenerationOnline(opening.stream) /\ IsActive(tcpLeases, opening.flow, opening.generation))
    <3>1. relays' = relays BY <1>4, <2>3 DEF OpenTcpReturns
    <3> QED BY <2>1, <3>1, TcpOnly DEF TunInv, TcpTables
  <2> QED BY <2>2, <2>3
<1>5. CASE \E f \in DOMAIN relays : RelayBegins(f) \/ RelayEnds(f)
  <2>1. PICK f \in DOMAIN relays, at \in {"ready", "busy", "stale"} :
          relays' = [relays EXCEPT ![f].at = at] /\ UNCHANGED <<runtime, udpVars, tcpLeases, stack>>
    BY <1>5 DEF RelayBegins, RelayEnds
  <2>2. /\ DOMAIN relays' = DOMAIN relays
        /\ \A g \in DOMAIN relays \ {f} : relays'[g] = relays[g]
        /\ relays'[f] = [relays[f] EXCEPT !.at = at]
    BY <2>1
  <2>3. /\ relays[f] \in [generation : Nat, stream : Nat, at : {"ready", "busy", "stale"}]
        /\ relays[f].stream = relays[f].generation
    BY DEF TunInv, TcpTables
  <2>4. /\ relays'[f] \in [generation : Nat, stream : Nat, at : {"ready", "busy", "stale"}]
        /\ relays'[f].stream = relays'[f].generation
    BY <2>2, <2>3
  <2>5. TcpTables' BY <2>1, <2>2, <2>4 DEF TunInv, TcpTables
  <2> QED BY <2>1, <2>5, TcpOnly
<1>6. CASE ClearTcp
  <2>1. tcpLeases' = << >> /\ relays' = << >> /\ UNCHANGED <<runtime, udpVars, stack>>
    BY <1>6 DEF ClearTcp
  <2>2. DOMAIN tcpLeases' = {} /\ DOMAIN relays' = {}
    <3>1. DOMAIN << >> = {} OBVIOUS
    <3> QED BY <3>1, <2>1
  <2>3. IsFiniteSet(DOMAIN tcpLeases') /\ Cardinality(DOMAIN tcpLeases') = 0 /\ 0 <= MaxTcpFlows
    BY <2>2, FS_EmptySet, Limits
  <2>4. TcpTables' BY <2>2, <2>3 DEF TcpTables
  <2> QED BY <2>1, <2>4, TcpOnly
<1> QED BY <1>1, <1>2, <1>3, <1>4, <1>5, <1>6 DEF TcpNext

(* The device of the TCP stack: what it is given and what it sends stay    *)
(* within the capacity of its queues.                                      *)
LEMMA StackKeeps == ASSUME TunInv, StackNext PROVE TunInv'
<1>0. /\ stack \in [inbound : Seq(TunFrames), outbound : Seq(Nat)]
      /\ Len(stack.inbound) <= QueueCapacity /\ Len(stack.outbound) <= QueueCapacity
  BY DEF TunInv, StackBounded
<1>1. ASSUME NEW size \in Nat
      PROVE  /\ Transmitted(stack.outbound, size) \in Seq(Nat)
             /\ Len(Transmitted(stack.outbound, size)) <= QueueCapacity
  <2>1. QueueCapacity \in Nat /\ Len(stack.outbound) \in Nat BY <1>0, TunAdapterAssumption
  <2> QED BY <1>0, <2>1, Queued DEF Transmitted
<1>2. UNCHANGED <<runtime, udpVars, tcpLeases, opening, relays>>
  BY DEF StackNext, StackPush, StackReceives, StackTransmits, StackPop
<1>3. StackBounded'
  <2>1. CASE \E frame \in TunFrames : StackPush(frame)
    <3>1. PICK frame \in TunFrames : StackPush(frame) BY <2>1
    <3>2. /\ Len(stack.inbound) # QueueCapacity
          /\ stack' = [stack EXCEPT !.inbound = Append(stack.inbound, frame)]
      BY <3>1 DEF StackPush
    <3>3. /\ Append(stack.inbound, frame) \in Seq(TunFrames)
          /\ Len(Append(stack.inbound, frame)) <= QueueCapacity
      BY <1>0, <3>2, Queued
    <3> QED BY <1>0, <3>2, <3>3 DEF StackBounded
  <2>2. CASE StackReceives({}) \/ \E size \in Payloads : StackReceives({size})
    <3>1. /\ Tail(stack.inbound) \in Seq(TunFrames) /\ Len(Tail(stack.inbound)) <= QueueCapacity
      BY <1>0, <2>2, Queued DEF StackReceives
    <3>2. CASE StackReceives({})
      <4>1. stack' = [inbound |-> Tail(stack.inbound), outbound |-> stack.outbound]
        BY <3>2 DEF StackReceives
      <4> QED BY <4>1, <3>1, <1>0 DEF StackBounded
    <3>3. CASE \E size \in Payloads : StackReceives({size})
      <4>1. PICK size \in Payloads : StackReceives({size}) BY <3>3
      <4>2. stack' = [inbound |-> Tail(stack.inbound),
                      outbound |-> Transmitted(stack.outbound, Max({size}))]
        BY <4>1 DEF StackReceives
      <4>3. Max({size}) \in Nat
        <5>1. size \in Nat BY TunAdapterAssumption
        <5>2. {size} = {size, size} OBVIOUS
        <5> QED BY <5>1, <5>2, MaxOfTwo
      <4>4. PICK n \in Nat : n = Max({size}) BY <4>3
      <4> QED BY <4>2, <4>4, <3>1, <1>1 DEF StackBounded
    <3> QED BY <2>2, <3>2, <3>3
  <2>3. CASE \E size \in Payloads : StackTransmits(size)
    <3>1. PICK size \in Payloads : StackTransmits(size) BY <2>3
    <3>2. size \in Nat BY TunAdapterAssumption
    <3>3. stack' = [stack EXCEPT !.outbound = Transmitted(stack.outbound, size)]
      BY <3>1 DEF StackTransmits
    <3> QED BY <1>0, <1>1, <3>2, <3>3 DEF StackBounded
  <2>4. CASE StackPop
    <3>1. /\ stack.outbound # << >>
          /\ stack' = [stack EXCEPT !.outbound = Tail(stack.outbound)]
      BY <2>4 DEF StackPop
    <3>2. Tail(stack.outbound) \in Seq(Nat) /\ Len(Tail(stack.outbound)) <= QueueCapacity
      BY <1>0, <3>1, Queued
    <3> QED BY <1>0, <3>1, <3>2 DEF StackBounded
  <2> QED BY <2>1, <2>2, <2>3, <2>4 DEF StackNext
<1>4. EngineOK' /\ UdpTables' /\ QueuesBounded' /\ TcpTables'
  BY <1>2 DEF TunInv, EngineOK, UdpTables, QueuesBounded, TcpTables, udpVars
<1> QED BY <1>3, <1>4 DEF TunInv

(* A new adapter has no flow, no session and nothing queued.               *)
LEMMA TunInitially == TunInit => TunInv
<1> SUFFICES ASSUME TunInit PROVE TunInv OBVIOUS
<1>1. DOMAIN << >> = {} /\ Len(<< >>) = 0 OBVIOUS
<1>2. /\ DOMAIN leases = {} /\ DOMAIN sessionOf = {} /\ DOMAIN flowOf = {}
      /\ DOMAIN tcpLeases = {} /\ DOMAIN relays = {}
  BY <1>1 DEF TunInit
<1>3. IsFiniteSet({}) /\ Cardinality({}) = 0 BY FS_EmptySet
<1>4. 0 <= MaxUdpAssociations /\ 0 <= MaxTcpFlows /\ 0 <= QueueCapacity
  BY TunAdapterAssumption
<1>5. EngineOK
  <2>1. engine.call = "none" BY DEF TunInit, Idle
  <2> QED BY <2>1 DEF TunInit, EngineOK
<1>6. UdpTables
  <2>1. Range(sessionOf) = {} BY <1>2 DEF Range
  <2>2. nextSession \in TunSessionIds BY TunAdapterAssumption DEF TunInit, TunSessionIds
  <2> QED BY <1>2, <1>3, <1>4, <2>1, <2>2 DEF UdpTables
<1>7. QueuesBounded BY <1>1, <1>4 DEF TunInit, QueuesBounded
<1>8. StackBounded BY <1>1, <1>4 DEF TunInit, StackBounded
<1>9. TcpTables BY <1>2, <1>3, <1>4 DEF TcpTables
<1> QED BY <1>5, <1>6, <1>7, <1>8, <1>9 DEF TunInv

(* Every step of the adapter, the runtime and the stack keeps TunInv.      *)
LEMMA TunStepKeeps == TunInv /\ [TunNext]_tunVars => TunInv'
<1> SUFFICES ASSUME TunInv, [TunNext]_tunVars PROVE TunInv' OBVIOUS
<1>1. CASE RuntimeNext BY <1>1, TunRuntimeKeeps
<1>2. CASE UdpNext
  <2>1. CASE ForwardNext BY <2>1, ForwardNextKeeps
  <2>2. CASE ReceiveReturns BY <2>2, ReceiveReturnsKeeps
  <2>3. CASE ClearEngine BY <2>3, ClearEngineKeeps
  <2> QED BY <1>2, <2>1, <2>2, <2>3, TunCallKeeps DEF UdpNext
<1>3. CASE TcpNext BY <1>3, TcpKeeps
<1>4. CASE StackNext BY <1>4, StackKeeps
<1>5. CASE UNCHANGED tunVars
  BY <1>5 DEF tunVars, TunInv, EngineOK, UdpTables, QueuesBounded, StackBounded, TcpTables
<1> QED BY <1>1, <1>2, <1>3, <1>4, <1>5 DEF TunNext

(* TunInv is inductive: the tables of the UDP engine agree, no lease is    *)
(* newer than the receive that waits, and queues and tables are bounded.   *)
THEOREM TunInvariant == TunSpec => []TunInv
<1> QED BY TunInitially, TunStepKeeps, PTL DEF TunSpec

(* LeasesHaveSessions for any flows, frames and limits: the flow registry  *)
(* and the association table of forward_udp hold the same flows, so that   *)
(* no admitted flow is refused a session.                                  *)
THEOREM LeasesAlwaysHaveSessions == TunSpec => []LeasesHaveSessions
<1>1. ASSUME TunInv PROVE LeasesHaveSessions
  <2>1. \A i \in DOMAIN outbound : outbound[i].size <= Mtu
    <3>1. outbound \in Seq(Responses) /\ Mtu \in Nat
      BY <1>1, TunAdapterAssumption DEF TunInv, QueuesBounded
    <3>2. ASSUME NEW i \in DOMAIN outbound PROVE outbound[i].size <= Mtu
      <4>1. outbound[i] \in Responses BY <3>1
      <4>2. outbound[i].size \in 0 .. Mtu BY <4>1 DEF Responses
      <4> QED BY <4>2, <3>1
    <3> QED BY <3>2
  <2> QED BY <1>1, <2>1 DEF TunInv, UdpTables, QueuesBounded, StackBounded, TcpTables, LeasesHaveSessions
<1> QED BY <1>1, TunInvariant, PTL

(* Only receive_next queues a frame for the TUN, and only for a flow       *)
(* leased under the generation the datagram arrived on, still on line.     *)
LEMMA ResponsesCurrent ==
  ASSUME TunInv, TunNext, Len(outbound') > Len(outbound)
  PROVE  LET frame == outbound'[Len(outbound')]
         IN /\ GenerationOnline(frame.generation)
            /\ frame.flow \in DOMAIN leases /\ leases[frame.flow] = frame.generation
<1> DEFINE r == [flow |-> flowOf[engine.session], generation |-> engine.generation,
                 size |-> ResponseBytes(flowOf[engine.session], engine.size)]
<1>0. outbound \in Seq(Responses) /\ Len(outbound) \in Nat BY DEF TunInv, QueuesBounded
<1>1. ReceiveReturns
  <2>1. outbound' # outbound BY <1>0
  <2>2. CASE PopOutbound
    <3>1. outbound # << >> /\ outbound' = Tail(outbound) BY <2>2 DEF PopOutbound
    <3>2. Len(outbound') = Len(outbound) - 1 BY <3>1, <1>0
    <3> QED BY <3>2, <1>0
  <2>3. UNCHANGED outbound \/ PopOutbound \/ ReceiveReturns
    BY DEF TunNext, RuntimeNext, RuntimeOnline, RuntimeOffline, UdpNext, PushInbound, ForwardNext,
       ForwardReturns, ReceiveNext, ReceiveFails, DatagramArrives, ClearEngine, TcpNext, OpenTcp,
       Release, StreamOpens, OpenTcpReturns, OpenTcpFails, RelayBegins, RelayEnds, ClearTcp,
       StackNext, StackPush, StackReceives, StackTransmits, StackPop, udpVars
  <2> QED BY <2>1, <2>2, <2>3
<1>2. Deliverable /\ engine.call = "received" /\ outbound' = Append(outbound, r)
  BY <1>0, <1>1 DEF ReceiveReturns
<1>3. r.generation = engine.generation /\ r.flow = flowOf[engine.session] OBVIOUS
<1>4. /\ r.flow \in DOMAIN leases /\ leases[r.flow] = runtime.generation
      /\ GenerationOnline(runtime.generation)
  BY <1>2, <1>3 DEF Deliverable, IsActive
<1>5. engine.generation = runtime.generation
  <2>1. /\ engine.generation \in Nat /\ runtime.generation \in Nat
        /\ engine.generation <= runtime.generation /\ runtime.generation <= engine.generation
    BY <1>2, <1>4 DEF TunInv, EngineOK
  <2> QED BY ONLY <2>1
<1>6. r \in Responses BY <1>2, ResponseTyped DEF TunInv
<1> HIDE DEF r
<1>7. outbound'[Len(outbound')] = r BY <1>0, <1>2, <1>6
<1> QED BY <1>3, <1>4, <1>5, <1>7

(* NoStaleTraffic for any flows, frames and limits: what reaches the TUN,  *)
(* and what a TCP relay carries, is of the generation its flow was         *)
(* admitted under (receive_udp, open_tcp).                                 *)
THEOREM TrafficNeverStale == TunSpec => NoStaleTraffic
<1>1. ASSUME TunInv, TunInv', [TunNext]_tunVars
      PROVE  [/\ Len(outbound') > Len(outbound) =>
                   LET frame == outbound'[Len(outbound')]
                   IN /\ GenerationOnline(frame.generation)
                      /\ frame.flow \in DOMAIN leases /\ leases[frame.flow] = frame.generation
              /\ \A f \in DOMAIN relays' : relays'[f].stream = relays'[f].generation]_tunVars
  <2>1. \A f \in DOMAIN relays' : relays'[f].stream = relays'[f].generation
    BY <1>1 DEF TunInv, TcpTables
  <2> QED BY <1>1, <2>1, ResponsesCurrent
<1> QED BY <1>1, TunInvariant, PTL DEF TunSpec, NoStaleTraffic
----------------------------------------------------------------------------
(* The service and its profiles *)

Controls == {"drain", "shutdown"}
OnItsWay(control) == \E i \in DOMAIN queue : queue[i] = control

(* A control that was sent is in the channel or was taken: what            *)
(* ControlsObeyed says of answered requests holds from the sending on.     *)
ControlsKept ==
  /\ queue \in Seq(Controls)
  /\ request \in [Requesters -> [at : {"none", "sending", "sent", "answered"},
                                 what : {"none", "status", "drain", "shutdown", "other"},
                                 answer : {"none", "running", "draining", "stopping", "error"}]]
  /\ phase \in {"running", "draining", "stopping"}
  /\ \A r \in Requesters : request[r].at = "sending" => request[r].what \in Controls
  /\ \A r \in Requesters :
       serve = "loop" /\ request[r].at \in {"sent", "answered"} =>
         /\ request[r].what = "drain" => draining \/ OnItsWay("drain")
         /\ request[r].what = "shutdown" => OnItsWay("shutdown")

(* Cover connections are accepted only while the service runs.             *)
CoverBounded ==
  /\ DOMAIN coverClient = CoverClients
  /\ coverClient = [c \in CoverClients |-> coverClient[c]]
  /\ IsFiniteSet(CoverServed) /\ Cardinality(CoverServed) <= MaxCover
  /\ serve = "down" => ~coverTask /\ CoverServed = {}

(* Expiry orders the profiles by the time they were active; but for its    *)
(* expiry the active one is always valid.                                  *)
WellFormed(p) ==
  /\ p.schema = 1 /\ p.identifier # "" /\ p.sizes # << >>
  /\ \A i \in 1 .. Len(p.sizes) - 1 : p.sizes[i] < p.sizes[i + 1]
ProfilesOrdered ==
  /\ active \in TrafficProfiles /\ WellFormed(active) /\ forestNow \in Nat
  /\ rotations \in Seq(TrafficProfiles)
  /\ \A i \in DOMAIN rotations : rotations[i].expires < active.expires

ServiceInv == ControlsKept /\ CoverBounded /\ ProfilesOrdered

(* Nothing runs at first.                                                  *)
LEMMA ServiceInitially == ServiceInit /\ ForestInit => ServiceInv
<1> SUFFICES ASSUME ServiceInit, ForestInit PROVE ServiceInv OBVIOUS
<1>1. ControlsKept BY DEF ServiceInit, ControlsKept, NoRequest
<1>2. CoverBounded
  <2>1. CoverServed = {} BY DEF ServiceInit, CoverServed
  <2>2. IsFiniteSet({}) /\ Cardinality({}) = 0 BY FS_EmptySet
  <2>3. 0 <= MaxCover BY ServiceAssumption
  <2> QED BY <2>1, <2>2, <2>3 DEF ServiceInit, CoverBounded
<1>3. ProfilesOrdered
  <2>1. rotations = << >> /\ DOMAIN << >> = {} BY DEF ForestInit
  <2>2. rotations \in Seq(TrafficProfiles) /\ \A i \in DOMAIN rotations : FALSE BY <2>1
  <2>3. active \in TrafficProfiles /\ ProfileValid(active, 0) /\ forestNow = 0 BY DEF ForestInit
  <2> QED BY <2>2, <2>3 DEF ProfileValid, ProfilesOrdered, WellFormed
<1> QED BY <1>1, <1>2, <1>3 DEF ServiceInv

(* What a send adds to the channel, and what the loop takes from it.       *)
LEMMA ChannelSends ==
  ASSUME NEW q \in Seq(Controls), NEW control \in Controls
  PROVE  /\ Append(q, control) \in Seq(Controls)
         /\ \E i \in DOMAIN Append(q, control) : Append(q, control)[i] = control
         /\ \A d : (\E i \in DOMAIN q : q[i] = d) => \E i \in DOMAIN Append(q, control) : Append(q, control)[i] = d
<1> DEFINE p == Append(q, control)
<1>1. /\ p \in Seq(Controls) /\ Len(p) = Len(q) + 1 /\ p[Len(q) + 1] = control
      /\ \A i \in 1 .. Len(q) : p[i] = q[i]
  OBVIOUS
<1>2. DOMAIN q = 1 .. Len(q) /\ DOMAIN p = 1 .. Len(p) /\ Len(q) \in Nat BY <1>1
<1>3. DOMAIN q \subseteq DOMAIN p /\ Len(q) + 1 \in DOMAIN p BY <1>1, <1>2
<1> HIDE DEF p
<1>4. \A d : (\E i \in DOMAIN q : q[i] = d) => \E i \in DOMAIN p : p[i] = d BY <1>1, <1>2, <1>3
<1>5. \E i \in DOMAIN p : p[i] = control BY <1>1, <1>3
<1> QED BY <1>1, <1>4, <1>5 DEF p

(* ... every other control stays.                                          *)
LEMMA ChannelTakes ==
  ASSUME NEW q \in Seq(Controls), q # << >>
  PROVE  /\ Tail(q) \in Seq(Controls) /\ Head(q) \in Controls
         /\ \A d : (\E i \in DOMAIN q : q[i] = d) /\ Head(q) # d => \E i \in DOMAIN Tail(q) : Tail(q)[i] = d
<1>1. /\ Tail(q) \in Seq(Controls) /\ Head(q) \in Controls /\ Head(q) = q[1]
      /\ Len(Tail(q)) = Len(q) - 1 /\ Len(q) \in Nat \ {0}
      /\ \A i \in 1 .. Len(q) - 1 : Tail(q)[i] = q[i + 1]
  OBVIOUS
<1>2. ASSUME NEW i \in DOMAIN q, Head(q) # q[i]
      PROVE  \E j \in DOMAIN Tail(q) : Tail(q)[j] = q[i]
  <2>1. i \in 1 .. Len(q) /\ i # 1 BY <1>1, <1>2
  <2>2. i - 1 \in 1 .. Len(q) - 1 /\ (i - 1) + 1 = i BY <2>1, <1>1
  <2>3. i - 1 \in DOMAIN Tail(q) BY <2>2, <1>1
  <2> QED BY <2>2, <2>3, <1>1
<1> QED BY <1>1, <1>2

(* Admin requests and the loop that obeys them.                            *)
LEMMA ControlsStay == ASSUME ServiceInv, ServiceNext PROVE ControlsKept'
<1> USE DEF OnItsWay
<1>0. ControlsKept BY DEF ServiceInv
<1>1. CASE UNCHANGED <<serve, queue, draining, phase, request>>
  BY <1>0, <1>1 DEF ControlsKept
<1>2. CASE /\ serve' # "loop" /\ UNCHANGED <<phase, request>>
           /\ queue' = << >> \/ queue' = queue \/ (queue # << >> /\ queue' = Tail(queue))
  <2>1. queue' \in Seq(Controls)
    <3>1. queue \in Seq(Controls) BY <1>0 DEF ControlsKept
    <3>2. << >> \in Seq(Controls) OBVIOUS
    <3>3. queue # << >> => Tail(queue) \in Seq(Controls) BY <3>1, ChannelTakes
    <3> QED BY <1>2, <3>1, <3>2, <3>3
  <2> QED BY <1>0, <1>2, <2>1 DEF ControlsKept
<1>3. CASE AdminSpawns BY <1>3 DEF AdminSpawns, ControlsKept, NoRequest
<1>4. CASE \E r \in Requesters, what \in {"status", "drain", "shutdown", "other"} : AdminRequest(r, what)
  <2>1. PICK r \in Requesters, what \in {"status", "drain", "shutdown", "other"} : AdminRequest(r, what)
    BY <1>4
  <2>2. UNCHANGED <<serve, queue, draining, phase>> BY <2>1 DEF AdminRequest
  <2>3. PICK at \in {"sending", "answered"}, answer \in {"none", "running", "draining", "stopping", "error"} :
          /\ request' = [request EXCEPT ![r] = [at |-> at, what |-> what, answer |-> answer]]
          /\ at = "sending" <=> what \in Controls
    <3>1. CASE what = "status" BY <2>1, <3>1, <1>0 DEF AdminRequest, Controls, ControlsKept
    <3>2. CASE what \in Controls BY <2>1, <3>2 DEF AdminRequest, Controls
    <3>3. CASE what = "other" BY <2>1, <3>3 DEF AdminRequest, Controls
    <3> QED BY <3>1, <3>2, <3>3 DEF Controls
  <2>4. request'[r] = [at |-> at, what |-> what, answer |-> answer]
        /\ \A q \in Requesters \ {r} : request'[q] = request[q]
    BY <2>3, <1>0 DEF ControlsKept
  <2>5. request' \in [Requesters -> [at : {"none", "sending", "sent", "answered"},
                                 what : {"none", "status", "drain", "shutdown", "other"},
                                 answer : {"none", "running", "draining", "stopping", "error"}]]
    BY <2>3, <1>0 DEF ControlsKept
  <2> QED BY <2>2, <2>3, <2>4, <2>5, <1>0 DEF ControlsKept, Controls
<1>5. CASE \E r \in Requesters : ControlSent(r)
  <2>1. PICK r \in Requesters : ControlSent(r) BY <1>5
  <2>2. /\ request[r].at = "sending" /\ queue' = Append(queue, request[r].what)
        /\ request' = [request EXCEPT ![r].at = "sent"] /\ UNCHANGED <<serve, draining, phase>>
    BY <2>1 DEF ControlSent
  <2>3. request[r].what \in Controls BY <2>2, <1>0 DEF ControlsKept
  <2> PICK control \in Controls : control = request[r].what BY <2>3
  <2>4. /\ queue' \in Seq(Controls) /\ OnItsWay(control)'
        /\ \A d : OnItsWay(d) => OnItsWay(d)'
    <3>1. queue \in Seq(Controls) BY <1>0 DEF ControlsKept
    <3>2. queue' = Append(queue, control) BY <2>2
    <3> QED BY <3>1, <3>2, ChannelSends
  <2>5. /\ request'[r] = [request[r] EXCEPT !.at = "sent"]
        /\ \A q \in Requesters \ {r} : request'[q] = request[q]
        /\ request' \in [Requesters -> [at : {"none", "sending", "sent", "answered"},
                                 what : {"none", "status", "drain", "shutdown", "other"},
                                 answer : {"none", "running", "draining", "stopping", "error"}]]
    BY <2>2, <1>0 DEF ControlsKept
  <2>6. request'[r].at = "sent" /\ request'[r].what = control BY <2>5, <1>0 DEF ControlsKept
  <2> HIDE DEF OnItsWay
  <2> QED BY <2>2, <2>4, <2>5, <2>6, <1>0 DEF ControlsKept
<1>6. CASE \E r \in Requesters : ControlAnswered(r) \/ ControlClosed(r)
  <2>1. PICK r \in Requesters : ControlAnswered(r) \/ ControlClosed(r) BY <1>6
  <2>2. PICK answer \in {"draining", "stopping"} :
          request' = [request EXCEPT ![r].at = "answered", ![r].answer = answer]
    <3>1. CASE ControlAnswered(r)
      BY <3>1 DEF ControlAnswered
    <3>2. CASE ControlClosed(r) BY <3>2 DEF ControlClosed
    <3> QED BY <2>1, <3>1, <3>2
  <2>3. /\ UNCHANGED <<serve, queue, draining>> /\ phase' \in {phase, "draining", "stopping"}
        /\ serve = "loop" => request[r].at = "sent"
    BY <2>1 DEF ControlAnswered, ControlClosed
  <2>4. /\ request'[r] = [request[r] EXCEPT !.at = "answered", !.answer = answer]
        /\ \A q \in Requesters \ {r} : request'[q] = request[q]
        /\ request' \in [Requesters -> [at : {"none", "sending", "sent", "answered"},
                                 what : {"none", "status", "drain", "shutdown", "other"},
                                 answer : {"none", "running", "draining", "stopping", "error"}]]
    <3> DEFINE Asked == [at : {"none", "sending", "sent", "answered"},
                         what : {"none", "status", "drain", "shutdown", "other"},
                         answer : {"none", "running", "draining", "stopping", "error"}]
    <3>1. request \in [Requesters -> Asked] /\ request[r] \in Asked BY <1>0 DEF ControlsKept
    <3>2. [request[r] EXCEPT !.at = "answered", !.answer = answer] \in Asked BY ONLY <2>2, <3>1
    <3>3. request' = [request EXCEPT ![r] = [request[r] EXCEPT !.at = "answered", !.answer = answer]]
      BY <2>2, <3>1
    <3> HIDE DEF Asked
    <3>4. /\ request'[r] = [request[r] EXCEPT !.at = "answered", !.answer = answer]
          /\ \A q \in Requesters \ {r} : request'[q] = request[q]
          /\ request' \in [Requesters -> Asked]
      BY ONLY <3>1, <3>2, <3>3
    <3> QED BY <3>4 DEF Asked
  <2>5. request'[r].at = "answered" /\ request'[r].what = request[r].what
    <3>1. request[r] \in [at : {"none", "sending", "sent", "answered"},
                          what : {"none", "status", "drain", "shutdown", "other"},
                          answer : {"none", "running", "draining", "stopping", "error"}]
      BY <1>0 DEF ControlsKept
    <3> QED BY ONLY <2>4, <3>1
  <2>6. phase' \in {"running", "draining", "stopping"} BY <2>3, <1>0 DEF ControlsKept
  <2>7. queue' \in Seq(Controls) BY <2>3, <1>0 DEF ControlsKept
  <2>8. \A d : OnItsWay(d)' <=> OnItsWay(d) BY <2>3
  <2> HIDE DEF OnItsWay
  <2>9. \A q \in Requesters : request'[q].at = "sending" => request'[q].what \in Controls
    BY <2>4, <2>5, <1>0 DEF ControlsKept
  <2>10. \A q \in Requesters :
           serve' = "loop" /\ request'[q].at \in {"sent", "answered"} =>
             /\ request'[q].what = "drain" => draining' \/ OnItsWay("drain")'
             /\ request'[q].what = "shutdown" => OnItsWay("shutdown")'
    <3>1. \A q \in Requesters :
            serve = "loop" /\ request[q].at \in {"sent", "answered"} =>
              /\ request[q].what = "drain" => draining \/ OnItsWay("drain")
              /\ request[q].what = "shutdown" => OnItsWay("shutdown")
      BY <1>0 DEF ControlsKept
    <3>2. \A q \in Requesters :
            serve = "loop" /\ request'[q].at \in {"sent", "answered"} =>
              request[q].at \in {"sent", "answered"} /\ request'[q].what = request[q].what
      BY ONLY <2>3, <2>4, <2>5
    <3> QED BY <2>3, <2>8, <3>1, <3>2
  <2> QED BY <2>4, <2>6, <2>7, <2>9, <2>10 DEF ControlsKept
<1>7. CASE LoopTakes
  <2>1. /\ serve = "loop" /\ queue # << >> /\ queue' = Tail(queue)
        /\ draining' = (draining \/ Head(queue) = "drain")
        /\ serve' = IF Head(queue) = "shutdown" THEN "closing" ELSE "loop"
        /\ UNCHANGED <<phase, request>>
    BY <1>7 DEF LoopTakes
  <2>2. /\ queue' \in Seq(Controls) /\ Head(queue) \in Controls
        /\ \A d : OnItsWay(d) /\ Head(queue) # d => OnItsWay(d)'
    <3>1. queue \in Seq(Controls) BY <1>0 DEF ControlsKept
    <3> QED BY <3>1, <2>1, ChannelTakes
  <2> HIDE DEF OnItsWay
  <2>3. ASSUME NEW r \in Requesters, serve' = "loop", request'[r].at \in {"sent", "answered"}
        PROVE  /\ request'[r].what = "drain" => draining' \/ OnItsWay("drain")'
               /\ request'[r].what = "shutdown" => OnItsWay("shutdown")'
    BY <2>1, <2>2, <2>3, <1>0 DEF ControlsKept
  <2> QED BY <2>1, <2>2, <2>3, <1>0 DEF ControlsKept
<1>8. CASE Signal
  <2>1. queue' = Append(queue, "shutdown") /\ UNCHANGED <<serve, draining, phase, request>>
    BY <1>8 DEF Signal
  <2>2. queue' \in Seq(Controls) /\ \A d : OnItsWay(d) => OnItsWay(d)'
    BY <2>1, <1>0, ChannelSends DEF ControlsKept, Controls
  <2> HIDE DEF OnItsWay
  <2> QED BY <2>1, <2>2, <1>0 DEF ControlsKept
<1>9. CASE LoopDrained \/ ListenerReturns \/ ServeReturns \/ ServeFails \/ ServeBinds
  <2>1. /\ serve' # "loop" /\ UNCHANGED <<phase, request>> /\ queue' \in {<< >>, queue}
    BY <1>9 DEF LoopDrained, ListenerReturns, ServeReturns, ServeFails, ServeBinds, AdminUnchanged
  <2> QED BY <2>1, <1>2
<1>10. CASE Deploy \/ UninstallService \/ \E c \in CoverClients : CoverAccepts(c)
            \/ \E head \in CoverHeads, inTime, reached \in BOOLEAN : CoverEnds(c, head, inTime, reached)
  BY <1>10, <1>1 DEF Deploy, UninstallService, CoverAccepts, CoverEnds, AdminUnchanged
<1> QED BY <1>3, <1>4, <1>5, <1>6, <1>7, <1>8, <1>9, <1>10 DEF ServiceNext

(* The cover listener's connections.                                       *)
LEMMA CoverStays == ASSUME ServiceInv, ServiceNext PROVE CoverBounded'
<1>0. /\ CoverBounded /\ MaxCover \in Nat /\ Cardinality(CoverServed) \in Nat
      /\ IsFiniteSet({}) /\ Cardinality({}) = 0
  BY ServiceAssumption, FS_CardinalityType, FS_EmptySet DEF ServiceInv, CoverBounded
<1>1. CASE UNCHANGED coverClient /\ (serve' = "down" => serve = "down" /\ UNCHANGED coverTask)
  <2>1. CoverServed' = CoverServed BY <1>1 DEF CoverServed
  <2> QED BY <1>0, <1>1, <2>1 DEF CoverBounded
<1>2. CASE ServeFails \/ ServeReturns
  <2>1. ~coverTask' /\ coverClient' = [c \in CoverClients |-> IF coverClient[c] = "served" THEN "dropped"
                                                              ELSE coverClient[c]]
    BY <1>2 DEF ServeFails, ServeReturns
  <2>2. CoverServed' = {} BY <2>1 DEF CoverServed
  <2> QED BY <1>0, <2>1, <2>2 DEF CoverBounded
<1>3. CASE \E c \in CoverClients : CoverAccepts(c)
  <2>1. PICK c \in CoverClients : CoverAccepts(c) BY <1>3
  <2>2. coverTask /\ coverClient[c] = "none" /\ UNCHANGED <<serve, coverTask>>
        /\ coverClient' = [coverClient EXCEPT ![c] =
                             IF Cardinality(CoverServed) < MaxCover THEN "served" ELSE "dropped"]
    BY <2>1 DEF CoverAccepts
  <2>3. serve' # "down" BY <1>0, <2>2 DEF CoverBounded
  <2>4. DOMAIN coverClient' = CoverClients /\ coverClient' = [d \in CoverClients |-> coverClient'[d]]
    BY <1>0, <2>2 DEF CoverBounded
  <2>5. CASE Cardinality(CoverServed) < MaxCover
    <3>1. CoverServed' = CoverServed \cup {c} /\ c \notin CoverServed
      BY <1>0, <2>2, <2>5 DEF CoverServed, CoverBounded
    <3>2. IsFiniteSet(CoverServed') /\ Cardinality(CoverServed') = Cardinality(CoverServed) + 1
      BY <1>0, <3>1, FS_AddElement DEF CoverBounded
    <3>3. Cardinality(CoverServed') <= MaxCover BY <1>0, <2>5, <3>2
    <3> QED BY <2>3, <2>4, <3>2, <3>3 DEF CoverBounded
  <2>6. CASE ~(Cardinality(CoverServed) < MaxCover)
    <3>1. CoverServed' = CoverServed BY <1>0, <2>2, <2>6 DEF CoverServed, CoverBounded
    <3> QED BY <1>0, <2>3, <2>4, <3>1 DEF CoverBounded
  <2> QED BY <2>5, <2>6
<1>4. CASE \E c \in CoverClients, head \in CoverHeads, inTime, reached \in BOOLEAN :
             CoverEnds(c, head, inTime, reached)
  <2>1. PICK c \in CoverClients, head \in CoverHeads, inTime \in BOOLEAN, reached \in BOOLEAN :
          CoverEnds(c, head, inTime, reached)
    BY <1>4
  <2>2. /\ coverClient[c] = "served" /\ UNCHANGED <<serve, coverTask>>
        /\ coverClient' = [coverClient EXCEPT ![c] = CoverAnswer(cover, head, inTime, reached)]
    BY <2>1 DEF CoverEnds
  <2>3. CoverAnswer(cover, head, inTime, reached) # "served"
    BY DEF CoverAnswer, StaticAnswer
  <2>4. CoverServed' = CoverServed \ {c} /\ c \in CoverServed
    BY <1>0, <2>2, <2>3 DEF CoverServed, CoverBounded
  <2>5. IsFiniteSet(CoverServed') /\ Cardinality(CoverServed') = Cardinality(CoverServed) - 1
    BY <1>0, <2>4, FS_RemoveElement DEF CoverBounded
  <2>6. serve' # "down" BY <1>0, <2>2, <2>4 DEF CoverBounded
  <2>7. DOMAIN coverClient' = CoverClients /\ coverClient' = [d \in CoverClients |-> coverClient'[d]]
    BY <1>0, <2>2 DEF CoverBounded
  <2>8. Cardinality(CoverServed') <= MaxCover BY <1>0, <2>5 DEF CoverBounded
  <2> QED BY <2>5, <2>6, <2>7, <2>8 DEF CoverBounded
<1> QED
  BY <1>1, <1>2, <1>3, <1>4 DEF ServiceNext, ServeBinds, AdminSpawns, LoopTakes, LoopDrained, Signal,
     ListenerReturns, Deploy, UninstallService, AdminRequest, ControlSent, ControlAnswered,
     ControlClosed, CoverUnchanged

(* A rotation leaves only profiles that end earlier behind.                *)
LEMMA ProfilesStay == ASSUME ServiceInv, ForestNext PROVE ProfilesOrdered'
<1>0. ProfilesOrdered /\ MaxForestTime \in Nat BY ForestAssumption DEF ServiceInv
<1>1. CASE \E p \in TrafficProfiles : Rotate(p)
  <2>1. PICK p \in TrafficProfiles : Rotate(p) BY <1>1
  <2>2. /\ ProfileValid(p, forestNow) /\ p.expires > active.expires
        /\ active' = p /\ rotations' = Append(rotations, active) /\ forestNow' = forestNow
    BY <2>1 DEF Rotate
  <2>3. p.expires \in Nat /\ active.expires \in Nat
        /\ \A q \in TrafficProfiles : q.expires \in Nat
    BY <1>0, ForestAssumption DEF ProfilesOrdered
  <2>4. rotations \in Seq(TrafficProfiles) /\ active \in TrafficProfiles BY <1>0 DEF ProfilesOrdered
  <2>5. rotations' \in Seq(TrafficProfiles) /\ DOMAIN rotations' = 1 .. Len(rotations) + 1
        /\ rotations'[Len(rotations) + 1] = active
        /\ \A i \in 1 .. Len(rotations) : rotations'[i] = rotations[i] /\ rotations[i] \in TrafficProfiles
    BY <2>2, <2>4
  <2>6. ASSUME NEW i \in DOMAIN rotations' PROVE rotations'[i].expires < active'.expires
    <3>1. CASE i = Len(rotations) + 1 BY <3>1, <2>2, <2>3, <2>5
    <3>2. CASE i \in 1 .. Len(rotations)
      <4>1. rotations[i].expires < active.expires /\ rotations[i].expires \in Nat
        <5>1. i \in DOMAIN rotations BY <3>2, <2>4
        <5>2. rotations[i] \in TrafficProfiles BY <3>2, <2>5
        <5> QED BY <5>1, <5>2, <1>0, <2>3 DEF ProfilesOrdered
      <4> QED BY <4>1, <3>2, <2>2, <2>3, <2>5
    <3>3. Len(rotations) \in Nat BY <2>4
    <3> QED BY <3>1, <3>2, <3>3, <2>5
  <2>7. WellFormed(p) BY <2>2 DEF ProfileValid, WellFormed
  <2>8. active' \in TrafficProfiles /\ forestNow' \in Nat BY <1>0, <2>2 DEF ProfilesOrdered
  <2> QED BY <2>2, <2>5, <2>6, <2>7, <2>8 DEF ProfilesOrdered
<1>2. CASE DisableAfterFailure \/ Enable \/ ForestTick
  BY <1>0, <1>2 DEF DisableAfterFailure, Enable, ForestTick, ProfilesOrdered
<1> QED BY <1>1, <1>2 DEF ForestNext

(* ServiceInv is inductive.                                                *)
THEOREM ServiceInvariant == ServiceSpec => []ServiceInv
<1>1. ASSUME ServiceInv,
             [\/ ServiceNext /\ UNCHANGED forestVars
              \/ ForestNext /\ UNCHANGED serviceVars]_<<serviceVars, forestVars>>
      PROVE  ServiceInv'
  <2>1. UNCHANGED forestVars => ProfilesOrdered'
    BY <1>1 DEF ServiceInv, ProfilesOrdered, forestVars
  <2>2. UNCHANGED serviceVars => ControlsKept' /\ CoverBounded'
    BY <1>1 DEF ServiceInv, ControlsKept, CoverBounded, OnItsWay, CoverServed, serviceVars
  <2> QED BY <1>1, <2>1, <2>2, ControlsStay, CoverStays, ProfilesStay DEF ServiceInv
<1> QED BY <1>1, ServiceInitially, PTL DEF ServiceSpec

(* ServiceObeys for any number of requesters and cover clients, any size   *)
(* of the control channel and any profiles: a control that was confirmed   *)
(* is obeyed or in the channel (admin.rs, listener.rs), no more cover      *)
(* connections than the limit and none without the service, and a profile  *)
(* that was rotated out never returns (ProfileStore::rotate).              *)
THEOREM ServiceAlwaysObeys == ServiceSpec => []ServiceObeys
<1>1. ASSUME ServiceInv PROVE ServiceObeys
  <2>1. ControlsObeyed
    BY <1>1 DEF ServiceInv, ControlsKept, CoverBounded, ControlsObeyed, OnItsWay
  <2>2. NoProfileReturns
    <3>1. ASSUME NEW i \in DOMAIN rotations PROVE active # rotations[i]
      <4>1. rotations[i].expires < active.expires /\ active.expires \in Nat
        BY <1>1, ForestAssumption DEF ServiceInv, ProfilesOrdered
      <4> QED BY <4>1
    <3>2. ActiveProfile # NoProfile => ProfileValid(ActiveProfile, forestNow)
      BY <1>1 DEF ActiveProfile, ProfileValid, WellFormed, ServiceInv, ProfilesOrdered
    <3> QED BY <3>1, <3>2 DEF NoProfileReturns
  <2> QED BY <2>1, <2>2 DEF ServiceObeys
<1> QED BY <1>1, ServiceInvariant, PTL
----------------------------------------------------------------------------
(* The certificate files *)

CommandSteps == {"stage cert", "stage key", "backup cert", "backup key", "replace cert",
                 "replace key", "reload", "wait", "commit", "commit key", "undo cert",
                 "undo rest", "restore key", "restore cert"}
Command == [at : CommandSteps, kind : {"acme", "setup"}, pair : Nat,
            reload : BOOLEAN, had : [Halves -> BOOLEAN]]

(* No file is of a pair that was not made.                                 *)
FilesTyped ==
  /\ made \in Nat /\ good \in 0 .. made
  /\ live \in [Halves -> 0 .. made] /\ backup \in [Halves -> 0 .. made]
  /\ activation \in Command \cup {NoActivation}
  /\ activation.at # "idle" => activation.pair \in 1 .. made

(* A pair whose rollback may still be needed is the newest, not the one    *)
(* last in use; a pair that is committed is the one in use.                *)
PairsApart ==
  /\ activation.at \notin {"idle", "commit", "commit key"} => good < activation.pair
  /\ activation.at \in {"commit", "commit key"} =>
       good = activation.pair /\ \A h \in Halves : live[h] = good

(* What the command knows of the backups it made: `had` is what a commit   *)
(* or a rollback goes by.                                                  *)
Saved(h) == /\ activation.had[h] <=> live[h] # NoFile
            /\ activation.had[h] => backup[h] = live[h]
BackupsKnown ==
  /\ activation.at \in {"stage cert", "stage key", "backup cert"} =>
       \A h \in Halves : ~activation.had[h] /\ (activation.kind = "setup" => live[h] = NoFile)
  /\ activation.at = "backup key" => ~activation.had["key"] /\ Saved("cert")
  /\ activation.at = "replace cert" => \A h \in Halves : Saved(h)
  /\ activation.at \in {"replace key", "undo cert", "undo rest"} => Saved("key")
  /\ activation.at \in {"replace key", "undo cert", "reload", "wait", "restore key", "restore cert"} =>
       live["cert"] = activation.pair /\ (good # NoFile => backup["cert"] = good)
  /\ activation.at \in {"reload", "wait", "restore key"} =>
       live["key"] = activation.pair /\ (good # NoFile => backup["key"] = good)

(* Where the files on disk do not fit, a backup is of the good pair.       *)
BackupsGood ==
  good # NoFile /\ ~Fits(live) => \A h \in Halves : backup[h] \in {NoFile, good}

(* One request at most is waited for, and by the command that sent it.     *)
OneWaits ==
  /\ reloads \in Seq(BOOLEAN)
  /\ relay \in [running : BOOLEAN, socket : BOOLEAN, pair : [Halves -> Nat],
                loading : [cert : Nat, waited : BOOLEAN]]
  /\ relay.loading.cert = NoFile => ~relay.loading.waited
  /\ relay.loading.waited => activation.at = "wait" /\ \A i \in DOMAIN reloads : ~reloads[i]
  /\ \A i \in DOMAIN reloads : reloads[i] => activation.at = "wait"
  /\ \A i, j \in DOMAIN reloads : reloads[i] /\ reloads[j] => i = j
  /\ relay.running => Fits(relay.pair)

(* A confirmed reload stands until the next command begins.                *)
Confirmed ==
  reloaded =>
    /\ activation.at \in {"idle", "commit", "commit key"}
    /\ good # NoFile /\ \A h \in Halves : live[h] = good
    /\ relay.running => relay.pair = live

CertificateInv ==
  /\ FilesTyped /\ PairsApart /\ BackupsKnown /\ BackupsGood /\ GoodPairSurvives
  /\ OneWaits /\ Confirmed

(* No file, no command and no relay at first.                              *)
LEMMA FilesInitially == CertificateInit => CertificateInv
<1> SUFFICES ASSUME CertificateInit PROVE CertificateInv OBVIOUS
<1>1. FilesTyped BY DEF CertificateInit, FilesTyped, NoPair, NoFile, NoActivation
<1>2. PairsApart /\ BackupsKnown BY DEF CertificateInit, PairsApart, BackupsKnown, NoActivation
<1>3. BackupsGood /\ GoodPairSurvives /\ Confirmed
  BY DEF CertificateInit, BackupsGood, GoodPairSurvives, Confirmed, NoFile
<1>4. OneWaits
  <2>1. reloads = << >> /\ DOMAIN reloads = {} /\ reloads \in Seq(BOOLEAN) BY DEF CertificateInit
  <2> QED BY <2>1 DEF CertificateInit, OneWaits, NotLoading, NoFile, NoPair
<1> QED BY <1>1, <1>2, <1>3, <1>4 DEF CertificateInv

(* A command makes the newest pair.                                        *)
LEMMA CommandBegins ==
  ASSUME CertificateInv, NEW kind \in {"acme", "setup"}, NEW reload \in BOOLEAN,
         activation = NoActivation, made' = made + 1, kind = "setup" => live = NoPair,
         activation' = [at |-> "stage cert", kind |-> kind, pair |-> made + 1,
                        reload |-> reload, had |-> [h \in Halves |-> FALSE]],
         reloaded' = FALSE, UNCHANGED <<live, staged, backup, good, relay, reloads>>
  PROVE  CertificateInv'
<1>0. /\ FilesTyped /\ PairsApart /\ BackupsKnown /\ BackupsGood /\ GoodPairSurvives
      /\ OneWaits /\ Confirmed /\ made' = made + 1
  BY DEF CertificateInv
<1>1. FilesTyped'
  <2>1. made \in Nat /\ made' \in Nat /\ made + 1 \in 1 .. made'
    BY ONLY <1>0 DEF FilesTyped
  <2>2. activation' \in Command BY <2>1 DEF Command, CommandSteps
  <2>3. 0 .. made \subseteq 0 .. made' BY ONLY <1>0, <2>1
  <2>4. activation'.pair = made + 1 OBVIOUS
  <2>5. live' = live /\ backup' = backup /\ good' = good OBVIOUS
  <2>6. /\ live \in [Halves -> 0 .. made'] /\ backup \in [Halves -> 0 .. made']
        /\ good \in 0 .. made'
    BY ONLY <1>0, <2>3 DEF FilesTyped
  <2> QED BY ONLY <2>1, <2>2, <2>4, <2>5, <2>6 DEF FilesTyped
<1>2. PairsApart'
  <2>1. good < made + 1 BY ONLY <1>0 DEF FilesTyped
  <2>2. activation'.pair = made + 1 /\ activation'.at = "stage cert" /\ good' = good OBVIOUS
  <2> QED BY ONLY <2>1, <2>2 DEF PairsApart
<1>3. BackupsKnown' BY <1>0 DEF BackupsKnown, NoPair, Halves
<1>4. BackupsGood' /\ GoodPairSurvives' /\ Confirmed'
  BY <1>0 DEF BackupsGood, GoodPairSurvives, Confirmed, Fits
<1>5. activation.at # "wait" BY DEF NoActivation
<1>6. OneWaits' BY <1>0, <1>5 DEF OneWaits, Fits
<1> QED BY <1>1, <1>2, <1>3, <1>4, <1>6 DEF CertificateInv

(* Files of pairs that were made.                                          *)
FilesMade ==
  /\ made' = made /\ good' \in 0 .. made
  /\ live' \in [Halves -> 0 .. made] /\ backup' \in [Halves -> 0 .. made]

(* An unlinked file is a file as well.                                     *)
LEMMA NoFileTyped == ASSUME FilesTyped PROVE NoFile \in 0 .. made
<1>1. made \in Nat BY DEF FilesTyped
<1> QED BY ONLY <1>1 DEF NoFile

(* What a running command is.                                              *)
LEMMA CommandTyped ==
  ASSUME FilesTyped, activation.at # "idle"
  PROVE  /\ activation \in Command /\ activation.pair \in 1 .. made
         /\ activation.pair \in 0 .. made /\ activation.pair # NoFile
<1>1. activation \in Command /\ activation.pair \in 1 .. made
  BY DEF FilesTyped, NoActivation
<1> QED BY <1>1 DEF FilesTyped, NoFile

(* A command that goes on keeps all but its place.                         *)
LEMMA CommandMoves ==
  ASSUME FilesTyped, activation.at # "idle", FilesMade, NEW at \in CommandSteps, Goto(at)
  PROVE  /\ FilesTyped' /\ activation'.at = at /\ activation'.pair = activation.pair
         /\ activation'.kind = activation.kind /\ activation'.had = activation.had
<1>1. activation \in Command /\ activation.pair \in 1 .. made BY CommandTyped
<1>2. /\ activation' \in Command /\ activation'.at = at /\ activation'.pair = activation.pair
      /\ activation'.kind = activation.kind /\ activation'.had = activation.had
  BY <1>1 DEF Goto, Command
<1> QED BY <1>1, <1>2 DEF FilesTyped, FilesMade

(* Nothing is known of the backups without a command.                      *)
LEMMA CommandEnds ==
  ASSUME FilesTyped, FilesMade, Fails
  PROVE  FilesTyped' /\ PairsApart' /\ BackupsKnown' /\ activation'.at = "idle"
<1>1. activation' = NoActivation /\ activation'.at = "idle" BY DEF Fails, NoActivation
<1> QED BY <1>1 DEF FilesTyped, FilesMade, PairsApart, BackupsKnown

(* The relay is not concerned with a command that neither waits nor has    *)
(* put its pair into use.                                                  *)
LEMMA RelayApart ==
  ASSUME CertificateInv, UNCHANGED <<relay, reloads, reloaded>>,
         activation.at \notin {"idle", "wait", "commit", "commit key"}
  PROVE  OneWaits' /\ Confirmed'
<1>1. OneWaits /\ Confirmed BY DEF CertificateInv
<1>2. ~reloaded' BY <1>1 DEF Confirmed
<1>3. ~relay'.loading.waited /\ \A i \in DOMAIN reloads' : ~reloads'[i]
  BY <1>1 DEF OneWaits
<1> QED BY <1>1, <1>2, <1>3 DEF OneWaits, Confirmed, Fits

(* Staging touches no file in use.                                         *)
LEMMA StageKeeps ==
  ASSUME CertificateInv, NEW h \in Halves, NEW next \in {"stage key", "backup cert", "replace cert"},
         next = "replace cert" => activation.kind = "setup", Stage(h, next)
  PROVE  CertificateInv'
<1>1. FilesTyped /\ PairsApart /\ BackupsKnown /\ BackupsGood /\ GoodPairSurvives
  BY DEF CertificateInv
<1>2. activation.at \in {"stage cert", "stage key"} /\ next \in CommandSteps
  BY DEF Stage, CommandSteps
<1>3. OneWaits' /\ Confirmed' BY <1>2, RelayApart DEF Stage, RelayUnchanged
<1>4. UNCHANGED <<live, backup, made, good>> /\ (Goto(next) \/ Fails) BY DEF Stage, RelayUnchanged
<1>5. FilesMade BY <1>1, <1>4 DEF FilesMade, FilesTyped
<1>6. BackupsGood' /\ GoodPairSurvives' BY <1>1, <1>4 DEF BackupsGood, GoodPairSurvives, Fits
<1>7. CASE Fails BY <1>1, <1>3, <1>5, <1>6, <1>7, CommandEnds DEF CertificateInv
<1>8. CASE Goto(next)
  <2>1. /\ FilesTyped' /\ activation'.at = next /\ activation'.pair = activation.pair
        /\ activation'.kind = activation.kind /\ activation'.had = activation.had
    BY <1>1, <1>2, <1>5, <1>8, CommandMoves
  <2>2. PairsApart' BY <1>1, <1>2, <1>4, <2>1 DEF PairsApart
  <2>3. \A g \in Halves : ~activation'.had[g] /\ (activation'.kind = "setup" => live'[g] = NoFile)
    BY <1>1, <1>2, <1>4, <2>1 DEF BackupsKnown
  <2>4. next = "replace cert" => \A g \in Halves : Saved(g)' BY <2>1, <2>3 DEF Saved
  <2>5. BackupsKnown' BY <2>1, <2>3, <2>4 DEF BackupsKnown
  <2> QED BY <1>3, <1>6, <2>1, <2>2, <2>5 DEF CertificateInv
<1> QED BY <1>4, <1>7, <1>8

(* A half that was saved has its good file in the backup.                  *)
LEMMA SavedIsGood ==
  ASSUME GoodPairSurvives, good # NoFile, NEW h \in Halves, Saved(h)
  PROVE  backup[h] = good
BY DEF GoodPairSurvives, Saved

(* A backup that is being made is of the good pair, for there was none; a  *)
(* half whose backup fails is in its place.                                *)
LEMMA BackupKeeps ==
  ASSUME CertificateInv, NEW h \in Halves, NEW next,
         next = IF h = "cert" THEN "backup key" ELSE "replace cert", Backup(h, next)
  PROVE  CertificateInv'
<1>1. FilesTyped /\ PairsApart /\ BackupsKnown /\ BackupsGood /\ GoodPairSurvives
  BY DEF CertificateInv
<1>2. /\ activation.at = (IF h = "cert" THEN "backup cert" ELSE "backup key")
      /\ activation.at \notin {"idle", "wait", "commit", "commit key"}
      /\ next \in CommandSteps /\ next \in {"backup key", "replace cert"}
  BY DEF Backup, CommandSteps
<1>3. OneWaits' /\ Confirmed' BY <1>2, RelayApart DEF Backup, RelayUnchanged
<1>4. UNCHANGED <<live, made, good>> BY DEF Backup, RelayUnchanged
<1>5. /\ activation \in Command /\ activation.pair \in 1 .. made BY <1>1, <1>2, CommandTyped
<1>6. h \in {"cert", "key"} /\ Halves = {"cert", "key"} /\ NoFile \in 0 .. made
  BY <1>1, NoFileTyped DEF Halves
<1>7. h = "key" => Saved("cert") BY <1>1, <1>2 DEF BackupsKnown
<1>8. ASSUME NEW left \in LeftBehind(backup[h], live[h]), Fails,
             backup' = [backup EXCEPT ![h] = left,
                          !["cert"] = IF h = "key" /\ activation.had["cert"] THEN NoFile
                                      ELSE IF h = "cert" THEN left ELSE @]
      PROVE  CertificateInv'
  <2>1. /\ left \in 0 .. made /\ (left # NoFile /\ left # backup[h] => left = live[h])
        /\ (left # backup[h] => backup[h] = NoFile)
    BY <1>1, <1>6, <1>8 DEF LeftBehind, FilesTyped
  <2>2. /\ backup' \in [Halves -> 0 .. made] /\ backup'[h] = left
        /\ h = "key" => backup'["cert"] = IF activation.had["cert"] THEN NoFile ELSE backup["cert"]
        /\ h = "cert" => backup'["key"] = backup["key"]
    BY <1>1, <1>6, <1>8, <2>1 DEF FilesTyped
  <2>3. FilesMade BY <1>1, <1>4, <2>2 DEF FilesMade, FilesTyped
  <2>4. GoodPairSurvives'
    BY <1>1, <1>4, <1>6, <1>7, <2>1, <2>2 DEF GoodPairSurvives, Saved
  <2>5. BackupsGood'
    BY <1>1, <1>4, <1>6, <2>1, <2>2 DEF GoodPairSurvives, BackupsGood, Fits
  <2> QED BY <1>1, <1>3, <1>8, <2>3, <2>4, <2>5, CommandEnds DEF CertificateInv
<1>9. ASSUME live[h] # NoFile => backup[h] = NoFile,
             backup' = IF live[h] = NoFile THEN backup ELSE [backup EXCEPT ![h] = live[h]],
             activation' = [activation EXCEPT !.at = next, !.had[h] = live[h] # NoFile]
      PROVE  CertificateInv'
  <2>1. /\ backup' \in [Halves -> 0 .. made]
        /\ \A g \in Halves : g # h => backup'[g] = backup[g]
        /\ backup'[h] = IF live[h] = NoFile THEN backup[h] ELSE live[h]
    BY <1>1, <1>6, <1>9 DEF FilesTyped
  <2>2. /\ activation' \in Command /\ activation'.at = next /\ activation'.pair = activation.pair
        /\ activation'.kind = activation.kind
        /\ activation'.had = [activation.had EXCEPT ![h] = live[h] # NoFile]
    BY <1>2, <1>5, <1>9 DEF Command
  <2>3. /\ activation.had \in [Halves -> BOOLEAN]
        /\ \A g \in Halves : g # h => activation'.had[g] = activation.had[g]
        /\ activation'.had[h] <=> live[h] # NoFile
    BY <1>5, <2>2 DEF Command
  <2>4. FilesTyped' BY <1>1, <1>4, <1>5, <2>1, <2>2 DEF FilesTyped
  <2>5. GoodPairSurvives' /\ BackupsGood'
    BY <1>1, <1>4, <1>6, <1>9, <2>1 DEF GoodPairSurvives, BackupsGood, Fits
  <2>6. PairsApart' BY <1>1, <1>2, <1>4, <2>2 DEF PairsApart
  <2>7. Saved(h)' BY <1>4, <2>1, <2>3 DEF Saved
  <2>8. h = "key" => Saved("cert")' BY <1>4, <1>6, <1>7, <2>1, <2>3 DEF Saved
  <2>9. h = "cert" => ~activation'.had["key"] BY <1>1, <1>2, <1>6, <2>3 DEF BackupsKnown
  <2>10. BackupsKnown' BY <1>2, <1>6, <2>2, <2>7, <2>8, <2>9 DEF BackupsKnown
  <2> QED BY <1>3, <2>4, <2>5, <2>6, <2>10 DEF CertificateInv
<1> QED BY <1>8, <1>9 DEF Backup

(* The certificate is replaced only once both halves are saved.            *)
LEMMA ReplaceCertificateKeeps == ASSUME CertificateInv, ReplaceCertificate PROVE CertificateInv'
<1>1. FilesTyped /\ PairsApart /\ BackupsKnown /\ BackupsGood /\ GoodPairSurvives
  BY DEF CertificateInv
<1>2. /\ activation.at = "replace cert" /\ "replace key" \in CommandSteps
      /\ activation.at \notin {"idle", "wait", "commit", "commit key"}
      /\ Halves = {"cert", "key"} /\ NoFile \in 0 .. made
  BY <1>1, NoFileTyped DEF ReplaceCertificate, CommandSteps, Halves
<1>3. OneWaits' /\ Confirmed' BY <1>2, RelayApart DEF ReplaceCertificate, RelayUnchanged
<1>4. UNCHANGED <<made, good>> BY DEF ReplaceCertificate, RelayUnchanged
<1>5. /\ activation \in Command /\ activation.pair \in 0 .. made /\ activation.pair # NoFile
      /\ good < activation.pair
  BY <1>1, <1>2, CommandTyped DEF PairsApart
<1>6. \A h \in Halves : Saved(h) BY <1>1, <1>2 DEF BackupsKnown
<1>7. good # NoFile => \A h \in Halves : backup[h] = good BY <1>1, <1>6, SavedIsGood
<1>8. ASSUME backup' = DropBackups, Fails, UNCHANGED live PROVE CertificateInv'
  <2>1. /\ backup' \in [Halves -> 0 .. made]
        /\ \A h \in Halves : backup'[h] = IF activation.had[h] THEN NoFile ELSE backup[h]
    BY <1>1, <1>2, <1>8 DEF DropBackups, FilesTyped
  <2>2. FilesMade BY <1>1, <1>4, <1>8, <2>1 DEF FilesMade, FilesTyped
  <2>3. GoodPairSurvives' BY <1>1, <1>4, <1>6, <1>8, <2>1 DEF GoodPairSurvives, Saved
  <2>4. BackupsGood' BY <1>1, <1>4, <1>8, <2>1 DEF BackupsGood, Fits
  <2> QED BY <1>1, <1>3, <1>8, <2>2, <2>3, <2>4, CommandEnds DEF CertificateInv
<1>9. ASSUME live' = [live EXCEPT !["cert"] = activation.pair], Goto("replace key"), UNCHANGED backup
      PROVE  CertificateInv'
  <2>1. /\ live' \in [Halves -> 0 .. made]
        /\ live'["cert"] = activation.pair /\ live'["key"] = live["key"]
    BY <1>1, <1>2, <1>5, <1>9 DEF FilesTyped
  <2>2. FilesMade BY <1>1, <1>4, <1>9, <2>1 DEF FilesMade, FilesTyped
  <2>3. /\ FilesTyped' /\ activation'.at = "replace key" /\ activation'.pair = activation.pair
        /\ activation'.kind = activation.kind /\ activation'.had = activation.had
    BY <1>1, <1>2, <1>9, <2>2, CommandMoves
  <2>4. GoodPairSurvives' /\ BackupsGood'
    BY <1>4, <1>7, <1>9 DEF GoodPairSurvives, BackupsGood
  <2>5. PairsApart' BY <1>4, <1>5, <2>3 DEF PairsApart
  <2>6. Saved("key")' BY <1>2, <1>6, <1>9, <2>1, <2>3 DEF Saved
  <2>7. BackupsKnown' BY <1>2, <1>4, <1>7, <1>9, <2>1, <2>3, <2>6 DEF BackupsKnown
  <2> QED BY <1>3, <2>3, <2>4, <2>5, <2>7 DEF CertificateInv
<1> QED BY <1>8, <1>9 DEF ReplaceCertificate

(* The pair of a command that may still be rolled back is not in use.      *)
LEMMA PairNotInUse ==
  ASSUME FilesTyped, PairsApart, activation.at \notin {"idle", "commit", "commit key"}
  PROVE  activation.pair # NoFile /\ good < activation.pair /\ good # activation.pair
<1>1. activation.pair # NoFile /\ activation.pair \in 1 .. made /\ good < activation.pair
  BY CommandTyped DEF PairsApart
<1>2. good \in Nat /\ made \in Nat
  <2>1. made \in Nat /\ good \in 0 .. made BY DEF FilesTyped
  <2> QED BY ONLY <2>1
<1>3. activation.pair \in Nat BY ONLY <1>1, <1>2
<1> QED BY ONLY <1>1, <1>2, <1>3

(* A whole new pair is in place: it waits for the relay, or is in use.     *)
LEMMA ReplaceKeyKeeps ==
  ASSUME CertificateInv, ReplaceKey \/ ReplaceKeyFails PROVE CertificateInv'
<1>1. FilesTyped /\ PairsApart /\ BackupsKnown /\ BackupsGood /\ GoodPairSurvives
  BY DEF CertificateInv
<1>2. /\ activation.at = "replace key"
      /\ {"reload", "commit", "undo cert"} \subseteq CommandSteps
      /\ activation.at \notin {"idle", "wait", "commit", "commit key"}
      /\ Halves = {"cert", "key"}
  BY DEF ReplaceKey, ReplaceKeyFails, CommandSteps, Halves
<1>3. OneWaits' /\ Confirmed' BY <1>2, RelayApart DEF ReplaceKey, ReplaceKeyFails, RelayUnchanged
<1>4. UNCHANGED <<made, backup>> BY DEF ReplaceKey, ReplaceKeyFails, RelayUnchanged
<1>5. /\ activation \in Command /\ activation.pair \in 0 .. made /\ activation.pair # NoFile
      /\ good < activation.pair /\ live["cert"] = activation.pair /\ Saved("key")
      /\ good # NoFile => backup["cert"] = good
  BY <1>1, <1>2, CommandTyped DEF PairsApart, BackupsKnown
<1>6. good # NoFile => \A h \in Halves : backup[h] = good BY <1>1, <1>2, <1>5, SavedIsGood
<1>7. CASE ReplaceKeyFails
  <2>1. UNCHANGED <<live, good>> /\ Goto("undo cert") BY <1>7 DEF ReplaceKeyFails, RelayUnchanged
  <2>2. FilesMade BY <1>1, <1>4, <2>1 DEF FilesMade, FilesTyped
  <2>3. /\ FilesTyped' /\ activation'.at = "undo cert" /\ activation'.pair = activation.pair
        /\ activation'.kind = activation.kind /\ activation'.had = activation.had
    BY <1>1, <1>2, <2>1, <2>2, CommandMoves
  <2>4. GoodPairSurvives' /\ BackupsGood' BY <1>4, <1>6, <2>1 DEF GoodPairSurvives, BackupsGood
  <2>5. PairsApart' BY <1>5, <2>1, <2>3 DEF PairsApart
  <2>6. Saved("key")' BY <1>4, <1>5, <2>1, <2>3 DEF Saved
  <2>7. BackupsKnown' BY <1>4, <1>5, <2>1, <2>3, <2>6 DEF BackupsKnown
  <2> QED BY <1>3, <2>3, <2>4, <2>5, <2>7 DEF CertificateInv
<1>8. CASE ReplaceKey
  <2> DEFINE next == IF activation.reload THEN "reload" ELSE "commit"
  <2>1. /\ live' = [live EXCEPT !["key"] = activation.pair] /\ Goto(next)
        /\ good' = IF activation.reload THEN good ELSE activation.pair
        /\ next \in CommandSteps /\ activation.reload \in BOOLEAN
    BY <1>2, <1>5, <1>8 DEF ReplaceKey, Command
  <2>2. /\ live' \in [Halves -> 0 .. made] /\ \A h \in Halves : live'[h] = activation.pair
    BY <1>1, <1>2, <1>5, <2>1 DEF FilesTyped
  <2>3. FilesMade BY <1>1, <1>4, <1>5, <2>1, <2>2 DEF FilesMade, FilesTyped
  <2>4. /\ FilesTyped' /\ activation'.at = next /\ activation'.pair = activation.pair
        /\ activation'.kind = activation.kind /\ activation'.had = activation.had
    <3> HIDE DEF next
    <3> QED BY <1>1, <1>2, <2>1, <2>3, CommandMoves
  <2>5. Fits(live') BY <1>2, <1>5, <2>2 DEF Fits
  <2>6. BackupsGood' BY <2>5 DEF BackupsGood, Fits
  <2>7. GoodPairSurvives' BY <1>4, <1>6, <2>1, <2>2 DEF GoodPairSurvives
  <2>8. PairsApart' BY <1>5, <2>1, <2>2, <2>4 DEF PairsApart
  <2>9. BackupsKnown'
    BY <1>2, <1>4, <1>6, <2>1, <2>2, <2>4 DEF BackupsKnown
  <2> QED BY <1>3, <2>4, <2>6, <2>7, <2>8, <2>9 DEF CertificateInv
<1> QED BY <1>7, <1>8

(* A commit drops backups of a pair that is no longer in use.              *)
LEMMA CommitKeeps ==
  ASSUME CertificateInv, NEW h \in Halves, NEW next,
         next = IF h = "cert" THEN "commit key" ELSE "idle", Commit(h, next)
  PROVE  CertificateInv'
<1>1. FilesTyped /\ PairsApart /\ BackupsKnown /\ OneWaits /\ Confirmed BY DEF CertificateInv
<1>2. activation.at \in {"commit", "commit key"} /\ activation.at # "idle" /\ activation.at # "wait"
  BY DEF Commit
<1>3. UNCHANGED <<live, made, good, relay, reloads, reloaded>> BY DEF Commit, RelayUnchanged
<1>4. /\ activation \in Command /\ activation.pair # NoFile
      /\ good = activation.pair /\ \A g \in Halves : live[g] = good
  BY <1>1, <1>2, CommandTyped DEF PairsApart
<1>5. backup' \in [Halves -> 0 .. made]
  BY <1>1, NoFileTyped DEF Commit, Unlinked, FilesTyped
<1>6. FilesMade BY <1>1, <1>3, <1>5 DEF FilesMade, FilesTyped
<1>7. GoodPairSurvives' BY <1>3, <1>4 DEF GoodPairSurvives
<1>8. BackupsGood' BY <1>3, <1>4 DEF BackupsGood, Fits, Halves
<1>9. OneWaits' BY <1>1, <1>2, <1>3 DEF OneWaits, Fits
<1>10. FilesTyped' /\ PairsApart' /\ BackupsKnown' /\ activation'.at \in {"idle", "commit key"}
  <2>1. CASE next = "idle"
    <3>1. Fails BY <2>1 DEF Commit, Fails
    <3> QED BY <1>1, <1>6, <3>1, CommandEnds
  <2>2. CASE next # "idle"
    <3>1. Goto("commit key") /\ "commit key" \in CommandSteps BY <2>2 DEF Commit, Goto, CommandSteps
    <3>2. FilesTyped' /\ activation'.at = "commit key" /\ activation'.pair = activation.pair
      BY <1>1, <1>2, <1>6, <3>1, CommandMoves
    <3> QED BY <1>3, <1>4, <3>2 DEF PairsApart, BackupsKnown
  <2> QED BY <2>1, <2>2
<1>11. Confirmed' BY <1>1, <1>3, <1>10 DEF Confirmed
<1> QED BY <1>7, <1>8, <1>9, <1>10, <1>11 DEF CertificateInv

(* restore_file on one half, with the good file as its backup.             *)
LEMMA RestoredHalf ==
  ASSUME FilesTyped, NEW h \in Halves, Restored(h), good' = good, good # NoFile => backup[h] = good
  PROVE  /\ live' \in [Halves -> 0 .. made] /\ backup' \in [Halves -> 0 .. made]
         /\ \A g \in Halves : g # h => live'[g] = live[g] /\ backup'[g] = backup[g]
         /\ good # NoFile => good \in {live'[h], backup'[h]} /\ backup'[h] \in {NoFile, good}
<1>1. NoFile \in 0 .. made BY NoFileTyped
<1>2. CASE UNCHANGED <<live, backup>> BY <1>2 DEF FilesTyped
<1>3. CASE /\ live' = [live EXCEPT ![h] = IF activation.had[h] THEN backup[h] ELSE NoFile]
           /\ backup' = IF activation.had[h] THEN Unlinked(backup, h) ELSE backup
  BY <1>1, <1>3 DEF FilesTyped, Unlinked
<1> QED BY <1>2, <1>3 DEF Restored

(* The certificate goes back where the key could not be replaced.          *)
LEMMA UndoKeeps == ASSUME CertificateInv, UndoCertificate \/ UndoRest PROVE CertificateInv'
<1>1. FilesTyped /\ PairsApart /\ BackupsKnown /\ BackupsGood /\ GoodPairSurvives
  BY DEF CertificateInv
<1>2. /\ activation.at \in {"undo cert", "undo rest"} /\ "undo rest" \in CommandSteps
      /\ activation.at \notin {"idle", "wait", "commit", "commit key"}
      /\ Halves = {"cert", "key"}
  BY DEF UndoCertificate, UndoRest, CommandSteps, Halves
<1>3. OneWaits' /\ Confirmed' BY <1>2, RelayApart DEF UndoCertificate, UndoRest, RelayUnchanged
<1>4. UNCHANGED <<made, good>> BY DEF UndoCertificate, UndoRest, RelayUnchanged
<1>5. /\ activation.pair # NoFile /\ good < activation.pair /\ Saved("key")
  BY <1>1, <1>2, PairNotInUse DEF BackupsKnown
<1>6. CASE UndoCertificate
  <2>1. /\ activation.at = "undo cert" /\ Goto("undo rest") /\ Restored("cert")
        /\ live["cert"] = activation.pair /\ (good # NoFile => backup["cert"] = good)
    BY <1>1, <1>6 DEF UndoCertificate, BackupsKnown
  <2>2. /\ live' \in [Halves -> 0 .. made] /\ backup' \in [Halves -> 0 .. made]
        /\ live'["key"] = live["key"] /\ backup'["key"] = backup["key"]
        /\ good # NoFile => good \in {live'["cert"], backup'["cert"]} /\ backup'["cert"] \in {NoFile, good}
    BY <1>1, <1>2, <1>4, <2>1, RestoredHalf
  <2>3. FilesMade BY <1>1, <1>4, <2>2 DEF FilesMade, FilesTyped
  <2>4. /\ FilesTyped' /\ activation'.at = "undo rest" /\ activation'.pair = activation.pair
        /\ activation'.kind = activation.kind /\ activation'.had = activation.had
    BY <1>1, <1>2, <2>1, <2>3, CommandMoves
  <2>5. good # NoFile => backup["key"] = good BY <1>1, <1>2, <1>5, SavedIsGood
  <2>6. GoodPairSurvives' BY <1>1, <1>2, <1>4, <2>2 DEF GoodPairSurvives
  <2>7. BackupsGood' BY <1>2, <1>4, <2>2, <2>5 DEF BackupsGood
  <2>8. PairsApart' BY <1>4, <1>5, <2>4 DEF PairsApart
  <2>9. Saved("key")' BY <1>5, <2>2, <2>4 DEF Saved
  <2>10. BackupsKnown' BY <2>4, <2>9 DEF BackupsKnown
  <2> QED BY <1>3, <2>4, <2>6, <2>7, <2>8, <2>10 DEF CertificateInv
<1>7. CASE UndoRest
  <2>1. /\ live' = live /\ Fails
        /\ backup' = IF activation.had["key"] THEN Unlinked(backup, "key") ELSE backup
    BY <1>7 DEF UndoRest
  <2>2. /\ backup' \in [Halves -> 0 .. made] /\ backup'["cert"] = backup["cert"]
        /\ backup'["key"] = IF activation.had["key"] THEN NoFile ELSE backup["key"]
    BY <1>1, <1>2, <2>1, NoFileTyped DEF FilesTyped, Unlinked
  <2>3. FilesMade BY <1>1, <1>4, <2>1, <2>2 DEF FilesMade, FilesTyped
  <2>4. GoodPairSurvives' BY <1>1, <1>2, <1>4, <1>5, <2>1, <2>2 DEF GoodPairSurvives, Saved
  <2>5. BackupsGood' BY <1>1, <1>2, <1>4, <2>1, <2>2 DEF BackupsGood, Fits
  <2> QED BY <1>1, <1>3, <2>1, <2>3, <2>4, <2>5, CommandEnds DEF CertificateInv
<1> QED BY <1>6, <1>7

(* A rollback, whichever half it restores.                                 *)
LEMMA RestoreKeeps == ASSUME CertificateInv, NEW h \in Halves, Restore(h) PROVE CertificateInv'
<1>1. FilesTyped /\ PairsApart /\ BackupsKnown /\ BackupsGood /\ GoodPairSurvives
  BY DEF CertificateInv
<1>2. /\ activation.at = (IF h = "cert" THEN "restore cert" ELSE "restore key")
      /\ "restore cert" \in CommandSteps
      /\ activation.at \notin {"idle", "wait", "commit", "commit key"}
      /\ Halves = {"cert", "key"}
  BY DEF Restore, CommandSteps, Halves
<1>3. OneWaits' /\ Confirmed' BY <1>2, RelayApart DEF Restore, RelayUnchanged
<1>4. UNCHANGED <<made, good>> /\ Restored(h) BY DEF Restore, RelayUnchanged
<1>5. /\ activation.pair # NoFile /\ good < activation.pair /\ good # activation.pair
  BY <1>1, <1>2, PairNotInUse
<1>6. /\ live["cert"] = activation.pair /\ (good # NoFile => backup["cert"] = good)
      /\ h = "key" => live["key"] = activation.pair /\ (good # NoFile => backup["key"] = good)
  BY <1>1, <1>2 DEF BackupsKnown
<1>7. /\ live' \in [Halves -> 0 .. made] /\ backup' \in [Halves -> 0 .. made]
      /\ \A g \in Halves : g # h => live'[g] = live[g] /\ backup'[g] = backup[g]
      /\ good # NoFile => good \in {live'[h], backup'[h]} /\ backup'[h] \in {NoFile, good}
  BY <1>1, <1>2, <1>4, <1>6, RestoredHalf
<1>8. FilesMade BY <1>1, <1>4, <1>7 DEF FilesMade, FilesTyped
<1>9. good # NoFile => backup["key"] \in {NoFile, good}
  <2>1. CASE live["key"] = activation.pair BY <1>1, <1>2, <1>5, <2>1 DEF GoodPairSurvives
  <2>2. CASE live["key"] # activation.pair
    <3>1. ~Fits(live) BY <1>6, <2>2 DEF Fits
    <3> QED BY <1>1, <1>2, <3>1 DEF BackupsGood
  <2> QED BY <2>1, <2>2
<1>10. BackupsGood' BY <1>2, <1>4, <1>6, <1>7, <1>9 DEF BackupsGood
<1>11. GoodPairSurvives' BY <1>1, <1>2, <1>4, <1>7 DEF GoodPairSurvives
<1>12. CASE h = "cert"
  <2>1. Fails BY <1>12 DEF Restore, Fails
  <2> QED BY <1>1, <1>3, <1>8, <1>10, <1>11, <2>1, CommandEnds DEF CertificateInv
<1>13. CASE h = "key"
  <2>1. Goto("restore cert") BY <1>13 DEF Restore, Goto
  <2>2. /\ FilesTyped' /\ activation'.at = "restore cert" /\ activation'.pair = activation.pair
        /\ activation'.kind = activation.kind /\ activation'.had = activation.had
    BY <1>1, <1>2, <1>8, <2>1, CommandMoves
  <2>3. PairsApart' BY <1>4, <1>5, <2>2 DEF PairsApart
  <2>4. BackupsKnown' BY <1>2, <1>4, <1>6, <1>7, <1>13, <2>2 DEF BackupsKnown
  <2> QED BY <1>3, <1>10, <1>11, <2>2, <2>3, <2>4 DEF CertificateInv
<1> QED BY <1>2, <1>12, <1>13

(* What the steps between a command and the relay say of the files.        *)
DiskInv == FilesTyped /\ PairsApart /\ BackupsKnown /\ BackupsGood /\ GoodPairSurvives

(* The relay changes no file.                                              *)
LEMMA DiskStays ==
  ASSUME DiskInv, UNCHANGED <<live, backup, made, good, activation>> PROVE DiskInv'
<1>1. FilesTyped' /\ PairsApart' BY DEF DiskInv, FilesTyped, PairsApart
<1>2. BackupsKnown' BY DEF DiskInv, BackupsKnown, Saved
<1>3. BackupsGood' /\ GoodPairSurvives' BY DEF DiskInv, BackupsGood, GoodPairSurvives, Fits
<1> QED BY <1>1, <1>2, <1>3 DEF DiskInv

(* A command that asked for a reload waits for it or rolls back.           *)
LEMMA DiskWaits ==
  ASSUME DiskInv, UNCHANGED <<live, backup, made, good>>,
         activation.at \in {"reload", "wait"}, NEW at \in {"wait", "restore key"}, Goto(at)
  PROVE  DiskInv' /\ activation'.at = at
<1>1. FilesTyped /\ PairsApart /\ BackupsKnown /\ BackupsGood /\ GoodPairSurvives BY DEF DiskInv
<1>2. FilesMade BY <1>1 DEF FilesMade, FilesTyped
<1>3. /\ FilesTyped' /\ activation'.at = at /\ activation'.pair = activation.pair
      /\ activation'.kind = activation.kind /\ activation'.had = activation.had
  BY <1>1, <1>2, CommandMoves DEF CommandSteps
<1>4. PairsApart' BY <1>1, <1>3 DEF PairsApart
<1>5. BackupsKnown' BY <1>1, <1>3 DEF BackupsKnown
<1>6. BackupsGood' /\ GoodPairSurvives' BY <1>1 DEF BackupsGood, GoodPairSurvives, Fits
<1> QED BY <1>3, <1>4, <1>5, <1>6 DEF DiskInv

(* A command that died or timed out is not waited for: nobody is.          *)
LEMMA NobodyWaits ==
  ASSUME OneWaits, reloads' = [i \in DOMAIN reloads |-> FALSE],
         relay' = [relay EXCEPT !.loading.waited = FALSE]
  PROVE  /\ OneWaits' /\ relay'.running = relay.running /\ relay'.pair = relay.pair
<1>1. reloads \in Seq(BOOLEAN) BY DEF OneWaits
<1>2. DOMAIN reloads = 1 .. Len(reloads) /\ Len(reloads) \in Nat BY <1>1
<1>3. reloads' \in Seq(BOOLEAN) /\ DOMAIN reloads' = DOMAIN reloads
  <2>1. reloads' \in [1 .. Len(reloads) -> BOOLEAN] BY <1>2
  <2> QED BY <1>2, <2>1
<1>4. \A i \in DOMAIN reloads' : ~reloads'[i] BY <1>3
<1>5. relay \in [running : BOOLEAN, socket : BOOLEAN, pair : [Halves -> Nat],
                 loading : [cert : Nat, waited : BOOLEAN]]
  BY DEF OneWaits
<1>6. /\ relay' \in [running : BOOLEAN, socket : BOOLEAN, pair : [Halves -> Nat],
                     loading : [cert : Nat, waited : BOOLEAN]]
      /\ ~relay'.loading.waited /\ relay'.running = relay.running /\ relay'.pair = relay.pair
  BY <1>5
<1> QED BY <1>3, <1>4, <1>6 DEF OneWaits, Fits

(* What the relay takes from the queue of reloads.                         *)
LEMMA ReloadTaken ==
  ASSUME NEW q \in Seq(BOOLEAN), q # << >>
  PROVE  /\ Tail(q) \in Seq(BOOLEAN) /\ Head(q) \in BOOLEAN /\ Head(q) = q[1] /\ 1 \in DOMAIN q
         /\ \A i \in DOMAIN Tail(q) : i + 1 \in DOMAIN q /\ i + 1 # 1 /\ Tail(q)[i] = q[i + 1] /\ i \in Nat
<1>1. /\ Tail(q) \in Seq(BOOLEAN) /\ Head(q) \in BOOLEAN /\ Head(q) = q[1]
      /\ Len(Tail(q)) = Len(q) - 1 /\ Len(q) \in Nat \ {0}
      /\ \A i \in 1 .. Len(q) - 1 : Tail(q)[i] = q[i + 1]
  OBVIOUS
<1>2. DOMAIN q = 1 .. Len(q) /\ DOMAIN Tail(q) = 1 .. Len(q) - 1 BY <1>1
<1>3. \A i \in 1 .. Len(q) - 1 : i \in Nat /\ i + 1 \in 1 .. Len(q) /\ i + 1 # 1 BY <1>1
<1> QED BY <1>1, <1>2, <1>3

(* Of what is left nobody waits for more than one, and for none if the one *)
(* taken was waited for.                                                   *)
LEMMA OneWaitsOn ==
  ASSUME OneWaits, reloads # << >>
  PROVE  /\ Tail(reloads) \in Seq(BOOLEAN) /\ Head(reloads) \in BOOLEAN
         /\ Head(reloads) => activation.at = "wait" /\ \A i \in DOMAIN Tail(reloads) : ~Tail(reloads)[i]
         /\ \A i \in DOMAIN Tail(reloads) : Tail(reloads)[i] => activation.at = "wait"
         /\ \A i, j \in DOMAIN Tail(reloads) : Tail(reloads)[i] /\ Tail(reloads)[j] => i = j
         /\ relay.loading.waited => \A i \in DOMAIN Tail(reloads) : ~Tail(reloads)[i]
<1>1. /\ reloads \in Seq(BOOLEAN)
      /\ \A i \in DOMAIN reloads : reloads[i] => activation.at = "wait"
      /\ \A i, j \in DOMAIN reloads : reloads[i] /\ reloads[j] => i = j
      /\ relay.loading.waited => \A i \in DOMAIN reloads : ~reloads[i]
  BY DEF OneWaits
<1>2. /\ Tail(reloads) \in Seq(BOOLEAN) /\ Head(reloads) \in BOOLEAN /\ Head(reloads) = reloads[1]
      /\ 1 \in DOMAIN reloads
      /\ \A i \in DOMAIN Tail(reloads) : i + 1 \in DOMAIN reloads /\ i + 1 # 1
                                          /\ Tail(reloads)[i] = reloads[i + 1] /\ i \in Nat
  BY <1>1, ReloadTaken
<1> DEFINE rest == Tail(reloads)
<1>3. \A i \in DOMAIN rest : i + 1 \in DOMAIN reloads /\ i + 1 # 1 /\ rest[i] = reloads[i + 1] /\ i \in Nat
  BY <1>2
<1> HIDE DEF rest
<1>4. \A i, j \in DOMAIN rest : rest[i] /\ rest[j] => i = j
  <2> SUFFICES ASSUME NEW i \in DOMAIN rest, NEW j \in DOMAIN rest, rest[i], rest[j] PROVE i = j
    OBVIOUS
  <2>1. i + 1 = j + 1 /\ i \in Nat /\ j \in Nat BY <1>1, <1>3
  <2> QED BY ONLY <2>1
<1>5. \A i \in DOMAIN rest : rest[i] => activation.at = "wait" BY <1>1, <1>3
<1>6. relay.loading.waited => \A i \in DOMAIN rest : ~rest[i] BY <1>1, <1>3
<1>7. Head(reloads) => activation.at = "wait" /\ \A i \in DOMAIN rest : ~rest[i]
  BY <1>1, <1>2, <1>3
<1> QED BY <1>2, <1>4, <1>5, <1>6, <1>7 DEF rest

(* A command that dies leaves the files as they are.                       *)
LEMMA ActivationDiesKeeps == ASSUME CertificateInv, ActivationDies PROVE CertificateInv'
<1>1. FilesTyped /\ BackupsGood /\ GoodPairSurvives /\ OneWaits /\ Confirmed BY DEF CertificateInv
<1>2. Fails /\ UNCHANGED <<live, backup, made, good, reloaded>> BY DEF ActivationDies
<1>3. FilesMade BY <1>1, <1>2 DEF FilesMade, FilesTyped
<1>4. FilesTyped' /\ PairsApart' /\ BackupsKnown' /\ activation'.at = "idle"
  BY <1>1, <1>2, <1>3, CommandEnds
<1>5. BackupsGood' /\ GoodPairSurvives' BY <1>1, <1>2 DEF BackupsGood, GoodPairSurvives, Fits
<1>6. OneWaits' /\ relay'.running = relay.running /\ relay'.pair = relay.pair
  BY <1>1, NobodyWaits DEF ActivationDies
<1>7. Confirmed' BY <1>1, <1>2, <1>4, <1>6 DEF Confirmed
<1> QED BY <1>4, <1>5, <1>6, <1>7 DEF CertificateInv

(* The operator's recovery: the files fit afterwards, or no pair was ever  *)
(* in use.                                                                 *)
LEMMA OperatorKeeps == ASSUME CertificateInv, OperatorRecovers PROVE CertificateInv'
<1>1. FilesTyped /\ BackupsGood /\ GoodPairSurvives /\ OneWaits /\ Confirmed BY DEF CertificateInv
<1>2. /\ activation = NoActivation /\ activation.at = "idle" /\ activation' = activation
      /\ backup' = NoPair /\ UNCHANGED <<made, relay, reloads, reloaded>>
      /\ live' = IF Fits(live) THEN live
                 ELSE [h \in Halves |-> IF backup[h] # NoFile THEN backup[h] ELSE live[h]]
      /\ good' = IF Fits(live') THEN live'["cert"] ELSE good
  BY DEF OperatorRecovers, NoActivation
<1>3. NoFile \in 0 .. made /\ Halves = {"cert", "key"} BY <1>1, NoFileTyped DEF Halves
<1>4. live' \in [Halves -> 0 .. made] /\ backup' \in [Halves -> 0 .. made]
  BY <1>1, <1>2, <1>3 DEF FilesTyped, NoPair
<1>5. FilesMade BY <1>1, <1>2, <1>3, <1>4 DEF FilesMade, FilesTyped
<1>6. FilesTyped' /\ PairsApart' /\ BackupsKnown'
  BY <1>1, <1>2, <1>5, CommandEnds DEF Fails
<1>7. good # NoFile /\ ~Fits(live) => \A h \in Halves : live'[h] = good
  BY <1>1, <1>2, <1>3 DEF BackupsGood, GoodPairSurvives
<1>8. GoodPairSurvives'
  <2>1. CASE Fits(live') BY <1>2, <1>3, <2>1 DEF Fits, GoodPairSurvives
  <2>2. CASE ~Fits(live')
    <3>1. good = NoFile BY <1>2, <1>3, <1>7, <2>2 DEF Fits
    <3> QED BY <1>2, <2>2, <3>1 DEF GoodPairSurvives
  <2> QED BY <2>1, <2>2
<1>9. BackupsGood' BY <1>2 DEF BackupsGood, NoPair
<1>10. OneWaits' BY <1>1, <1>2 DEF OneWaits, Fits
<1>11. Confirmed'
  <2>1. SUFFICES ASSUME reloaded PROVE Confirmed' BY <1>2 DEF Confirmed
  <2>2. good # NoFile /\ \A h \in Halves : live[h] = good BY <1>1, <2>1 DEF Confirmed
  <2>3. live' = live /\ Fits(live) BY <1>2, <1>3, <2>2 DEF Fits
  <2>4. good' = good BY <1>2, <1>3, <2>2, <2>3
  <2> QED BY <1>1, <1>2, <2>2, <2>3, <2>4 DEF Confirmed
<1> QED BY <1>6, <1>8, <1>9, <1>10, <1>11 DEF CertificateInv

(* serve loads the pair on disk.                                           *)
LEMMA ServeKeeps == ASSUME CertificateInv, Serve PROVE CertificateInv'
<1>1. DiskInv /\ FilesTyped /\ OneWaits /\ Confirmed BY DEF CertificateInv, DiskInv
<1>2. DiskInv' BY <1>1, DiskStays DEF Serve
<1>3. /\ Fits(live) /\ UNCHANGED <<live, good, activation, reloads, reloaded>>
      /\ relay' = [running |-> TRUE, socket |-> TRUE, pair |-> live, loading |-> NotLoading]
  BY DEF Serve
<1>4. live \in [Halves -> Nat]
  <2>1. made \in Nat /\ live \in [Halves -> 0 .. made] BY <1>1 DEF FilesTyped
  <2>2. 0 .. made \subseteq Nat BY ONLY <2>1
  <2> QED BY <2>1, <2>2
<1>5. OneWaits' BY <1>1, <1>3, <1>4 DEF OneWaits, NotLoading, NoFile
<1>6. Confirmed' BY <1>1, <1>3 DEF Confirmed
<1> QED BY <1>2, <1>5, <1>6 DEF CertificateInv, DiskInv

(* The end of the relay sends the command that waits for it back.          *)
LEMMA RelayStopsKeeps ==
  ASSUME CertificateInv, NEW crash \in BOOLEAN, RelayStops(crash) PROVE CertificateInv'
<1>1. DiskInv /\ OneWaits /\ Confirmed BY DEF CertificateInv, DiskInv
<1>2. /\ UNCHANGED <<live, backup, made, good, reloaded>> /\ reloads' = << >>
      /\ relay' = [relay EXCEPT !.running = FALSE, !.socket = crash, !.loading = NotLoading]
      /\ activation' = IF activation.at = "wait" THEN [activation EXCEPT !.at = "restore key"] ELSE activation
  BY DEF RelayStops
<1>3. DiskInv' /\ (activation.at # "wait" => activation' = activation)
  <2>1. CASE activation.at = "wait" BY <1>1, <1>2, <2>1, DiskWaits DEF Goto
  <2>2. CASE activation.at # "wait" BY <1>1, <1>2, <2>2, DiskStays
  <2> QED BY <2>1, <2>2
<1>4. /\ relay' \in [running : BOOLEAN, socket : BOOLEAN, pair : [Halves -> Nat],
                     loading : [cert : Nat, waited : BOOLEAN]]
      /\ ~relay'.running /\ ~relay'.loading.waited
  BY <1>1, <1>2 DEF OneWaits, NotLoading, NoFile
<1>5. reloads' \in Seq(BOOLEAN) /\ DOMAIN reloads' = {}
  <2>1. << >> \in Seq(BOOLEAN) /\ DOMAIN << >> = {} OBVIOUS
  <2>2. reloads' = << >> BY <1>2
  <2> QED BY ONLY <2>1, <2>2
<1>6. OneWaits' BY <1>4, <1>5 DEF OneWaits
<1>7. Confirmed' BY <1>1, <1>2, <1>3, <1>4 DEF Confirmed
<1> QED BY <1>3, <1>6, <1>7 DEF CertificateInv, DiskInv

(* One request is sent, where nobody waited.                               *)
LEMMA RequestReloadKeeps == ASSUME CertificateInv, RequestReload PROVE CertificateInv'
<1>1. DiskInv /\ OneWaits /\ Confirmed BY DEF CertificateInv, DiskInv
<1>2. activation.at = "reload" /\ UNCHANGED <<live, backup, made, good, relay, reloaded>>
  BY DEF RequestReload
<1>3. ~reloaded' /\ Confirmed' BY <1>1, <1>2 DEF Confirmed
<1>4. ~relay.loading.waited /\ \A i \in DOMAIN reloads : ~reloads[i] BY <1>1, <1>2 DEF OneWaits
<1>5. CASE Goto("restore key") /\ UNCHANGED reloads
  <2>1. DiskInv' BY <1>1, <1>2, <1>5, DiskWaits
  <2>2. OneWaits' BY <1>1, <1>2, <1>4, <1>5 DEF OneWaits, Fits
  <2> QED BY <1>3, <2>1, <2>2 DEF CertificateInv, DiskInv
<1>6. CASE Goto("wait") /\ reloads' = Append(reloads, TRUE)
  <2>1. DiskInv' /\ activation'.at = "wait" BY <1>1, <1>2, <1>6, DiskWaits
  <2>2. reloads \in Seq(BOOLEAN) BY <1>1 DEF OneWaits
  <2>3. /\ reloads' \in Seq(BOOLEAN) /\ DOMAIN reloads' = 1 .. Len(reloads) + 1
        /\ DOMAIN reloads = 1 .. Len(reloads) /\ Len(reloads) \in Nat
        /\ \A i \in 1 .. Len(reloads) : reloads'[i] = reloads[i]
    BY <1>6, <2>2
  <2>4. \A i \in DOMAIN reloads' : i = Len(reloads) + 1 \/ i \in 1 .. Len(reloads) BY ONLY <2>3
  <2>5. \A i \in DOMAIN reloads' : reloads'[i] => i = Len(reloads) + 1 BY <1>4, <2>3, <2>4
  <2>6. OneWaits' BY <1>1, <1>2, <1>4, <2>1, <2>3, <2>5 DEF OneWaits, Fits
  <2> QED BY <1>3, <2>1, <2>6 DEF CertificateInv, DiskInv
<1> QED BY <1>5, <1>6 DEF RequestReload

(* Five seconds without an answer.                                         *)
LEMMA ReloadTimesOutKeeps == ASSUME CertificateInv, ReloadTimesOut PROVE CertificateInv'
<1>1. DiskInv /\ OneWaits /\ Confirmed BY DEF CertificateInv, DiskInv
<1>2. /\ activation.at = "wait" /\ Goto("restore key")
      /\ UNCHANGED <<live, backup, made, good, reloaded>>
  BY DEF ReloadTimesOut
<1>3. DiskInv' BY <1>1, <1>2, DiskWaits
<1>4. OneWaits' BY <1>1, NobodyWaits DEF ReloadTimesOut
<1>5. Confirmed' BY <1>1, <1>2 DEF Confirmed
<1> QED BY <1>3, <1>4, <1>5 DEF CertificateInv, DiskInv

(* The half read and whether its reload is waited for.                     *)
LEMMA ReadsCertificateKeeps == ASSUME CertificateInv, ReloadReadsCertificate PROVE CertificateInv'
<1>1. DiskInv /\ FilesTyped /\ OneWaits /\ Confirmed BY DEF CertificateInv, DiskInv
<1>2. /\ reloads # << >> /\ reloads' = Tail(reloads) /\ live["cert"] # NoFile
      /\ relay' = [relay EXCEPT !.loading = [cert |-> live["cert"], waited |-> Head(reloads)]]
      /\ UNCHANGED <<live, backup, made, good, activation, reloaded>>
  BY DEF ReloadReadsCertificate
<1>3. DiskInv' BY <1>1, <1>2, DiskStays
<1>4. live["cert"] \in Nat
  <2>1. made \in Nat /\ live["cert"] \in 0 .. made BY <1>1 DEF FilesTyped, Halves
  <2> QED BY ONLY <2>1
<1>5. /\ reloads' \in Seq(BOOLEAN) /\ Head(reloads) \in BOOLEAN
      /\ Head(reloads) => activation.at = "wait" /\ \A i \in DOMAIN reloads' : ~reloads'[i]
      /\ \A i \in DOMAIN reloads' : reloads'[i] => activation.at = "wait"
      /\ \A i, j \in DOMAIN reloads' : reloads'[i] /\ reloads'[j] => i = j
  BY <1>1, <1>2, OneWaitsOn
<1>6. /\ relay' \in [running : BOOLEAN, socket : BOOLEAN, pair : [Halves -> Nat],
                     loading : [cert : Nat, waited : BOOLEAN]]
      /\ relay'.running = relay.running /\ relay'.pair = relay.pair
      /\ relay'.loading.cert # NoFile /\ relay'.loading.waited = Head(reloads)
  BY <1>1, <1>2, <1>4, <1>5 DEF OneWaits
<1>7. OneWaits' BY <1>1, <1>2, <1>5, <1>6 DEF OneWaits, Fits
<1>8. Confirmed' BY <1>1, <1>2, <1>6 DEF Confirmed
<1> QED BY <1>3, <1>7, <1>8 DEF CertificateInv, DiskInv

(* A refusal that is waited for sends the command back.                    *)
LEMMA RefusalKeeps ==
  ASSUME DiskInv, OneWaits, Confirmed, NEW waited \in BOOLEAN, waited => activation.at = "wait",
         Answer(waited, FALSE), UNCHANGED <<live, backup, made>>
  PROVE  /\ DiskInv' /\ good' = good
         /\ waited => ~reloaded'
         /\ ~waited => activation' = activation /\ reloaded' = reloaded
<1>1. CASE waited
  <2>1. Goto("restore key") /\ good' = good /\ reloaded' = FALSE BY <1>1 DEF Answer, Goto
  <2> QED BY <1>1, <2>1, DiskWaits
<1>2. CASE ~waited
  <2>1. UNCHANGED <<activation, good, reloaded>> BY <1>2 DEF Answer
  <2> QED BY <1>2, <2>1, DiskStays
<1> QED BY <1>1, <1>2

(* A confirmation that is waited for finds the new pair on disk.           *)
LEMMA ConfirmationKeeps ==
  ASSUME DiskInv, activation.at = "wait", Answer(TRUE, TRUE), UNCHANGED <<live, backup, made>>
  PROVE  /\ DiskInv' /\ reloaded' /\ activation'.at = "commit" /\ good' # NoFile
         /\ \A h \in Halves : live'[h] = good'
<1>1. FilesTyped /\ PairsApart /\ BackupsKnown BY DEF DiskInv
<1>2. Goto("commit") /\ good' = activation.pair /\ reloaded' = TRUE BY DEF Answer, Goto
<1>3. /\ activation.pair \in 0 .. made /\ activation.pair # NoFile BY <1>1, CommandTyped
<1>4. \A h \in Halves : live[h] = activation.pair BY <1>1 DEF BackupsKnown, Halves
<1>5. FilesMade BY <1>1, <1>2, <1>3 DEF FilesMade, FilesTyped
<1>6. FilesTyped' /\ activation'.at = "commit" /\ activation'.pair = activation.pair
  BY <1>1, <1>2, <1>5, CommandMoves DEF CommandSteps
<1>7. PairsApart' /\ BackupsKnown' BY <1>2, <1>4, <1>6 DEF PairsApart, BackupsKnown
<1>8. GoodPairSurvives' BY <1>2, <1>4 DEF GoodPairSurvives
<1>9. BackupsGood' BY <1>2, <1>3, <1>4 DEF BackupsGood, Fits, Halves
<1> QED BY <1>2, <1>3, <1>4, <1>6, <1>7, <1>8, <1>9 DEF DiskInv

(* The key that is read fits the certificate, or the relay keeps its pair. *)
LEMMA ReadsKeyKeeps == ASSUME CertificateInv, ReloadReadsKey PROVE CertificateInv'
<1>1. DiskInv /\ FilesTyped /\ OneWaits /\ Confirmed BY DEF CertificateInv, DiskInv
<1>2. /\ relay.loading # NotLoading /\ UNCHANGED <<live, backup, made, reloads>>
  BY DEF ReloadReadsKey
<1>3. relay \in [running : BOOLEAN, socket : BOOLEAN, pair : [Halves -> Nat],
                 loading : [cert : Nat, waited : BOOLEAN]]
  BY <1>1 DEF OneWaits
<1>4. relay.loading.cert # NoFile
  <2>1. SUFFICES ASSUME relay.loading.cert = NoFile PROVE FALSE OBVIOUS
  <2>2. relay.loading.waited = FALSE BY <1>1, <1>3, <2>1 DEF OneWaits
  <2>3. relay.loading = [cert |-> NoFile, waited |-> FALSE] BY <1>3, <2>1, <2>2
  <2> QED BY <1>2, <2>3 DEF NotLoading
<1> DEFINE waited == relay.loading.waited
<1>5. /\ waited \in BOOLEAN /\ (waited => activation.at = "wait" /\ \A i \in DOMAIN reloads : ~reloads[i])
      /\ reloads \in Seq(BOOLEAN)
      /\ \A i \in DOMAIN reloads : reloads[i] => activation.at = "wait"
      /\ \A i, j \in DOMAIN reloads : reloads[i] /\ reloads[j] => i = j
  BY <1>1, <1>3 DEF OneWaits
<1>6. CASE /\ relay' = [relay EXCEPT !.loading = NotLoading] /\ Answer(waited, FALSE)
  <2>1. /\ DiskInv' /\ good' = good /\ (waited => ~reloaded')
        /\ ~waited => activation' = activation /\ reloaded' = reloaded
    BY <1>1, <1>2, <1>5, <1>6, RefusalKeeps
  <2>2. /\ relay' \in [running : BOOLEAN, socket : BOOLEAN, pair : [Halves -> Nat],
                       loading : [cert : Nat, waited : BOOLEAN]]
        /\ ~relay'.loading.waited /\ relay'.running = relay.running /\ relay'.pair = relay.pair
    BY <1>3, <1>6 DEF NotLoading, NoFile
  <2>3. OneWaits' BY <1>1, <1>2, <1>5, <2>1, <2>2 DEF OneWaits, Fits
  <2>4. Confirmed' BY <1>1, <1>2, <2>1, <2>2 DEF Confirmed
  <2> QED BY <2>1, <2>3, <2>4 DEF CertificateInv, DiskInv
<1>7. CASE /\ live["key"] = relay.loading.cert
           /\ relay' = [relay EXCEPT !.loading = NotLoading, !.pair = [h \in Halves |-> live["key"]]]
           /\ Answer(waited, TRUE)
  <2>1. [h \in Halves |-> live["key"]] \in [Halves -> Nat] BY <1>3, <1>7
  <2>2. /\ relay' \in [running : BOOLEAN, socket : BOOLEAN, pair : [Halves -> Nat],
                       loading : [cert : Nat, waited : BOOLEAN]]
        /\ ~relay'.loading.waited /\ relay'.running = relay.running
        /\ relay'.pair = [h \in Halves |-> live["key"]]
    BY <1>3, <1>7, <2>1 DEF NotLoading, NoFile
  <2>3. Fits(relay'.pair) BY <1>4, <1>7, <2>2 DEF Fits, Halves
  <2>4. DOMAIN live = Halves /\ live = [h \in Halves |-> live[h]] BY <1>1 DEF FilesTyped
  <2>5. CASE waited
    <3>1. /\ DiskInv' /\ activation'.at = "commit" /\ good' # NoFile /\ \A h \in Halves : live'[h] = good'
      BY <1>1, <1>2, <1>5, <1>7, <2>5, ConfirmationKeeps
    <3>2. OneWaits' BY <1>2, <1>5, <2>2, <2>3, <2>5 DEF OneWaits, Fits
    <3>3. relay'.pair = live' BY <1>2, <2>2, <2>4, <3>1 DEF Halves
    <3>4. Confirmed' BY <3>1, <3>3 DEF Confirmed
    <3> QED BY <3>1, <3>2, <3>4 DEF CertificateInv, DiskInv
  <2>6. CASE ~waited
    <3>1. UNCHANGED <<activation, good, reloaded>> BY <1>7, <2>6 DEF Answer
    <3>2. DiskInv' BY <1>1, <1>2, <3>1, DiskStays
    <3>3. OneWaits' BY <1>2, <1>5, <2>2, <2>3, <3>1 DEF OneWaits, Fits
    <3>4. reloaded => relay'.pair = live'
      <4>1. SUFFICES ASSUME reloaded PROVE relay'.pair = live' OBVIOUS
      <4>2. \A h \in Halves : live[h] = live["key"]
        <5>1. "key" \in Halves /\ \A h \in Halves : live[h] = good BY <1>1, <4>1 DEF Confirmed, Halves
        <5> QED BY ONLY <5>1
      <4>3. live' = live /\ relay'.pair = [h \in Halves |-> live["key"]] BY <1>2, <2>2
      <4> QED BY ONLY <2>4, <4>2, <4>3
    <3>5. Confirmed' BY <1>1, <1>2, <3>1, <3>4 DEF Confirmed
    <3> QED BY <3>2, <3>3, <3>5 DEF CertificateInv, DiskInv
  <2> QED BY <1>5, <2>5, <2>6
<1> QED BY <1>6, <1>7 DEF ReloadReadsKey

(* A reload refused before anything is read.                               *)
LEMMA RefusedKeeps == ASSUME CertificateInv, ReloadRefused PROVE CertificateInv'
<1>1. DiskInv /\ OneWaits /\ Confirmed BY DEF CertificateInv, DiskInv
<1>2. /\ reloads # << >> /\ reloads' = Tail(reloads) /\ Answer(Head(reloads), FALSE)
      /\ UNCHANGED <<live, backup, made, relay>> /\ relay.loading = NotLoading
  BY DEF ReloadRefused
<1>3. /\ reloads' \in Seq(BOOLEAN) /\ Head(reloads) \in BOOLEAN
      /\ Head(reloads) => activation.at = "wait" /\ \A i \in DOMAIN reloads' : ~reloads'[i]
      /\ \A i \in DOMAIN reloads' : reloads'[i] => activation.at = "wait"
      /\ \A i, j \in DOMAIN reloads' : reloads'[i] /\ reloads'[j] => i = j
  BY <1>1, <1>2, OneWaitsOn
<1>4. /\ DiskInv' /\ good' = good /\ (Head(reloads) => ~reloaded')
      /\ ~Head(reloads) => activation' = activation /\ reloaded' = reloaded
  BY <1>1, <1>2, <1>3, RefusalKeeps
<1>5. ~relay.loading.waited BY <1>2 DEF NotLoading
<1>6. OneWaits' BY <1>1, <1>2, <1>3, <1>4, <1>5 DEF OneWaits, Fits
<1>7. Confirmed' BY <1>1, <1>2, <1>4 DEF Confirmed
<1> QED BY <1>4, <1>6, <1>7 DEF CertificateInv, DiskInv

(* The invariant, through every step of the command and of the relay.      *)
THEOREM CertificateInvariant == CertificateSpec => []CertificateInv
<1>1. CertificateInit => CertificateInv BY FilesInitially
<1>2. ASSUME CertificateInv, [CertificateNext]_certificateVars PROVE CertificateInv'
  <2>1. CASE UNCHANGED certificateVars
    <3>1. DiskInv' BY <1>2, <2>1, DiskStays DEF CertificateInv, DiskInv, certificateVars
    <3>2. OneWaits' BY <1>2, <2>1 DEF CertificateInv, OneWaits, Fits, certificateVars
    <3>3. Confirmed' BY <1>2, <2>1 DEF CertificateInv, Confirmed, certificateVars
    <3> QED BY <3>1, <3>2, <3>3 DEF CertificateInv, DiskInv
  <2>2. ASSUME NEW renew \in BOOLEAN, AcmeRun(renew) PROVE CertificateInv'
    <3>1. (renew \/ relay.socket) \in BOOLEAN OBVIOUS
    <3> QED BY <1>2, <2>2, <3>1, CommandBegins DEF AcmeRun
  <2>3. CASE SelfSigned BY <1>2, <2>3, CommandBegins DEF SelfSigned
  <2>4. CASE Stage("cert", "stage key") BY <1>2, <2>4, StageKeeps DEF Halves
  <2>5. CASE Stage("key", IF activation.kind = "setup" THEN "replace cert" ELSE "backup cert")
    <3>1. PICK next : next = IF activation.kind = "setup" THEN "replace cert" ELSE "backup cert"
      OBVIOUS
    <3>2. Stage("key", next) BY <2>5, <3>1
    <3> QED BY <1>2, <3>1, <3>2, StageKeeps DEF Halves
  <2>6. CASE Backup("cert", "backup key") BY <1>2, <2>6, BackupKeeps DEF Halves
  <2>7. CASE Backup("key", "replace cert") BY <1>2, <2>7, BackupKeeps DEF Halves
  <2>8. CASE ReplaceCertificate BY <1>2, <2>8, ReplaceCertificateKeeps
  <2>9. CASE ReplaceKey \/ ReplaceKeyFails BY <1>2, <2>9, ReplaceKeyKeeps
  <2>10. CASE Commit("cert", "commit key") BY <1>2, <2>10, CommitKeeps DEF Halves
  <2>11. CASE Commit("key", "idle") BY <1>2, <2>11, CommitKeeps DEF Halves
  <2>12. CASE UndoCertificate \/ UndoRest BY <1>2, <2>12, UndoKeeps
  <2>13. CASE Restore("key") \/ Restore("cert") BY <1>2, <2>13, RestoreKeeps DEF Halves
  <2>14. CASE ActivationDies BY <1>2, <2>14, ActivationDiesKeeps
  <2>15. CASE OperatorRecovers BY <1>2, <2>15, OperatorKeeps
  <2>16. CASE Serve BY <1>2, <2>16, ServeKeeps
  <2>17. ASSUME NEW crash \in BOOLEAN, RelayStops(crash) PROVE CertificateInv'
    BY <1>2, <2>17, RelayStopsKeeps
  <2>18. CASE RequestReload BY <1>2, <2>18, RequestReloadKeeps
  <2>19. CASE ReloadTimesOut BY <1>2, <2>19, ReloadTimesOutKeeps
  <2>20. CASE ReloadReadsCertificate BY <1>2, <2>20, ReadsCertificateKeeps
  <2>21. CASE ReloadReadsKey BY <1>2, <2>21, ReadsKeyKeeps
  <2>22. CASE ReloadRefused BY <1>2, <2>22, RefusedKeeps
  <2> QED BY <1>2, <2>1, <2>2, <2>3, <2>4, <2>5, <2>6, <2>7, <2>8, <2>9, <2>10, <2>11, <2>12,
             <2>13, <2>14, <2>15, <2>16, <2>17, <2>18, <2>19, <2>20, <2>21, <2>22
          DEF CertificateNext
<1> QED BY <1>1, <1>2, PTL DEF CertificateSpec

(* PairsSound for any number of pairs and any size of the admin channel:   *)
(* wherever a command or the relay fails or dies, the pair last in use is  *)
(* in place or beside it (acme.rs), the relay serves a certificate with    *)
(* its own key, and a reload that was confirmed is of the pair on disk.    *)
THEOREM PairsAlwaysSound == CertificateSpec => []PairsSound
<1>1. ASSUME CertificateInv PROVE PairsSound
  <2>1. GoodPairSurvives /\ Confirmed /\ OneWaits BY <1>1 DEF CertificateInv
  <2>2. ServesConfirmedPair BY <2>1 DEF ServesConfirmedPair, OneWaits, Confirmed, Halves
  <2> QED BY <2>1, <2>2 DEF PairsSound
<1> QED BY <1>1, CertificateInvariant, PTL

-----------------------------------------------------------------------------
(* The datagram relay of the node.  The type invariant carries the         *)
(* finiteness of the table, which its limit needs; sockets are numbered as *)
(* they are bound, so that no two associations share one and those not     *)
(* bound yet have no task.                                                 *)

(* TypeOK, and what its limit on the table rests on. *)
TypeInv ==
  /\ TypeOK
  /\ IsFiniteSet(DOMAIN associations)

(* A socket that is not bound yet has no task. *)
UnboundIdle == \A k \in Sockets : k > bound => receiver[k] = "absent"

(* An association has a socket of its own. *)
SocketsDistinct ==
  \A i, j \in DOMAIN associations :
    associations[i].socket = associations[j].socket => i = j

ReceiverInv == UnboundIdle /\ SocketsDistinct /\ NoOrphanReceiver

(* Any table kept by prune_idle or shutdown is a part of the one before.   *)
LEMMA KeepTyped ==
  ASSUME TypeInv, NEW ids \in SUBSET DOMAIN associations, Keep(ids)
  PROVE  /\ DOMAIN associations' = ids
         /\ \A i \in ids : associations'[i] = associations[i]
         /\ IsFiniteSet(ids)
         /\ Cardinality(ids) <= MaxAssociations
<1>1. DOMAIN associations' = ids /\ \A i \in ids : associations'[i] = associations[i]
  BY DEF Keep
<1>2. /\ IsFiniteSet(ids) /\ Cardinality(ids) <= Cardinality(DOMAIN associations)
      /\ Cardinality(ids) \in Nat /\ Cardinality(DOMAIN associations) \in Nat
  BY FS_Subset, FS_CardinalityType DEF TypeInv
<1>3. Cardinality(DOMAIN associations) <= MaxAssociations /\ MaxAssociations \in Nat
  BY DatagramAssumption DEF TypeInv, TypeOK
<1> QED BY <1>1, <1>2, <1>3

(* A table that is below its limit has room for one more session.          *)
LEMMA RoomForOne ==
  ASSUME TypeInv, ~AssociationLimit, NEW i, i \notin DOMAIN associations
  PROVE  /\ IsFiniteSet(DOMAIN associations \cup {i})
         /\ Cardinality(DOMAIN associations \cup {i}) <= MaxAssociations
<1>1. /\ IsFiniteSet(DOMAIN associations \cup {i})
      /\ Cardinality(DOMAIN associations \cup {i}) = Cardinality(DOMAIN associations) + 1
  BY FS_AddElement DEF TypeInv
<1>2. Cardinality(DOMAIN associations) \in Nat
  BY FS_CardinalityType DEF TypeInv
<1>3. ~(Cardinality(DOMAIN associations) >= MaxAssociations) /\ MaxAssociations \in Nat
  BY DatagramAssumption DEF AssociationLimit
<1> QED BY <1>1, <1>2, <1>3

(* forward's last step leaves a table within its limit, its new entry in   *)
(* it and the others as they were.                                         *)
LEMMA BindsTyped ==
  ASSUME TypeInv, ForwardBinds
  PROVE  /\ DOMAIN associations' = DOMAIN associations \cup {forwarding.id}
         /\ associations'[forwarding.id] =
              [destination |-> forwarding.destination, socket |-> bound + 1]
         /\ \A i \in DOMAIN associations :
              i # forwarding.id /\ associations'[i] = associations[i]
         /\ forwarding.id \in SessionIds /\ forwarding.destination \in Allowed
         /\ bound + 1 \in Sockets /\ bound' = bound + 1
         /\ bound \in Nat /\ MaxSockets \in Nat
<1>1. forwarding \in [id: SessionIds, destination: Allowed]
  BY DEF TypeInv, TypeOK, ForwardBinds
<1>2. bound \in Nat /\ MaxSockets \in Nat /\ bound < MaxSockets
  BY DatagramAssumption DEF TypeInv, TypeOK, ForwardBinds
<1> QED BY <1>1, <1>2 DEF ForwardBinds, Sockets

(* Every step keeps the types, the limit of the table among them.          *)
LEMMA TypeStep ==
  ASSUME TypeInv, [Next]_vars
  PROVE  TypeInv'
<1>0. /\ now \in Nat /\ MaxTime \in Nat /\ bound \in Nat /\ MaxSockets \in Nat
      /\ MaxAssociations \in Nat
  BY DatagramAssumption DEF TypeInv, TypeOK
<1> USE DEF TypeInv, TypeOK
<1>1. CASE Tick
  BY <1>0, <1>1 DEF Tick
<1>2. ASSUME NEW i \in SessionIds, NEW d \in Destinations, ForwardPrunes(i, d)
      PROVE  TypeInv'
  <2> DEFINE ids == {j \in DOMAIN associations : Active(associations[j].socket)}
  <2>1. Keep(ids)
    BY <1>2 DEF ForwardPrunes
  <2> HIDE DEF ids
  <2>2. ids \in SUBSET DOMAIN associations
    BY DEF ids
  <2>3. /\ DOMAIN associations' = ids
        /\ \A j \in ids : associations'[j] = associations[j]
        /\ IsFiniteSet(ids)
        /\ Cardinality(ids) <= MaxAssociations
    BY <2>1, <2>2, KeepTyped
  <2>4. cancelled' \subseteq 1 .. bound
    BY <1>2 DEF ForwardPrunes, Owned
  <2>5. forwarding' \in [id: SessionIds, destination: Allowed] \cup {NoForward}
    BY <1>2 DEF ForwardPrunes
  <2> QED BY <1>2, <2>2, <2>3, <2>4, <2>5 DEF ForwardPrunes
<1>3. CASE ForwardFound
  BY <1>0, <1>3 DEF ForwardFound, Sockets
<1>4. CASE ForwardBinds
  <2>1. DOMAIN associations \cup {forwarding.id} = DOMAIN associations'
    BY <1>4, BindsTyped
  <2>2. IsFiniteSet(DOMAIN associations') /\ Cardinality(DOMAIN associations') <= MaxAssociations
    BY <1>4, <2>1, RoomForOne DEF ForwardBinds
  <2>3. ASSUME NEW i \in DOMAIN associations'
        PROVE  associations'[i] \in [destination: Allowed, socket: 1 .. bound']
    BY <1>0, <1>4, <2>1, BindsTyped
  <2>4. last_active' \in [Sockets -> 0 .. now] /\ cancelled' \subseteq 1 .. bound'
        /\ receiver' \in [Sockets -> {"absent", "waiting", "refused", "ended"}]
        /\ bound' \in 0 .. MaxSockets
    BY <1>0, <1>4, BindsTyped DEF ForwardBinds, Sockets
  <2> QED BY <1>4, <2>1, <2>2, <2>3, <2>4, BindsTyped DEF ForwardBinds
<1>5. CASE ForwardRefused
  BY <1>5 DEF ForwardRefused
<1>6. ASSUME NEW k \in Sockets,
             ReceiverRelays(k) \/ ReceiverOversized(k) \/ ReceiverRefused(k)
               \/ ReceiverFails(k) \/ ReceiverCancelled(k)
      PROVE  TypeInv'
  <2>1. last_active' \in [Sockets -> 0 .. now]
    BY <1>0, <1>6 DEF ReceiverRelays, ReceiverOversized, ReceiverRefused, ReceiverFails,
                      ReceiverCancelled
  <2>2. receiver' \in [Sockets -> {"absent", "waiting", "refused", "ended"}]
    BY <1>6 DEF ReceiverRelays, ReceiverOversized, ReceiverRefused, ReceiverFails,
                ReceiverCancelled
  <2>3. UNCHANGED <<now, associations, forwarding, bound, cancelled, connection>>
    BY <1>6 DEF ReceiverRelays, ReceiverOversized, ReceiverRefused, ReceiverFails,
                ReceiverCancelled
  <2> QED BY <2>1, <2>2, <2>3
<1>7. CASE ConnectionLost
  BY <1>7 DEF ConnectionLost
<1>8. CASE Shutdown
  <2>1. Keep({})
    BY <1>8 DEF Shutdown
  <2>2. /\ DOMAIN associations' = {} /\ IsFiniteSet({})
        /\ Cardinality({}) <= MaxAssociations
    BY <2>1, KeepTyped
  <2>3. cancelled' \subseteq 1 .. bound
    BY <1>8 DEF Shutdown, Owned
  <2> QED BY <1>8, <2>2, <2>3 DEF Shutdown
<1>9. CASE UNCHANGED vars
  BY <1>9 DEF vars
<1> QED BY <1>1, <1>2, <1>3, <1>4, <1>5, <1>6, <1>7, <1>8, <1>9 DEF Next

(* The types hold of every behaviour. *)
LEMMA TypeInvariant == Spec => []TypeInv
<1>1. Init => TypeInv
  <2> SUFFICES ASSUME Init PROVE TypeInv
    OBVIOUS
  <2>1. DOMAIN associations = {}
    BY DEF Init
  <2>2. IsFiniteSet({}) /\ Cardinality({}) = 0
    BY FS_EmptySet
  <2> QED BY <2>1, <2>2, DatagramAssumption DEF Init, TypeInv, TypeOK
<1>2. TypeInv /\ [Next]_vars => TypeInv'
  BY TypeStep
<1> QED BY <1>1, <1>2, PTL DEF Spec

(* The table of a relay connection never exceeds max_associations, its     *)
(* entries are allowed destinations on sockets that were bound, and the    *)
(* clocks of the sockets do not run ahead.                                 *)
THEOREM DatagramTypeCorrect == Spec => []TypeOK
<1>1. TypeInv => TypeOK
  BY DEF TypeInv
<1> QED BY <1>1, TypeInvariant, PTL

-----------------------------------------------------------------------------
(* What prune_idle and shutdown do to the tasks: one that waits and is not *)
(* cancelled by them is still that of an association in the table.         *)
LEMMA KeepOwns ==
  ASSUME TypeInv, ReceiverInv, NEW ids \in SUBSET DOMAIN associations, Keep(ids),
         \A i \in DOMAIN associations : i \in ids \/ associations[i].socket \in cancelled',
         cancelled \subseteq cancelled', UNCHANGED <<bound, receiver>>
  PROVE  ReceiverInv'
<1>1. /\ DOMAIN associations' = ids
      /\ \A i \in ids : associations'[i] = associations[i]
  BY KeepTyped
<1>2. UnboundIdle' /\ SocketsDistinct'
  BY <1>1 DEF ReceiverInv, UnboundIdle, SocketsDistinct
<1>3. ASSUME NEW k \in Sockets, receiver'[k] = "waiting"
      PROVE  k \in Owned' \/ k \in cancelled'
  <2>1. k \in Owned \/ k \in cancelled
    BY <1>3 DEF ReceiverInv, NoOrphanReceiver
  <2> QED BY <1>1, <2>1 DEF Owned
<1> QED BY <1>2, <1>3 DEF ReceiverInv, NoOrphanReceiver

(* Every step keeps each waiting task owned or told to end. *)
LEMMA ReceiverStep ==
  ASSUME TypeInv, ReceiverInv, [Next]_vars
  PROVE  ReceiverInv'
<1>1. CASE Tick
  BY <1>1 DEF Tick, ReceiverInv, UnboundIdle, SocketsDistinct, NoOrphanReceiver, Owned
<1>2. ASSUME NEW i \in SessionIds, NEW d \in Destinations, ForwardPrunes(i, d)
      PROVE  ReceiverInv'
  <2> DEFINE ids == {j \in DOMAIN associations : Active(associations[j].socket)}
  <2>1. Keep(ids) /\ ids \in SUBSET DOMAIN associations
    BY <1>2 DEF ForwardPrunes
  <2>2. /\ \A j \in DOMAIN associations : j \in ids \/ associations[j].socket \in cancelled'
        /\ cancelled \subseteq cancelled' /\ UNCHANGED <<bound, receiver>>
    BY <1>2 DEF ForwardPrunes, Owned
  <2> HIDE DEF ids
  <2> QED BY <2>1, <2>2, KeepOwns
<1>3. CASE ForwardFound
  BY <1>3 DEF ForwardFound, ReceiverInv, UnboundIdle, SocketsDistinct, NoOrphanReceiver, Owned
<1>4. CASE ForwardBinds
  <2>1. /\ DOMAIN associations' = DOMAIN associations \cup {forwarding.id}
        /\ associations'[forwarding.id].socket = bound + 1
        /\ \A i \in DOMAIN associations :
             i # forwarding.id /\ associations'[i] = associations[i]
        /\ bound \in Nat /\ bound' = bound + 1 /\ bound + 1 \in Sockets
    BY <1>4, BindsTyped
  <2>2. \A i \in DOMAIN associations : associations[i].socket \in 1 .. bound
    BY DEF TypeInv, TypeOK
  <2>3. SocketsDistinct'
    BY <2>1, <2>2 DEF ReceiverInv, SocketsDistinct
  <2>4. \A k \in Sockets : k # bound + 1 => receiver'[k] = receiver[k]
    BY <1>4 DEF ForwardBinds, TypeInv, TypeOK
  <2>5. UnboundIdle'
    <3> SUFFICES ASSUME NEW k \in Sockets, k > bound' PROVE receiver'[k] = "absent"
      BY DEF UnboundIdle
    <3>1. k \in Nat /\ k # bound + 1 /\ k > bound
      BY <2>1 DEF Sockets
    <3> QED BY <2>4, <3>1 DEF ReceiverInv, UnboundIdle
  <2>6. ASSUME NEW k \in Sockets, receiver'[k] = "waiting"
        PROVE  k \in Owned' \/ k \in cancelled'
    <3>1. CASE k = bound + 1
      BY <2>1, <3>1 DEF Owned
    <3>2. CASE k # bound + 1
      <4>1. k \in Owned \/ k \in cancelled
        BY <2>4, <2>6, <3>2 DEF ReceiverInv, NoOrphanReceiver
      <4>2. Owned \subseteq Owned' /\ cancelled' = cancelled
        BY <1>4, <2>1 DEF Owned, ForwardBinds
      <4> QED BY <4>1, <4>2
    <3> QED BY <3>1, <3>2
  <2> QED BY <2>3, <2>5, <2>6 DEF ReceiverInv, NoOrphanReceiver
<1>5. CASE ForwardRefused
  BY <1>5 DEF ForwardRefused, ReceiverInv, UnboundIdle, SocketsDistinct, NoOrphanReceiver, Owned
<1>6. ASSUME NEW k \in Sockets,
             ReceiverRelays(k) \/ ReceiverOversized(k) \/ ReceiverRefused(k)
               \/ ReceiverFails(k) \/ ReceiverCancelled(k)
      PROVE  ReceiverInv'
  <2>1. /\ UNCHANGED <<associations, bound, cancelled>>
        /\ receiver[k] = "waiting"
        /\ \A j \in Sockets : \/ receiver'[j] = receiver[j]
                              \/ j = k /\ receiver'[j] # "waiting"
    BY <1>6 DEF ReceiverRelays, ReceiverOversized, ReceiverRefused, ReceiverFails,
                ReceiverCancelled, TypeInv, TypeOK
  <2>2. Owned' = Owned
    BY <2>1 DEF Owned
  <2> QED BY <2>1, <2>2 DEF ReceiverInv, UnboundIdle, SocketsDistinct, NoOrphanReceiver
<1>7. CASE ConnectionLost
  BY <1>7 DEF ConnectionLost, ReceiverInv, UnboundIdle, SocketsDistinct, NoOrphanReceiver, Owned
<1>8. CASE Shutdown
  <2>1. /\ Keep({})
        /\ \A j \in DOMAIN associations : associations[j].socket \in cancelled'
        /\ cancelled \subseteq cancelled' /\ UNCHANGED <<bound, receiver>>
    BY <1>8 DEF Shutdown, Owned
  <2> QED BY <2>1, KeepOwns
<1>9. CASE UNCHANGED vars
  BY <1>9 DEF vars, ReceiverInv, UnboundIdle, SocketsDistinct, NoOrphanReceiver, Owned
<1> QED BY <1>1, <1>2, <1>3, <1>4, <1>5, <1>6, <1>7, <1>8, <1>9 DEF Next

(* Of every response task that still waits, its association is in the      *)
(* table or its cancel channel was written; no session shares a socket.    *)
LEMMA ReceiverInvariant == Spec => [](TypeInv /\ ReceiverInv)
<1>1. Init => ReceiverInv
  BY DEF Init, ReceiverInv, UnboundIdle, SocketsDistinct, NoOrphanReceiver, Sockets
<1>2. TypeInv /\ ReceiverInv /\ [Next]_vars => ReceiverInv'
  BY ReceiverStep
<1> QED BY <1>1, <1>2, TypeInvariant, PTL DEF Spec

(* A response task that is not told to end belongs to an association in    *)
(* the table: neither prune_idle nor shutdown leaves one behind, whatever  *)
(* the timeout, the limit and the interleaving with the tasks.             *)
THEOREM NoReceiverOrphaned == Spec => []NoOrphanReceiver
<1>1. ReceiverInv => NoOrphanReceiver
  BY DEF ReceiverInv
<1> QED BY <1>1, ReceiverInvariant, PTL

(* An association that was in use within idle_timeout survives every step  *)
(* of a connection that is not shut, with its destination and its socket.  *)
THEOREM TargetsKept == Spec => SessionKeepsTarget
<1> DEFINE TargetKept ==
      \A i \in DOMAIN associations :
        connection' # "shut" /\ Active(associations[i].socket)
          => i \in DOMAIN associations' /\ associations'[i] = associations[i]
<1>1. ASSUME TypeInv, [Next]_vars
      PROVE  [TargetKept]_vars
  <2>1. ASSUME NEW i \in SessionIds, NEW d \in Destinations, ForwardPrunes(i, d)
        PROVE  TargetKept
    BY <2>1 DEF ForwardPrunes, Keep
  <2>2. CASE ForwardBinds
    BY <1>1, <2>2, BindsTyped
  <2>3. CASE Shutdown
    BY <2>3 DEF Shutdown
  <2>4. CASE Tick \/ ForwardFound \/ ForwardRefused \/ ConnectionLost
    BY <2>4 DEF Tick, ForwardFound, ForwardRefused, ConnectionLost
  <2>5. ASSUME NEW k \in Sockets,
               ReceiverRelays(k) \/ ReceiverOversized(k) \/ ReceiverRefused(k)
                 \/ ReceiverFails(k) \/ ReceiverCancelled(k)
        PROVE  TargetKept
    BY <2>5 DEF ReceiverRelays, ReceiverOversized, ReceiverRefused, ReceiverFails,
                ReceiverCancelled
  <2> HIDE DEF TargetKept
  <2> QED BY <1>1, <2>1, <2>2, <2>3, <2>4, <2>5 DEF Next
<1> QED BY <1>1, TypeInvariant, PTL DEF Spec, SessionKeepsTarget

-----------------------------------------------------------------------------
(* The operator's files.  Ids only grow along the file and are part of the *)
(* name of the secret file, so that no two principals share one; a secret  *)
(* is on disk in one file; and one that was withdrawn is in no file the    *)
(* configuration, or the template of a new one, names.                     *)

IssueCommand ==
  [at : {"secret", "restrict", "issue", "deliver", "rollback", "remove"}, next : {"issue"},
   name : DOMAIN Slug, id : Nat, file : Range(Slug) \X Nat, secret : Nat, original : ConfigFile,
   qr : BOOLEAN]
SetupCommand ==
  [at : {"secret", "restrict", "setup"}, next : {"setup"},
   file : (Range(Slug) \cup {"credential"}) \X Nat, secret : Nat, original : ConfigFile]
RemoveCommand == [at : {"remove"}, file : (Range(Slug) \cup {"credential"}) \X Nat]

Enrollment == [id : Nat, name : DOMAIN Slug, file : Range(Slug) \X Nat, secret : Nat]

NodeTyped ==
  /\ config \in ConfigFile \cup {Missing}
  /\ running \in {NoCommand} \cup IssueCommand \cup SetupCommand \cup RemoveCommand
  /\ fresh \in Nat /\ delivered \subseteq Enrollment /\ withdrawn \subseteq Nat
  /\ rollbackFailed \in BOOLEAN

(* Principals as issue leaves them: there is one, only the template has    *)
(* id 1, an id is larger than those before it.                             *)
Principals(credentials) ==
  /\ credentials # << >>
  /\ \A i \in DOMAIN credentials :
       /\ credentials[i].file[2] = credentials[i].id
       /\ credentials[i] = Template \/ credentials[i].id > 1
       /\ \A j \in DOMAIN credentials : i < j => credentials[i].id < credentials[j].id
PrincipalsSound == config # Missing => Principals(config.credentials)

Named(credentials, file) == \E i \in DOMAIN credentials : credentials[i].file = file

(* Secrets on disk are distinct, and none is one that will be generated.   *)
SecretsDistinct ==
  /\ \A f \in DOMAIN secrets :
       /\ secrets[f] \in [secret : Nat, private : BOOLEAN]
       /\ secrets[f].secret < fresh
       /\ \A g \in DOMAIN secrets : f # g => secrets[f].secret # secrets[g].secret
  /\ \A w \in withdrawn : w < fresh

WithdrawnHidden ==
  \A f \in DOMAIN secrets : secrets[f].secret \in withdrawn =>
    f # Template.file /\ (config # Missing => ~Named(config.credentials, f))

(* A delivered enrollment is in the file and its secret can be read.       *)
DeliveredWork ==
  \A d \in delivered :
    /\ config # Missing /\ d.id > 1 /\ d.file[2] = d.id
    /\ [id |-> d.id, name |-> d.name, file |-> d.file] \in Range(config.credentials)
    /\ d.file \in DOMAIN secrets /\ secrets[d.file] = [secret |-> d.secret, private |-> TRUE]

(* Every principal but the template has a secret, unless a rollback failed.*)
PrincipalsReadable ==
  config # Missing /\ ~rollbackFailed =>
    \A i \in DOMAIN config.credentials : config.credentials[i] # Template =>
      /\ config.credentials[i].file \in DOMAIN secrets
      /\ secrets[config.credentials[i].file].private

(* The running command: its secret is new and where the step before put it.*)
CommandSecret ==
  running \in IssueCommand \cup SetupCommand =>
    /\ running.secret < fresh /\ running.secret \notin withdrawn
    /\ running.at = "secret" => \A f \in DOMAIN secrets : secrets[f].secret # running.secret
    /\ running.at \in {"restrict", "issue", "deliver", "rollback"} =>
         /\ running.file \in DOMAIN secrets
         /\ secrets[running.file] = [secret |-> running.secret, private |-> running.at # "restrict"]

(* issue: the file has not changed since it was read, except by its own    *)
(* write, and the id is larger than every other.                           *)
NewPrincipal == [id |-> running.id, name |-> running.name, file |-> running.file]
IssueRuns ==
  running \in IssueCommand /\ running.at # "remove" =>
    /\ config # Missing /\ running.file = <<Slug[running.name], running.id>> /\ running.id > 1
    /\ \A i \in DOMAIN running.original.credentials :
         running.original.credentials[i].id < running.id
    /\ config = IF running.at \in {"deliver", "rollback"}
                THEN [running.original EXCEPT !.credentials = Append(@, NewPrincipal)]
                ELSE running.original
    /\ Principals(running.original.credentials)
    /\ \A d \in delivered : d.id < running.id

SetupRuns ==
  running \in SetupCommand =>
    /\ running.original.credentials =
         IF config = Missing THEN <<Template>> ELSE config.credentials
    /\ running.file = running.original.credentials[1].file
    /\ running.at = "restrict" /\ running.original.credentials[1] # Template => rollbackFailed

(* The file to be removed is nobody's, save that of the principal a failed *)
(* rollback left behind.                                                   *)
RemoveRuns ==
  running.at = "remove" =>
    /\ \A d \in delivered : d.file # running.file
    /\ config # Missing /\ ~rollbackFailed => ~Named(config.credentials, running.file)

ServiceOld == service # Missing => service.secrets \cap service.revoked = {}

FilesInv ==
  /\ NodeTyped /\ PrincipalsSound /\ SecretsDistinct /\ WithdrawnHidden /\ DeliveredWork
  /\ PrincipalsReadable /\ CommandSecret /\ IssueRuns /\ SetupRuns /\ RemoveRuns /\ ServiceOld

(* What the commands are, and that none is of two kinds.                   *)
LEMMA CommandKinds ==
  /\ NoCommand \notin IssueCommand \cup SetupCommand /\ NoCommand.at = "idle"
  /\ \A c \in IssueCommand : c \notin SetupCommand
  /\ \A c \in SetupCommand : c \notin IssueCommand /\ c.at # "remove"
  /\ \A c \in RemoveCommand : c \notin IssueCommand \cup SetupCommand
<1>1. NoCommand \notin IssueCommand \cup SetupCommand /\ NoCommand.at = "idle"
  BY DEF NoCommand, IssueCommand, SetupCommand
<1>2. \A c \in IssueCommand : c \notin SetupCommand
  BY DEF IssueCommand, SetupCommand
<1>3. \A c \in SetupCommand : c \notin IssueCommand /\ c.at # "remove"
  BY DEF IssueCommand, SetupCommand
<1>4. \A c \in RemoveCommand : c \notin IssueCommand \cup SetupCommand
  <2>1. \A c \in RemoveCommand : "next" \notin DOMAIN c
    BY DEF RemoveCommand
  <2>2. \A c \in IssueCommand \cup SetupCommand : "next" \in DOMAIN c
    BY DEF IssueCommand, SetupCommand
  <2> QED BY <2>1, <2>2
<1> QED BY <1>1, <1>2, <1>3, <1>4

(* A command that proceeds changes where it is, and nothing else it knows. *)
LEMMA IssueProceeds ==
  ASSUME NEW c \in IssueCommand, NEW to \in {"restrict", "issue", "deliver", "rollback", "remove"}
  PROVE  LET n == [c EXCEPT !.at = to]
         IN /\ n \in IssueCommand /\ n.at = to /\ n.next = c.next /\ n.name = c.name /\ n.id = c.id
            /\ n.file = c.file /\ n.secret = c.secret /\ n.original = c.original /\ n.qr = c.qr
BY DEF IssueCommand

(* The same of setup.                                                      *)
LEMMA SetupProceeds ==
  ASSUME NEW c \in SetupCommand, NEW to \in {"restrict", "setup"}
  PROVE  LET n == [c EXCEPT !.at = to]
         IN /\ n \in SetupCommand /\ n.at = to /\ n.next = c.next
            /\ n.file = c.file /\ n.secret = c.secret /\ n.original = c.original
BY DEF SetupCommand

(* The sequence without one element.                                       *)
LEMMA RemovedAt ==
  ASSUME NEW S, NEW s \in Seq(S), NEW k \in 1 .. Len(s)
  PROVE  /\ RemoveAt(s, k) \in Seq(S) /\ Len(RemoveAt(s, k)) = Len(s) - 1
         /\ \A i \in 1 .. Len(s) - 1 :
              RemoveAt(s, k)[i] = IF i < k THEN s[i] ELSE s[i + 1]
<1> DEFINE a == SubSeq(s, 1, k - 1)
           b == SubSeq(s, k + 1, Len(s))
<1>1. /\ Len(s) \in Nat /\ k \in Nat /\ 1 <= k /\ k <= Len(s)
  OBVIOUS
<1>2. /\ a \in Seq(S) /\ Len(a) = k - 1 /\ \A i \in 1 .. k - 1 : a[i] = s[i]
  BY <1>1
<1>3. /\ b \in Seq(S) /\ Len(b) = Len(s) - k /\ \A i \in 1 .. Len(s) - k : b[i] = s[i + k]
  BY <1>1
<1>4. RemoveAt(s, k) = a \o b
  BY DEF RemoveAt
<1> HIDE DEF a, b
<1>41. Len(a) + Len(b) = Len(s) - 1
  BY <1>1, <1>2, <1>3
<1>5. /\ a \o b \in Seq(S) /\ Len(a \o b) = Len(s) - 1
      /\ \A i \in 1 .. Len(s) - 1 : (a \o b)[i] = IF i <= k - 1 THEN a[i] ELSE b[i - (k - 1)]
  <2>1. /\ a \o b \in Seq(S) /\ Len(a \o b) = Len(a) + Len(b)
        /\ \A i \in 1 .. Len(a) + Len(b) : (a \o b)[i] = IF i <= Len(a) THEN a[i] ELSE b[i - Len(a)]
    BY <1>2, <1>3, ConcatProperties
  <2> QED BY <1>2, <1>41, <2>1
<1>6. ASSUME NEW i \in 1 .. Len(s) - 1
      PROVE  (a \o b)[i] = IF i < k THEN s[i] ELSE s[i + 1]
  <2>1. CASE i < k
    BY <1>1, <1>2, <1>5, <2>1
  <2>2. CASE ~(i < k)
    <3>1. i - (k - 1) \in 1 .. Len(s) - k /\ ~(i <= k - 1) /\ (i - (k - 1)) + k = i + 1
      BY <1>1, <2>2
    <3> QED BY <1>3, <1>5, <2>2, <3>1
  <2> QED BY <2>1, <2>2
<1> QED BY <1>4, <1>5, <1>6

(* principal_id is larger than every id of the file.                       *)
LEMMA PrincipalIdIsNew ==
  ASSUME NEW c \in Seq(Credential), Principals(c)
  PROVE  /\ PrincipalId(c) \in Nat /\ PrincipalId(c) > 1
         /\ \A i \in DOMAIN c : c[i].id < PrincipalId(c)
<1> DEFINE ids == {0} \cup {c[i].id : i \in DOMAIN c}
<1>1. Len(c) \in DOMAIN c /\ Len(c) \in Nat /\ \A i \in DOMAIN c : i \in Nat /\ i <= Len(c)
  BY DEF Principals
<1>2. \A i \in DOMAIN c : c[i].id \in Nat
  <2>1. \A i \in DOMAIN c : c[i] \in Credential
    OBVIOUS
  <2> QED BY <2>1 DEF Credential
<1>3. \A i \in DOMAIN c : c[i].id <= c[Len(c)].id /\ c[i].id >= 1
  <2> TAKE i \in DOMAIN c
  <2>1. i < Len(c) => c[i].id < c[Len(c)].id
    BY <1>1 DEF Principals
  <2>2. c[i].id >= 1
    BY <1>2 DEF Principals, Template
  <2>3. i = Len(c) \/ i < Len(c)
    BY <1>1
  <2> QED BY <1>1, <1>2, <2>1, <2>2, <2>3
<1>4. \E m \in ids : \A y \in ids : m >= y
  <2>1. c[Len(c)].id \in ids /\ c[Len(c)].id \in Nat
    BY <1>1, <1>2
  <2>2. \A y \in ids : c[Len(c)].id >= y
    BY <1>2, <1>3, <2>1
  <2> QED BY <2>1, <2>2
<1>5. Max(ids) \in ids /\ \A y \in ids : Max(ids) >= y
  <2> HIDE DEF ids
  <2> QED BY <1>4 DEF Max
<1>6. Max(ids) \in Nat
  BY <1>2, <1>5
<1>7. \A i \in DOMAIN c : c[i].id <= Max(ids)
  BY <1>2, <1>5, <1>6
<1>8. PrincipalId(c) = Max(ids) + 1
  BY DEF PrincipalId
<1> HIDE DEF ids
<1>9. Max(ids) >= 1
  BY <1>1, <1>2, <1>3, <1>6, <1>7
<1> QED BY <1>2, <1>6, <1>7, <1>8, <1>9

(* Two principals of a file have two ids and two secret files.             *)
LEMMA PrincipalsApart ==
  ASSUME NEW c \in Seq(Credential), Principals(c), NEW i \in DOMAIN c, NEW j \in DOMAIN c,
         c[i].id = c[j].id \/ c[i].file = c[j].file
  PROVE  i = j
<1>0. i \in Nat /\ j \in Nat /\ c[i] \in Credential /\ c[j] \in Credential
  OBVIOUS
<1>1. i \in Nat /\ j \in Nat /\ c[i].id \in Nat /\ c[j].id \in Nat /\ c[i].id = c[j].id
  BY <1>0 DEF Principals, Credential
<1>2. ~(i < j) /\ ~(j < i)
  BY <1>1 DEF Principals
<1> QED BY <1>1, <1>2

(* The file of the template, and what it lists.                            *)
LEMMA ExampleFile ==
  ASSUME NEW s \in Settings
  PROVE  /\ Example(s) \in ConfigFile /\ Example(s).credentials = <<Template>>
         /\ Principals(<<Template>>) /\ Template \in Credential
<1>1. Template \in Credential
  BY DEF Template, Credential
<1>2. <<Template>> \in Seq(Credential) /\ Len(<<Template>>) = 1 /\ <<Template>>[1] = Template
  BY <1>1
<1>3. Template.file[2] = Template.id
  BY DEF Template
<1> HIDE DEF Template
<1>4. Principals(<<Template>>)
  BY <1>2, <1>3 DEF Principals
<1> QED BY <1>1, <1>2, <1>4 DEF Example, ConfigFile

(* A step that leaves the files alone keeps what is said of the files.     *)
LEMMA FilesKept ==
  ASSUME FilesInv, UNCHANGED <<secrets, delivered, withdrawn, rollbackFailed, service>>,
         fresh' \in Nat, fresh' >= fresh,
         UNCHANGED config \/ (/\ config # Missing /\ config' \in ConfigFile
                              /\ config'.credentials = config.credentials)
  PROVE  /\ PrincipalsSound' /\ SecretsDistinct' /\ WithdrawnHidden' /\ DeliveredWork'
         /\ PrincipalsReadable' /\ ServiceOld'
         /\ config' \in ConfigFile \cup {Missing} /\ fresh' \in Nat /\ delivered' \subseteq Enrollment
         /\ withdrawn' \subseteq Nat /\ rollbackFailed' \in BOOLEAN
<1>0. /\ NodeTyped /\ PrincipalsSound /\ SecretsDistinct /\ WithdrawnHidden /\ DeliveredWork
      /\ PrincipalsReadable /\ ServiceOld
  BY DEF FilesInv
<1>1. /\ config' = Missing <=> config = Missing
      /\ config # Missing => config'.credentials = config.credentials
      /\ config' \in ConfigFile \cup {Missing}
  BY <1>0, NodeConfigAssumption DEF NodeTyped
<1>2. PrincipalsSound'
  BY <1>0, <1>1 DEF PrincipalsSound
<1>3. SecretsDistinct'
  <2>1. fresh \in Nat /\ withdrawn \subseteq Nat
    BY <1>0 DEF NodeTyped
  <2>2. \A n \in Nat : n < fresh => n < fresh'
    BY <2>1
  <2>3. \A f \in DOMAIN secrets : secrets[f].secret \in Nat
    BY <1>0 DEF SecretsDistinct
  <2> QED BY <1>0, <2>1, <2>2, <2>3 DEF SecretsDistinct
<1>4. WithdrawnHidden'
  BY <1>0, <1>1 DEF WithdrawnHidden, Named
<1>5. DeliveredWork'
  BY <1>0, <1>1 DEF DeliveredWork
<1>6. PrincipalsReadable'
  BY <1>0, <1>1 DEF PrincipalsReadable
<1>7. ServiceOld'
  BY <1>0 DEF ServiceOld
<1> QED BY <1>0, <1>1, <1>2, <1>3, <1>4, <1>5, <1>6, <1>7 DEF NodeTyped

(* Nothing is said of no command.                                          *)
LEMMA IdleCommand ==
  ASSUME running' = NoCommand
  PROVE  /\ CommandSecret' /\ IssueRuns' /\ SetupRuns' /\ RemoveRuns'
         /\ running' \in {NoCommand} \cup IssueCommand \cup SetupCommand \cup RemoveCommand
BY CommandKinds DEF CommandSecret, IssueRuns, SetupRuns, RemoveRuns

(* init.                                                                   *)
LEMMA InitializeKeeps ==
  ASSUME FilesInv, NEW settings \in Settings, Initialize(settings)
  PROVE  FilesInv'
<1>0. /\ NodeTyped /\ SecretsDistinct /\ WithdrawnHidden /\ DeliveredWork /\ ServiceOld
  BY DEF FilesInv
<1>1. /\ running' = NoCommand /\ config = Missing /\ config' = Example(settings)
      /\ UNCHANGED <<secrets, fresh, delivered, withdrawn, rollbackFailed, service>>
  BY DEF Initialize, Runs
<1>2. config' \in ConfigFile /\ config'.credentials = <<Template>> /\ Principals(<<Template>>)
  BY <1>1, ExampleFile
<1>3. delivered = {}
  BY <1>0, <1>1 DEF DeliveredWork
<1>4. NodeTyped' /\ CommandSecret' /\ IssueRuns' /\ SetupRuns' /\ RemoveRuns'
  BY <1>0, <1>1, <1>2, IdleCommand DEF NodeTyped
<1>5. PrincipalsSound' /\ SecretsDistinct' /\ DeliveredWork' /\ ServiceOld'
  BY <1>0, <1>1, <1>2, <1>3 DEF PrincipalsSound, SecretsDistinct, DeliveredWork, ServiceOld
<1>6. WithdrawnHidden' /\ PrincipalsReadable'
  <2>1. DOMAIN <<Template>> = {1} /\ <<Template>>[1] = Template
    OBVIOUS
  <2> QED BY <1>0, <1>1, <1>2, <2>1 DEF WithdrawnHidden, PrincipalsReadable, Named
<1> QED BY <1>4, <1>5, <1>6 DEF FilesInv

(* Other settings, the same principals.                                    *)
LEMMA Resettled ==
  ASSUME NEW c \in ConfigFile, NEW settings \in Settings
  PROVE  /\ [c EXCEPT !.settings = settings] \in ConfigFile
         /\ [c EXCEPT !.settings = settings].credentials = c.credentials
BY DEF ConfigFile

(* The operator edits the file.                                            *)
LEMMA EditKeeps ==
  ASSUME FilesInv, NEW settings \in Settings, EditSettings(settings)
  PROVE  FilesInv'
<1>1. /\ config # Missing /\ config' = [config EXCEPT !.settings = settings]
      /\ running' = NoCommand
      /\ UNCHANGED <<secrets, fresh, delivered, withdrawn, rollbackFailed, service>>
  BY DEF EditSettings
<1>2. config \in ConfigFile /\ fresh \in Nat
  BY <1>1 DEF FilesInv, NodeTyped
<1>3. config' \in ConfigFile /\ config'.credentials = config.credentials
  BY <1>1, <1>2, Resettled
<1>4. fresh' \in Nat /\ fresh' >= fresh
  BY <1>1, <1>2
<1> QED BY <1>1, <1>3, <1>4, FilesKept, IdleCommand DEF FilesInv, NodeTyped

(* A command dies.                                                         *)
LEMMA DiesKeeps ==
  ASSUME FilesInv, CommandDies
  PROVE  FilesInv'
<1>1. /\ running' = NoCommand
      /\ UNCHANGED <<config, secrets, fresh, delivered, withdrawn, rollbackFailed, service>>
  BY DEF CommandDies, Ends
<1>2. fresh' \in Nat /\ fresh' >= fresh
  BY <1>1 DEF FilesInv, NodeTyped
<1> QED BY <1>1, <1>2, FilesKept, IdleCommand DEF FilesInv, NodeTyped

(* client issue reads the file.                                            *)
LEMMA IssueBeginsKeeps ==
  ASSUME FilesInv, NEW arguments, IssueBegins(arguments)
  PROVE  FilesInv'
<1>0. NodeTyped /\ PrincipalsSound /\ SecretsDistinct /\ DeliveredWork
  BY DEF FilesInv
<1> DEFINE name == Given(arguments, "--name")
           id == PrincipalId(config.credentials)
           c == [at |-> "secret", next |-> "issue", name |-> name, id |-> id,
                 file |-> <<Slug[name], id>>, secret |-> fresh, original |-> config,
                 qr |-> Given(arguments, "--output") = Missing]
<1>1. /\ name \in DOMAIN Slug /\ config # Missing /\ fresh' = fresh + 1 /\ running' = c
      /\ UNCHANGED <<config, secrets, delivered, withdrawn, rollbackFailed, service>>
  BY DEF IssueBegins
<1>2. /\ config \in ConfigFile /\ config.credentials \in Seq(Credential)
      /\ Principals(config.credentials) /\ fresh \in Nat
  BY <1>0, <1>1 DEF NodeTyped, ConfigFile, PrincipalsSound
<1>3. id \in Nat /\ id > 1 /\ \A i \in DOMAIN config.credentials : config.credentials[i].id < id
  BY <1>2, PrincipalIdIsNew
<1> HIDE DEF id, name
<1>4. /\ c \in IssueCommand /\ c.at = "secret" /\ c.name = name /\ c.id = id
      /\ c.file = <<Slug[name], id>> /\ c.secret = fresh /\ c.original = config
  BY <1>1, <1>2, <1>3 DEF IssueCommand, Range
<1> HIDE DEF c
<1>5. \A d \in delivered : d.id < id
  <2> TAKE d \in delivered
  <2>1. PICK i \in DOMAIN config.credentials :
          config.credentials[i] = [id |-> d.id, name |-> d.name, file |-> d.file]
    BY <1>0 DEF DeliveredWork, Range
  <2>2. config.credentials[i].id = d.id
    BY <2>1
  <2> QED BY <1>3, <2>2
<1>6. CommandSecret' /\ IssueRuns' /\ SetupRuns' /\ RemoveRuns'
  <2>1. \A f \in DOMAIN secrets : secrets[f].secret < fresh /\ secrets[f].secret \in Nat
    BY <1>0 DEF SecretsDistinct
  <2>2. fresh \notin withdrawn /\ fresh < fresh'
    BY <1>0, <1>1, <1>2 DEF SecretsDistinct, NodeTyped
  <2>3. CommandSecret'
    BY <1>1, <1>2, <1>4, <2>1, <2>2 DEF CommandSecret
  <2>4. IssueRuns'
    BY <1>1, <1>2, <1>3, <1>4, <1>5 DEF IssueRuns
  <2> QED BY <1>1, <1>4, <2>3, <2>4, CommandKinds DEF SetupRuns, RemoveRuns
<1>7. fresh' \in Nat /\ fresh' >= fresh
  BY <1>1, <1>2
<1> QED BY <1>1, <1>4, <1>6, <1>7, FilesKept DEF FilesInv, NodeTyped

(* setup reads the file, or takes the template.                            *)
LEMMA SetupBeginsKeeps ==
  ASSUME FilesInv, NEW settings \in Settings, SetupBegins(settings)
  PROVE  FilesInv'
<1>0. NodeTyped /\ PrincipalsSound /\ SecretsDistinct
  BY DEF FilesInv
<1> DEFINE o == IF config = Missing THEN Example(settings) ELSE [config EXCEPT !.settings = settings]
           file == o.credentials[1].file
           at == IF file \in DOMAIN secrets THEN "setup" ELSE "secret"
           c == [at |-> at, next |-> "setup", file |-> file, secret |-> fresh, original |-> o]
<1>1. /\ fresh' = fresh + 1 /\ running' = c
      /\ UNCHANGED <<config, secrets, delivered, withdrawn, rollbackFailed, service>>
  BY DEF SetupBegins
<1>2. /\ fresh \in Nat /\ o \in ConfigFile /\ Principals(o.credentials)
      /\ o.credentials = IF config = Missing THEN <<Template>> ELSE config.credentials
  BY <1>0, ExampleFile, Resettled DEF NodeTyped, PrincipalsSound
<1> HIDE DEF o
<1>3. file \in (Range(Slug) \cup {"credential"}) \X Nat
  <2>1. o.credentials \in Seq(Credential) /\ o.credentials # << >>
    BY <1>2 DEF ConfigFile, Principals
  <2>2. o.credentials[1] \in Credential
    BY <2>1
  <2> QED BY <2>2 DEF Credential
<1> HIDE DEF file
<1>4. /\ c \in SetupCommand /\ c.at = at /\ c.file = file /\ c.secret = fresh /\ c.original = o
      /\ at \in {"setup", "secret"}
  BY <1>2, <1>3 DEF SetupCommand
<1> HIDE DEF c, at
<1>5. CommandSecret' /\ IssueRuns' /\ SetupRuns' /\ RemoveRuns'
  <2>1. \A f \in DOMAIN secrets : secrets[f].secret < fresh /\ secrets[f].secret \in Nat
    BY <1>0 DEF SecretsDistinct
  <2>2. fresh \notin withdrawn /\ fresh < fresh'
    BY <1>0, <1>1, <1>2 DEF SecretsDistinct, NodeTyped
  <2>3. CommandSecret'
    BY <1>1, <1>2, <1>4, <2>1, <2>2 DEF CommandSecret
  <2>4. SetupRuns'
    BY <1>1, <1>2, <1>4 DEF SetupRuns, file
  <2> QED BY <1>1, <1>4, <2>3, <2>4, CommandKinds DEF IssueRuns, RemoveRuns
<1>6. fresh' \in Nat /\ fresh' >= fresh
  BY <1>1, <1>2
<1> QED BY <1>1, <1>4, <1>5, <1>6, FilesKept DEF FilesInv, NodeTyped

(* Which commands are at a step.                                           *)
LEMMA CommandAt ==
  ASSUME NodeTyped
  PROVE  /\ running.at = "secret" \/ running.at = "restrict" => running \in IssueCommand \cup SetupCommand
         /\ running.at = "setup" => running \in SetupCommand
         /\ running.at \in {"issue", "deliver", "rollback"} => running \in IssueCommand
         /\ running.at = "remove" => running \in IssueCommand \cup RemoveCommand
BY CommandKinds DEF NodeTyped, IssueCommand, SetupCommand, RemoveCommand

(* issue goes on and leaves the configuration as it is.                    *)
LEMMA IssueGoesOn ==
  ASSUME IssueRuns, running \in IssueCommand, running.at # "remove",
         NEW to \in {"restrict", "issue", "rollback"}, Proceed(to),
         to = "rollback" <=> running.at \in {"deliver", "rollback"},
         UNCHANGED <<config, delivered>>
  PROVE  /\ running' \in IssueCommand /\ running'.at = to /\ running'.file = running.file
         /\ running'.secret = running.secret
         /\ IssueRuns' /\ SetupRuns' /\ RemoveRuns'
<1>1. /\ running' \in IssueCommand /\ running'.at = to /\ running'.file = running.file
      /\ running'.secret = running.secret /\ running'.name = running.name
      /\ running'.id = running.id /\ running'.original = running.original
  <2>1. PICK c \in IssueCommand : c = running
    OBVIOUS
  <2>2. running' = [c EXCEPT !.at = to]
    BY <2>1 DEF Proceed
  <2>3. to \in {"restrict", "issue", "deliver", "rollback", "remove"}
    OBVIOUS
  <2> DEFINE n == [c EXCEPT !.at = to]
  <2>4. /\ n \in IssueCommand /\ n.at = to /\ n.next = c.next /\ n.name = c.name /\ n.id = c.id
        /\ n.file = c.file /\ n.secret = c.secret /\ n.original = c.original /\ n.qr = c.qr
    BY <2>3, IssueProceeds
  <2>5. running' = n
    BY <2>2
  <2> HIDE DEF n
  <2> QED BY <2>1, <2>4, <2>5
<1>2. NewPrincipal' = NewPrincipal
  BY <1>1 DEF NewPrincipal
<1>3. IssueRuns'
  BY <1>1, <1>2 DEF IssueRuns
<1> QED BY <1>1, <1>3, CommandKinds DEF SetupRuns, RemoveRuns

(* write_secret.                                                           *)
LEMMA SecretWrittenKeeps ==
  ASSUME FilesInv, WriteSecret
  PROVE  FilesInv'
<1>0. /\ NodeTyped /\ PrincipalsSound /\ SecretsDistinct /\ WithdrawnHidden /\ DeliveredWork
      /\ PrincipalsReadable /\ CommandSecret /\ IssueRuns /\ SetupRuns /\ ServiceOld
  BY DEF FilesInv
<1> DEFINE file == running.file
           content == [secret |-> running.secret, private |-> FALSE]
<1>1. /\ running.at = "secret" /\ file \notin DOMAIN secrets
      /\ secrets' = WithFile(file, content) /\ Proceed("restrict")
      /\ UNCHANGED <<config, fresh, delivered, withdrawn, rollbackFailed, service>>
  BY DEF WriteSecret
<1>2. /\ DOMAIN secrets' = DOMAIN secrets \cup {file} /\ secrets'[file] = content
      /\ \A f \in DOMAIN secrets : secrets'[f] = secrets[f] /\ f # file
  BY <1>1 DEF WithFile
<1>3. running \in IssueCommand \cup SetupCommand
  BY <1>0, <1>1, CommandAt
<1>4. /\ running.secret \in Nat /\ running.secret < fresh /\ running.secret \notin withdrawn
      /\ \A f \in DOMAIN secrets : secrets[f].secret # running.secret
  BY <1>0, <1>1, <1>3 DEF CommandSecret, IssueCommand, SetupCommand
<1>5. content \in [secret : Nat, private : BOOLEAN] /\ content.secret = running.secret
  BY <1>4
<1> HIDE DEF content
<1>6. SecretsDistinct'
  BY <1>0, <1>1, <1>2, <1>4, <1>5 DEF SecretsDistinct
<1>7. WithdrawnHidden'
  BY <1>0, <1>1, <1>2, <1>4, <1>5 DEF WithdrawnHidden
<1>8. DeliveredWork' /\ PrincipalsReadable' /\ PrincipalsSound' /\ ServiceOld'
  BY <1>0, <1>1, <1>2 DEF DeliveredWork, PrincipalsReadable, PrincipalsSound, ServiceOld
<1>9. CASE running \in IssueCommand
  <2>1. /\ running' \in IssueCommand /\ running'.at = "restrict" /\ running'.file = running.file
        /\ running'.secret = running.secret
        /\ IssueRuns' /\ SetupRuns' /\ RemoveRuns'
    BY <1>0, <1>1, <1>9, IssueGoesOn
  <2>2. CommandSecret'
    BY <1>1, <1>2, <1>4, <2>1 DEF CommandSecret, content
  <2>3. NodeTyped'
    BY <1>0, <1>1, <2>1 DEF NodeTyped
  <2> QED BY <1>6, <1>7, <1>8, <2>1, <2>2, <2>3 DEF FilesInv
<1>10. CASE running \in SetupCommand
  <2>1. /\ running' \in SetupCommand /\ running'.at = "restrict" /\ running'.file = running.file
        /\ running'.secret = running.secret /\ running'.original = running.original
    BY <1>1, <1>10, SetupProceeds DEF Proceed
  <2>2. CommandSecret'
    BY <1>1, <1>2, <1>4, <2>1 DEF CommandSecret, content
  <2>3. NodeTyped'
    BY <1>0, <1>1, <2>1 DEF NodeTyped
  <2>4. running.original.credentials[1] # Template => rollbackFailed
    <3> SUFFICES ASSUME running.original.credentials[1] # Template, ~rollbackFailed PROVE FALSE
      BY <1>0 DEF NodeTyped
    <3>1. config # Missing /\ running.original.credentials = config.credentials
      BY <1>0, <1>10 DEF SetupRuns
    <3>2. config.credentials \in Seq(Credential) /\ config.credentials # << >>
      BY <1>0, <3>1 DEF NodeTyped, ConfigFile, PrincipalsSound, Principals
    <3>3. 1 \in DOMAIN config.credentials
      BY <3>2
    <3> QED BY <1>0, <1>1, <1>10, <3>1, <3>3 DEF SetupRuns, PrincipalsReadable
  <2>5. SetupRuns'
    BY <1>0, <1>1, <1>10, <2>1, <2>4 DEF SetupRuns
  <2>6. IssueRuns' /\ RemoveRuns'
    BY <2>1, CommandKinds DEF IssueRuns, RemoveRuns
  <2> QED BY <1>6, <1>7, <1>8, <2>2, <2>3, <2>5, <2>6 DEF FilesInv
<1> QED BY <1>3, <1>9, <1>10

(* A file made private.                                                    *)
LEMMA MadePrivate ==
  ASSUME NEW n \in Nat
  PROVE  /\ [[secret |-> n, private |-> FALSE] EXCEPT !.private = TRUE]
              = [secret |-> n, private |-> TRUE]
         /\ [secret |-> n, private |-> TRUE] \in [secret : Nat, private : BOOLEAN]
<1> DEFINE r == [secret |-> n, private |-> FALSE]
           q == [r EXCEPT !.private = TRUE]
<1>1. DOMAIN q = {"secret", "private"} /\ q.secret = n /\ q.private = TRUE
  OBVIOUS
<1>2. q = [x \in {"secret", "private"} |-> q[x]]
  OBVIOUS
<1> HIDE DEF q
<1>3. q = [secret |-> n, private |-> TRUE]
  BY <1>1, <1>2
<1> QED BY <1>3 DEF q

(* The secret becomes private.                                             *)
LEMMA RestrictKeeps ==
  ASSUME FilesInv, RestrictPermissions
  PROVE  FilesInv'
<1>0. /\ NodeTyped /\ PrincipalsSound /\ SecretsDistinct /\ WithdrawnHidden /\ DeliveredWork
      /\ PrincipalsReadable /\ CommandSecret /\ IssueRuns /\ SetupRuns /\ ServiceOld
  BY DEF FilesInv
<1> DEFINE file == running.file
<1>1. /\ running.at = "restrict" /\ secrets' = [secrets EXCEPT ![file].private = TRUE]
      /\ Proceed(running.next)
      /\ UNCHANGED <<config, fresh, delivered, withdrawn, rollbackFailed, service>>
  BY DEF RestrictPermissions
<1>2. running \in IssueCommand \cup SetupCommand
  BY <1>0, <1>1, CommandAt
<1>3. /\ file \in DOMAIN secrets /\ secrets[file] = [secret |-> running.secret, private |-> FALSE]
      /\ running.secret < fresh /\ running.secret \notin withdrawn
  BY <1>0, <1>1, <1>2 DEF CommandSecret
<1>4. /\ DOMAIN secrets' = DOMAIN secrets
      /\ secrets'[file] = [secret |-> running.secret, private |-> TRUE]
      /\ \A f \in DOMAIN secrets : f # file => secrets'[f] = secrets[f]
  <2>1. secrets'[file] = [secrets[file] EXCEPT !.private = TRUE]
    BY <1>1, <1>3
  <2>0. running.secret \in Nat
    BY <1>2 DEF IssueCommand, SetupCommand
  <2>2. [secrets[file] EXCEPT !.private = TRUE] = [secret |-> running.secret, private |-> TRUE]
    BY <1>3, <2>0, MadePrivate
  <2> QED BY <1>1, <2>1, <2>2
<1>5. \A f \in DOMAIN secrets :
        /\ secrets'[f].secret = secrets[f].secret
        /\ secrets[f].private => secrets'[f].private
        /\ secrets[f].private => secrets'[f] = secrets[f]
  BY <1>3, <1>4
<1>6. \A f \in DOMAIN secrets : secrets'[f] \in [secret : Nat, private : BOOLEAN]
  <2>1. running.secret \in Nat
    BY <1>2 DEF IssueCommand, SetupCommand
  <2>2. [secret |-> running.secret, private |-> TRUE] \in [secret : Nat, private : BOOLEAN]
    BY <2>1, MadePrivate
  <2> QED BY <1>0, <1>4, <2>2 DEF SecretsDistinct
<1>7. SecretsDistinct' /\ WithdrawnHidden'
  <2>1. SecretsDistinct'
    <3>1. \A f \in DOMAIN secrets' :
            /\ secrets'[f] \in [secret : Nat, private : BOOLEAN]
            /\ secrets'[f].secret = secrets[f].secret
      BY <1>4, <1>5, <1>6
    <3>2. \A f \in DOMAIN secrets' :
            /\ secrets'[f].secret < fresh'
            /\ \A g \in DOMAIN secrets' : f # g => secrets'[f].secret # secrets'[g].secret
      <4>1. DOMAIN secrets' = DOMAIN secrets /\ fresh' = fresh
        BY <1>1, <1>4
      <4>2. \A f \in DOMAIN secrets :
              /\ secrets[f].secret < fresh
              /\ \A g \in DOMAIN secrets : f # g => secrets[f].secret # secrets[g].secret
        BY <1>0 DEF SecretsDistinct
      <4> QED BY ONLY <3>1, <4>1, <4>2
    <3>3. \A w \in withdrawn' : w < fresh'
      BY <1>0, <1>1 DEF SecretsDistinct
    <3> QED BY ONLY <3>1, <3>2, <3>3 DEF SecretsDistinct
  <2>2. WithdrawnHidden'
    BY <1>0, <1>1, <1>4, <1>5 DEF WithdrawnHidden
  <2> QED BY <2>1, <2>2
<1>8. DeliveredWork'
  <2>1. ASSUME NEW d \in delivered PROVE d.file \in DOMAIN secrets /\ d.file # file
    <3>1. d.file \in DOMAIN secrets /\ secrets[d.file] = [secret |-> d.secret, private |-> TRUE]
      BY <1>0 DEF DeliveredWork
    <3>2. secrets[d.file].private = TRUE /\ secrets[file].private = FALSE
      BY <1>3, <3>1
    <3> QED BY <3>1, <3>2
  <2>2. \A d \in delivered : d.file \in DOMAIN secrets' /\ secrets'[d.file] = secrets[d.file]
    BY <1>4, <2>1
  <2> QED BY <1>0, <1>1, <2>2 DEF DeliveredWork
<1>9. PrincipalsReadable' /\ PrincipalsSound' /\ ServiceOld'
  BY <1>0, <1>1, <1>4, <1>5 DEF PrincipalsReadable, PrincipalsSound, ServiceOld
<1>10. CASE running \in IssueCommand
  <2>0. running.next = "issue"
    BY <1>10 DEF IssueCommand
  <2>1. /\ running' \in IssueCommand /\ running'.at = "issue" /\ running'.file = running.file
        /\ running'.secret = running.secret
        /\ IssueRuns' /\ SetupRuns' /\ RemoveRuns'
    BY <1>0, <1>1, <1>10, <2>0, IssueGoesOn
  <2>2. CommandSecret'
    BY <1>1, <1>3, <1>4, <2>1 DEF CommandSecret
  <2>3. NodeTyped'
    BY <1>0, <1>1, <2>1 DEF NodeTyped
  <2> QED BY <1>7, <1>8, <1>9, <2>1, <2>2, <2>3 DEF FilesInv
<1>11. CASE running \in SetupCommand
  <2>0. running.next = "setup"
    BY <1>11 DEF SetupCommand
  <2>1. /\ running' \in SetupCommand /\ running'.at = "setup" /\ running'.file = running.file
        /\ running'.secret = running.secret /\ running'.original = running.original
    BY <1>1, <1>11, <2>0, SetupProceeds DEF Proceed
  <2>2. CommandSecret'
    BY <1>1, <1>3, <2>1 DEF CommandSecret
  <2>3. NodeTyped'
    BY <1>0, <1>1, <2>1 DEF NodeTyped
  <2>4. SetupRuns'
    BY <1>0, <1>1, <1>11, <2>1 DEF SetupRuns
  <2>5. IssueRuns' /\ RemoveRuns'
    BY <2>1, CommandKinds DEF IssueRuns, RemoveRuns
  <2> QED BY <1>7, <1>8, <1>9, <2>2, <2>3, <2>4, <2>5 DEF FilesInv
<1> QED BY <1>2, <1>10, <1>11

(* setup writes the configuration.                                         *)
LEMMA SetupWritesKeeps ==
  ASSUME FilesInv, SetupWritesConfig
  PROVE  FilesInv'
<1>0. /\ NodeTyped /\ PrincipalsSound /\ SecretsDistinct /\ WithdrawnHidden /\ DeliveredWork
      /\ PrincipalsReadable /\ SetupRuns /\ ServiceOld
  BY DEF FilesInv
<1>1. /\ running.at = "setup" /\ config' = running.original /\ running' = NoCommand
      /\ UNCHANGED <<secrets, fresh, delivered, withdrawn, rollbackFailed, service>>
  BY DEF SetupWritesConfig, Ends
<1>2. running \in SetupCommand
  BY <1>0, <1>1, CommandAt
<1>3. /\ config' \in ConfigFile
      /\ config'.credentials = IF config = Missing THEN <<Template>> ELSE config.credentials
  BY <1>0, <1>1, <1>2 DEF SetupRuns, SetupCommand
<1>4. fresh' \in Nat /\ fresh' >= fresh
  BY <1>0, <1>1 DEF NodeTyped
<1>5. CASE config # Missing
  <2>1. config'.credentials = config.credentials
    BY <1>3, <1>5
  <2> QED BY <1>1, <1>3, <1>4, <1>5, <2>1, FilesKept, IdleCommand DEF FilesInv, NodeTyped
<1>6. CASE config = Missing
  <2>1. config'.credentials = <<Template>> /\ DOMAIN <<Template>> = {1} /\ <<Template>>[1] = Template
    BY <1>3, <1>6
  <2>2. Principals(<<Template>>)
    <3>1. PICK s \in Settings : TRUE
      BY <1>3 DEF ConfigFile
    <3> QED BY ExampleFile
  <2>3. delivered = {}
    BY <1>0, <1>6 DEF DeliveredWork
  <2>4. PrincipalsSound' /\ SecretsDistinct' /\ DeliveredWork' /\ ServiceOld'
    BY <1>0, <1>1, <2>1, <2>2, <2>3 DEF PrincipalsSound, SecretsDistinct, DeliveredWork, ServiceOld
  <2>5. WithdrawnHidden' /\ PrincipalsReadable'
    BY <1>0, <1>1, <2>1 DEF WithdrawnHidden, PrincipalsReadable, Named
  <2> QED BY <1>0, <1>1, <1>3, <2>4, <2>5, IdleCommand DEF FilesInv, NodeTyped
<1> QED BY <1>5, <1>6

(* One more principal, with a larger id.                                   *)
LEMMA PrincipalAppended ==
  ASSUME NEW c \in ConfigFile, NEW p \in Credential, Principals(c.credentials),
         p.file[2] = p.id, p.id > 1, \A i \in DOMAIN c.credentials : c.credentials[i].id < p.id
  PROVE  LET n == [c EXCEPT !.credentials = Append(@, p)]
         IN /\ n \in ConfigFile /\ n.credentials = Append(c.credentials, p)
            /\ Principals(n.credentials)
            /\ DOMAIN n.credentials = 1 .. Len(c.credentials) + 1
            /\ DOMAIN c.credentials = 1 .. Len(c.credentials) /\ Len(c.credentials) \in Nat
            /\ n.credentials[Len(c.credentials) + 1] = p
            /\ \A i \in DOMAIN c.credentials : n.credentials[i] = c.credentials[i]
<1> DEFINE s == c.credentials
           t == Append(s, p)
           n == [c EXCEPT !.credentials = t]
<1>1. s \in Seq(Credential)
  BY DEF ConfigFile
<1>2. t \in Seq(Credential) /\ n \in ConfigFile /\ n.credentials = t
  BY <1>1 DEF ConfigFile
<1>3. /\ DOMAIN s = 1 .. Len(s) /\ DOMAIN t = 1 .. Len(s) + 1 /\ Len(s) \in Nat
      /\ t[Len(s) + 1] = p /\ \A i \in 1 .. Len(s) : t[i] = s[i]
  BY <1>1
<1>4. Principals(t)
  <2> HIDE DEF t
  <2>0. Principals(s)
    OBVIOUS
  <2> HIDE DEF s
  <2>1. t # << >>
    BY <1>3
  <2>2. ASSUME NEW i \in DOMAIN t
        PROVE  /\ t[i].file[2] = t[i].id /\ (t[i] = Template \/ t[i].id > 1)
               /\ \A j \in DOMAIN t : i < j => t[i].id < t[j].id
    <3>1. CASE i = Len(s) + 1
      <4>1. \A j \in DOMAIN t : ~(i < j)
        BY <1>3, <3>1
      <4> QED BY <1>3, <3>1, <4>1
    <3>2. CASE i \in 1 .. Len(s)
      <4>1. t[i] = s[i] /\ s[i].id < p.id
        BY <1>3, <3>2 DEF s
      <4>2. \A j \in DOMAIN t : j = Len(s) + 1 \/ (j \in 1 .. Len(s) /\ t[j] = s[j])
        BY <1>3
      <4> QED BY <1>3, <2>0, <3>2, <4>1, <4>2 DEF Principals
    <3> QED BY <1>3, <3>1, <3>2
  <2> QED BY <2>1, <2>2 DEF Principals
<1> QED BY <1>2, <1>3, <1>4

(* issue writes the new principal, or takes its secret back.               *)
LEMMA IssueWritesKeeps ==
  ASSUME FilesInv, NEW written \in BOOLEAN, IssueWritesConfig(written)
  PROVE  FilesInv'
<1>0. /\ NodeTyped /\ PrincipalsSound /\ SecretsDistinct /\ WithdrawnHidden /\ DeliveredWork
      /\ PrincipalsReadable /\ CommandSecret /\ IssueRuns /\ ServiceOld
  BY DEF FilesInv
<1>1. /\ running.at = "issue"
      /\ UNCHANGED <<fresh, delivered, withdrawn, rollbackFailed, service>>
  BY DEF IssueWritesConfig
<1>2. running \in IssueCommand
  BY <1>0, <1>1, CommandAt
<1>3. /\ config # Missing /\ config = running.original /\ config \in ConfigFile
      /\ running.file = <<Slug[running.name], running.id>> /\ running.id > 1
      /\ \A i \in DOMAIN config.credentials : config.credentials[i].id < running.id
      /\ Principals(config.credentials) /\ \A d \in delivered : d.id < running.id
  BY <1>0, <1>1, <1>2 DEF IssueRuns, NodeTyped
<1>4. /\ running.file \in DOMAIN secrets /\ running.secret \notin withdrawn /\ running.secret < fresh
      /\ secrets[running.file] = [secret |-> running.secret, private |-> TRUE]
  BY <1>0, <1>1, <1>2 DEF CommandSecret
<1>5. NewPrincipal \in Credential /\ NewPrincipal.id = running.id /\ NewPrincipal.file = running.file
  <2>1. running.name \in DOMAIN Slug /\ running.id \in Nat /\ running.file \in Range(Slug) \X Nat
    BY <1>2 DEF IssueCommand
  <2> QED BY <2>1 DEF NewPrincipal, Credential
<1>6. running.file[2] = running.id
  BY <1>3
<1>7. CASE written
  <2> DEFINE p == NewPrincipal
             n == [config EXCEPT !.credentials = Append(@, p)]
             k == Len(config.credentials) + 1
  <2>1. config' = n /\ Proceed("deliver") /\ UNCHANGED secrets
    BY <1>7 DEF IssueWritesConfig, NewPrincipal
  <2>2. /\ n \in ConfigFile /\ n.credentials = Append(config.credentials, p)
        /\ Principals(n.credentials) /\ DOMAIN n.credentials = 1 .. k
        /\ DOMAIN config.credentials = 1 .. Len(config.credentials) /\ Len(config.credentials) \in Nat
        /\ n.credentials[k] = p
        /\ \A i \in DOMAIN config.credentials : n.credentials[i] = config.credentials[i]
    <3>1. PICK c \in ConfigFile : c = config
      BY <1>3
    <3>2. PICK q \in Credential : q = p
      BY <1>5
    <3>3. /\ Principals(c.credentials) /\ q.file[2] = q.id /\ q.id > 1
          /\ \A i \in DOMAIN c.credentials : c.credentials[i].id < q.id
      BY <1>3, <1>5, <1>6, <3>1, <3>2
    <3> HIDE DEF p
    <3> QED BY <3>1, <3>2, <3>3, PrincipalAppended
  <2> HIDE DEF n
  <2>3. /\ DOMAIN config'.credentials = DOMAIN config.credentials \cup {k}
        /\ config'.credentials[k] = p /\ config' \in ConfigFile /\ config' # Missing
        /\ \A i \in DOMAIN config.credentials : config'.credentials[i] = config.credentials[i]
    BY <2>1, <2>2, NodeConfigAssumption
  <2>4. /\ running' \in IssueCommand /\ running'.at = "deliver" /\ running'.name = running.name
        /\ running'.id = running.id /\ running'.file = running.file
        /\ running'.secret = running.secret /\ running'.original = running.original
    <3>1. PICK c \in IssueCommand : c = running
      BY <1>2
    <3> DEFINE m == [c EXCEPT !.at = "deliver"]
    <3>2. /\ m \in IssueCommand /\ m.at = "deliver" /\ m.name = c.name /\ m.id = c.id
          /\ m.file = c.file /\ m.secret = c.secret /\ m.original = c.original
      BY IssueProceeds
    <3>3. running' = m
      BY <2>1, <3>1 DEF Proceed
    <3> HIDE DEF m
    <3> QED BY <3>1, <3>2, <3>3
  <2>5. PrincipalsSound' /\ SecretsDistinct' /\ ServiceOld'
    BY <1>0, <1>1, <2>1, <2>2 DEF PrincipalsSound, SecretsDistinct, ServiceOld
  <2>6. WithdrawnHidden'
    <3>1. ASSUME NEW f \in DOMAIN secrets, secrets[f].secret \in withdrawn
          PROVE  f # Template.file /\ ~Named(config'.credentials, f)
      <4>1. f # Template.file /\ ~Named(config.credentials, f)
        BY <1>0, <1>3, <3>1 DEF WithdrawnHidden
      <4>2. f # running.file
        BY <1>4, <3>1
      <4> QED BY <1>5, <2>3, <4>1, <4>2 DEF Named
    <3> QED BY <1>1, <2>1, <3>1 DEF WithdrawnHidden
  <2>7. DeliveredWork'
    <3>1. Range(config.credentials) \subseteq Range(config'.credentials)
      BY <2>3 DEF Range
    <3> QED BY <1>0, <1>1, <2>1, <2>3, <3>1 DEF DeliveredWork
  <2>8. PrincipalsReadable'
    <3>1. secrets[running.file].private = TRUE
      BY <1>4
    <3>2. \A i \in DOMAIN config'.credentials : i \in DOMAIN config.credentials \/ i = k
      BY <2>3
    <3> QED BY <1>0, <1>1, <1>3, <1>4, <1>5, <2>1, <2>3, <3>1, <3>2 DEF PrincipalsReadable
  <2>9. CommandSecret'
    BY <1>1, <1>4, <2>1, <2>4 DEF CommandSecret
  <2>10. IssueRuns'
    <3>1. NewPrincipal' = NewPrincipal
      BY <2>4 DEF NewPrincipal
    <3>2. config' = [running'.original EXCEPT !.credentials = Append(@, NewPrincipal')]
      BY <1>3, <2>1, <2>4, <3>1 DEF n
    <3> QED BY <1>1, <1>3, <2>3, <2>4, <3>2 DEF IssueRuns
  <2>11. SetupRuns' /\ RemoveRuns'
    BY <2>4, CommandKinds DEF SetupRuns, RemoveRuns
  <2>12. NodeTyped'
    BY <1>0, <1>1, <2>3, <2>4 DEF NodeTyped
  <2> QED BY <2>5, <2>6, <2>7, <2>8, <2>9, <2>10, <2>11, <2>12 DEF FilesInv
<1>8. CASE ~written
  <2>1. secrets' = WithoutFile(running.file) /\ running' = NoCommand /\ UNCHANGED config
    BY <1>8 DEF IssueWritesConfig, Ends
  <2>2. /\ DOMAIN secrets' = DOMAIN secrets \ {running.file}
        /\ \A f \in DOMAIN secrets' : secrets'[f] = secrets[f]
    BY <2>1 DEF WithoutFile, Restrict
  <2>3. SecretsDistinct' /\ WithdrawnHidden' /\ PrincipalsSound' /\ ServiceOld'
    BY <1>0, <1>1, <2>1, <2>2 DEF SecretsDistinct, WithdrawnHidden, PrincipalsSound, ServiceOld
  <2>4. \A i \in DOMAIN config.credentials : config.credentials[i].file # running.file
    <3> TAKE i \in DOMAIN config.credentials
    <3>1. config.credentials[i].file[2] = config.credentials[i].id
      BY <1>3 DEF Principals
    <3>2. config.credentials[i].id < running.id /\ config.credentials[i].id \in Nat /\ running.id \in Nat
      <4>1. config.credentials[i] \in Credential
        BY <1>3 DEF ConfigFile
      <4> QED BY <1>2, <1>3, <4>1 DEF Credential, IssueCommand
    <3> QED BY <1>6, <3>1, <3>2
  <2>5. \A d \in delivered : d.file # running.file
    <3> TAKE d \in delivered
    <3>1. d.file[2] = d.id /\ d.id < running.id /\ d.id \in Nat /\ running.id \in Nat
      BY <1>0, <1>2, <1>3 DEF DeliveredWork, NodeTyped, Enrollment, IssueCommand
    <3> QED BY <1>6, <3>1
  <2>6. DeliveredWork' /\ PrincipalsReadable'
    BY <1>0, <1>1, <2>1, <2>2, <2>4, <2>5 DEF DeliveredWork, PrincipalsReadable
  <2> QED BY <1>0, <1>1, <2>1, <2>3, <2>6, IdleCommand DEF FilesInv, NodeTyped
<1> QED BY <1>7, <1>8

(* The enrollment is in the hands of its client.                           *)
LEMMA DeliversKeeps ==
  ASSUME FilesInv, IssueDelivers
  PROVE  FilesInv'
<1>0. /\ NodeTyped /\ PrincipalsSound /\ SecretsDistinct /\ WithdrawnHidden /\ DeliveredWork
      /\ PrincipalsReadable /\ CommandSecret /\ IssueRuns /\ ServiceOld
  BY DEF FilesInv
<1> DEFINE e == [id |-> running.id, name |-> running.name, file |-> running.file,
                 secret |-> running.secret]
<1>1. /\ running.at = "deliver" /\ delivered' = delivered \cup {e} /\ running' = NoCommand
      /\ UNCHANGED <<config, secrets, fresh, withdrawn, rollbackFailed, service>>
  BY DEF IssueDelivers, Ends
<1>2. running \in IssueCommand
  BY <1>0, <1>1, CommandAt
<1>3. /\ config # Missing /\ running.id > 1 /\ running.file[2] = running.id
      /\ running.original \in ConfigFile
      /\ config = [running.original EXCEPT !.credentials = Append(@, NewPrincipal)]
  BY <1>0, <1>1, <1>2 DEF IssueRuns, IssueCommand
<1>4. /\ running.file \in DOMAIN secrets
      /\ secrets[running.file] = [secret |-> running.secret, private |-> TRUE]
  BY <1>0, <1>1, <1>2 DEF CommandSecret
<1>5. /\ e \in Enrollment /\ e.id = running.id /\ e.name = running.name /\ e.file = running.file
      /\ e.secret = running.secret
  BY <1>2 DEF Enrollment, IssueCommand
<1> HIDE DEF e
<1>6. NewPrincipal \in Range(config.credentials)
  <2> DEFINE s == running.original.credentials
  <2>1. s \in Seq(Credential) /\ config.credentials = Append(s, NewPrincipal)
    BY <1>3 DEF ConfigFile
  <2>2. Len(s) + 1 \in DOMAIN Append(s, NewPrincipal) /\ Append(s, NewPrincipal)[Len(s) + 1] = NewPrincipal
    BY <2>1
  <2> QED BY <2>1, <2>2 DEF Range
<1>7. NewPrincipal = [id |-> e.id, name |-> e.name, file |-> e.file]
  BY <1>5 DEF NewPrincipal
<1>8. DeliveredWork'
  BY <1>0, <1>1, <1>3, <1>4, <1>5, <1>6, <1>7 DEF DeliveredWork
<1>9. PrincipalsSound' /\ SecretsDistinct' /\ WithdrawnHidden' /\ PrincipalsReadable' /\ ServiceOld'
  BY <1>0, <1>1 DEF PrincipalsSound, SecretsDistinct, WithdrawnHidden, PrincipalsReadable, ServiceOld
<1> QED BY <1>0, <1>1, <1>5, <1>8, <1>9, IdleCommand DEF FilesInv, NodeTyped

(* The output file cannot be written.                                      *)
LEMMA DeliveryFailsKeeps ==
  ASSUME FilesInv, DeliveryFails
  PROVE  FilesInv'
<1>0. /\ NodeTyped /\ CommandSecret /\ IssueRuns
  BY DEF FilesInv
<1>1. /\ running.at = "deliver" /\ Proceed("rollback")
      /\ UNCHANGED <<config, secrets, fresh, delivered, withdrawn, rollbackFailed, service>>
  BY DEF DeliveryFails
<1>2. running \in IssueCommand
  BY <1>0, <1>1, CommandAt
<1>3. /\ running' \in IssueCommand /\ running'.at = "rollback" /\ running'.file = running.file
      /\ running'.secret = running.secret
      /\ IssueRuns' /\ SetupRuns' /\ RemoveRuns'
  BY <1>0, <1>1, <1>2, IssueGoesOn
<1>4. CommandSecret'
  BY <1>0, <1>1, <1>2, <1>3 DEF CommandSecret
<1>5. fresh' \in Nat /\ fresh' >= fresh
  BY <1>0, <1>1 DEF NodeTyped
<1> QED BY <1>1, <1>3, <1>4, <1>5, FilesKept DEF FilesInv, NodeTyped

(* issue takes the principal back, if it can.                              *)
LEMMA RollbackKeeps ==
  ASSUME FilesInv, NEW written \in BOOLEAN, RollbackConfig(written)
  PROVE  FilesInv'
<1>0. /\ NodeTyped /\ PrincipalsSound /\ SecretsDistinct /\ WithdrawnHidden /\ DeliveredWork
      /\ PrincipalsReadable /\ CommandSecret /\ IssueRuns /\ ServiceOld
  BY DEF FilesInv
<1>1. /\ running.at = "rollback" /\ config' = (IF written THEN running.original ELSE config)
      /\ rollbackFailed' = (rollbackFailed \/ ~written) /\ Proceed("remove")
      /\ UNCHANGED <<secrets, fresh, delivered, withdrawn, service>>
  BY DEF RollbackConfig
<1>2. running \in IssueCommand
  BY <1>0, <1>1, CommandAt
<1> DEFINE o == running.original
<1>3. /\ config # Missing /\ running.id > 1 /\ running.file[2] = running.id
      /\ o \in ConfigFile /\ Principals(o.credentials) /\ o # Missing
      /\ \A i \in DOMAIN o.credentials : o.credentials[i].id < running.id
      /\ config = [o EXCEPT !.credentials = Append(@, NewPrincipal)]
      /\ \A d \in delivered : d.id < running.id
  BY <1>0, <1>1, <1>2, NodeConfigAssumption DEF IssueRuns, IssueCommand
<1> HIDE DEF o
<1>4. /\ o.credentials \in Seq(Credential) /\ config.credentials = Append(o.credentials, NewPrincipal)
      /\ running.id \in Nat /\ NewPrincipal.id = running.id
  BY <1>2, <1>3 DEF ConfigFile, NewPrincipal, IssueCommand
<1>5. /\ DOMAIN o.credentials = 1 .. Len(o.credentials) /\ Len(o.credentials) \in Nat
      /\ DOMAIN config.credentials = DOMAIN o.credentials \cup {Len(o.credentials) + 1}
      /\ config.credentials[Len(o.credentials) + 1] = NewPrincipal
      /\ \A i \in DOMAIN o.credentials : config.credentials[i] = o.credentials[i]
  BY <1>4
<1>6. /\ running' \in IssueCommand /\ running'.at = "remove" /\ running'.file = running.file
      /\ running'.secret = running.secret
  <2>1. PICK c \in IssueCommand : c = running
    BY <1>2
  <2> DEFINE m == [c EXCEPT !.at = "remove"]
  <2>2. /\ m \in IssueCommand /\ m.at = "remove" /\ m.file = c.file /\ m.secret = c.secret
    BY IssueProceeds
  <2>3. running' = m
    BY <1>1, <2>1 DEF Proceed
  <2> HIDE DEF m
  <2> QED BY <2>1, <2>2, <2>3
<1>7. CommandSecret' /\ IssueRuns' /\ SetupRuns'
  <2>1. CommandSecret'
    BY <1>0, <1>1, <1>2, <1>6 DEF CommandSecret
  <2> QED BY <1>6, <2>1, CommandKinds DEF IssueRuns, SetupRuns
<1>8. \A d \in delivered : d.file # running.file
  <2> TAKE d \in delivered
  <2>1. d.file[2] = d.id /\ d.id < running.id /\ d.id \in Nat
    BY <1>0, <1>3 DEF DeliveredWork, NodeTyped, Enrollment
  <2> QED BY <1>3, <1>4, <2>1
<1>9. ~Named(o.credentials, running.file)
  <2> SUFFICES ASSUME NEW i \in DOMAIN o.credentials PROVE o.credentials[i].file # running.file
    BY DEF Named
  <2>1. o.credentials[i] \in Credential
    BY <1>4
  <2>2. /\ o.credentials[i].file[2] = o.credentials[i].id /\ o.credentials[i].id \in Nat
        /\ o.credentials[i].id < running.id
    BY <1>3, <2>1 DEF Principals, Credential
  <2> QED BY <1>3, <1>4, <2>2
<1>10. \A f : Named(o.credentials, f) => Named(config.credentials, f)
  BY <1>5 DEF Named
<1>11. CASE written
  <2>1. config' = o /\ config' # Missing /\ config' \in ConfigFile
        /\ (rollbackFailed' <=> rollbackFailed)
    BY <1>1, <1>3, <1>11 DEF o
  <2>2. PrincipalsSound' /\ SecretsDistinct' /\ ServiceOld'
    BY <1>0, <1>1, <1>3, <2>1 DEF PrincipalsSound, SecretsDistinct, ServiceOld
  <2>3. WithdrawnHidden'
    BY <1>0, <1>1, <1>3, <1>10, <2>1 DEF WithdrawnHidden
  <2>4. DeliveredWork'
    <3>1. ASSUME NEW d \in delivered
          PROVE  [id |-> d.id, name |-> d.name, file |-> d.file] \in Range(o.credentials)
      <4> DEFINE e == [id |-> d.id, name |-> d.name, file |-> d.file]
      <4>1. e \in Range(config.credentials) /\ e.id = d.id /\ d.id < running.id /\ d.id \in Nat
        BY <1>0, <1>3 DEF DeliveredWork, NodeTyped, Enrollment
      <4> HIDE DEF e
      <4>2. PICK i \in DOMAIN config.credentials : config.credentials[i] = e
        BY <4>1 DEF Range
      <4>3. i # Len(o.credentials) + 1
        BY <1>4, <1>5, <4>1, <4>2
      <4>4. i \in DOMAIN o.credentials /\ o.credentials[i] = e
        BY <1>5, <4>2, <4>3
      <4> QED BY <4>4 DEF Range, e
    <3> QED BY <1>0, <1>1, <2>1, <3>1 DEF DeliveredWork
  <2>5. PrincipalsReadable'
    BY <1>0, <1>1, <1>3, <1>5, <2>1 DEF PrincipalsReadable
  <2>6. RemoveRuns'
    BY <1>1, <1>6, <1>8, <1>9, <2>1 DEF RemoveRuns
  <2>7. NodeTyped'
    BY <1>0, <1>1, <1>6, <2>1 DEF NodeTyped
  <2> QED BY <1>7, <2>2, <2>3, <2>4, <2>5, <2>6, <2>7 DEF FilesInv
<1>12. CASE ~written
  <2>1. config' = config /\ rollbackFailed'
    BY <1>1, <1>12
  <2>2. PrincipalsSound' /\ SecretsDistinct' /\ ServiceOld'
    BY <1>0, <1>1, <2>1 DEF PrincipalsSound, SecretsDistinct, ServiceOld
  <2>3. WithdrawnHidden' /\ DeliveredWork' /\ PrincipalsReadable'
    BY <1>0, <1>1, <2>1 DEF WithdrawnHidden, DeliveredWork, PrincipalsReadable
  <2>4. RemoveRuns'
    BY <1>1, <1>6, <1>8, <2>1 DEF RemoveRuns
  <2>5. NodeTyped'
    BY <1>0, <1>1, <1>6, <2>1 DEF NodeTyped
  <2> QED BY <1>7, <2>2, <2>3, <2>4, <2>5 DEF FilesInv
<1> QED BY <1>11, <1>12

(* A secret is removed.                                                    *)
LEMMA RemoveSecretKeeps ==
  ASSUME FilesInv, RemoveSecret
  PROVE  FilesInv'
<1>0. /\ NodeTyped /\ PrincipalsSound /\ SecretsDistinct /\ WithdrawnHidden /\ DeliveredWork
      /\ PrincipalsReadable /\ RemoveRuns /\ ServiceOld
  BY DEF FilesInv
<1>1. /\ running.at = "remove" /\ secrets' = WithoutFile(running.file) /\ running' = NoCommand
      /\ UNCHANGED <<config, fresh, delivered, withdrawn, rollbackFailed, service>>
  BY DEF RemoveSecret, Ends
<1>2. /\ DOMAIN secrets' = DOMAIN secrets \ {running.file}
      /\ \A f \in DOMAIN secrets' : secrets'[f] = secrets[f]
  BY <1>1 DEF WithoutFile, Restrict
<1>3. /\ \A d \in delivered : d.file # running.file
      /\ config # Missing /\ ~rollbackFailed => ~Named(config.credentials, running.file)
  BY <1>0, <1>1 DEF RemoveRuns
<1>4. SecretsDistinct' /\ WithdrawnHidden' /\ PrincipalsSound' /\ ServiceOld'
  BY <1>0, <1>1, <1>2 DEF SecretsDistinct, WithdrawnHidden, PrincipalsSound, ServiceOld
<1>5. DeliveredWork'
  BY <1>0, <1>1, <1>2, <1>3 DEF DeliveredWork
<1>6. PrincipalsReadable'
  BY <1>0, <1>1, <1>2, <1>3 DEF PrincipalsReadable, Named
<1> QED BY <1>0, <1>1, <1>4, <1>5, <1>6, IdleCommand DEF FilesInv, NodeTyped

(* The secrets of enrollments that are taken back are in files of theirs   *)
(* only.                                                                   *)
LEMMA SecretOfDelivered ==
  ASSUME FilesInv, NEW d \in delivered, NEW f \in DOMAIN secrets, secrets[f].secret = d.secret
  PROVE  f = d.file /\ f # Template.file /\ d.secret \in Nat /\ d.secret < fresh
<1>1. d.file \in DOMAIN secrets /\ secrets[d.file] = [secret |-> d.secret, private |-> TRUE]
  BY DEF FilesInv, DeliveredWork
<1>2. secrets[d.file].secret = d.secret
  BY <1>1
<1>3. f = d.file /\ d.secret \in Nat /\ d.secret < fresh
  BY <1>1, <1>2 DEF FilesInv, SecretsDistinct
<1>4. d.file[2] = d.id /\ d.id > 1
  BY DEF FilesInv, DeliveredWork
<1>5. Template.file[2] = 1
  BY DEF Template
<1>6. d.id \in Nat
  BY DEF FilesInv, NodeTyped, Enrollment
<1> QED BY <1>3, <1>4, <1>5, <1>6

(* uninstall, with or without --purge.                                     *)
LEMMA UninstallKeeps ==
  ASSUME FilesInv, NEW arguments, Uninstall(arguments)
  PROVE  FilesInv'
<1>0. /\ NodeTyped /\ PrincipalsSound /\ SecretsDistinct /\ WithdrawnHidden /\ DeliveredWork
      /\ PrincipalsReadable
  BY DEF FilesInv
<1>1. /\ running = NoCommand /\ service' = Missing
      /\ UNCHANGED <<secrets, running, fresh, rollbackFailed>>
      /\ \/ /\ config' = Missing /\ delivered' = {}
            /\ withdrawn' = withdrawn \cup {d.secret : d \in delivered}
         \/ UNCHANGED <<config, delivered, withdrawn>>
  BY DEF Uninstall, Runs
<1>2. running' = NoCommand /\ ServiceOld'
  BY <1>1 DEF ServiceOld
<1>3. CASE UNCHANGED <<config, delivered, withdrawn>>
  <2>1. PrincipalsSound' /\ SecretsDistinct' /\ WithdrawnHidden' /\ DeliveredWork' /\ PrincipalsReadable'
    BY <1>0, <1>1, <1>3
       DEF PrincipalsSound, SecretsDistinct, WithdrawnHidden, DeliveredWork, PrincipalsReadable
  <2> QED BY <1>0, <1>1, <1>2, <1>3, <2>1, IdleCommand DEF FilesInv, NodeTyped
<1>4. CASE /\ config' = Missing /\ delivered' = {}
           /\ withdrawn' = withdrawn \cup {d.secret : d \in delivered}
  <2>1. \A d \in delivered : d.secret \in Nat /\ d.secret < fresh
    <3> TAKE d \in delivered
    <3>1. d.file \in DOMAIN secrets /\ secrets[d.file] = [secret |-> d.secret, private |-> TRUE]
      BY <1>0 DEF DeliveredWork
    <3>2. secrets[d.file].secret = d.secret
      BY <3>1
    <3> QED BY <3>1, <3>2, SecretOfDelivered
  <2>2. withdrawn' \subseteq Nat /\ \A w \in withdrawn' : w < fresh
    BY <1>0, <1>4, <2>1 DEF NodeTyped, SecretsDistinct
  <2>3. SecretsDistinct'
    BY <1>0, <1>1, <2>2 DEF SecretsDistinct
  <2>4. WithdrawnHidden'
    BY <1>0, <1>1, <1>4, SecretOfDelivered DEF WithdrawnHidden
  <2>5. PrincipalsSound' /\ DeliveredWork' /\ PrincipalsReadable'
    BY <1>4 DEF PrincipalsSound, DeliveredWork, PrincipalsReadable
  <2> QED BY <1>0, <1>1, <1>2, <1>4, <2>2, <2>3, <2>4, <2>5, IdleCommand DEF FilesInv, NodeTyped
<1> QED BY <1>1, <1>3, <1>4

(* One principal less.                                                     *)
LEMMA PrincipalRemoved ==
  ASSUME NEW s \in Seq(Credential), Principals(s), Len(s) # 1, NEW k \in 1 .. Len(s)
  PROVE  /\ RemoveAt(s, k) \in Seq(Credential) /\ Principals(RemoveAt(s, k))
         /\ \A i \in DOMAIN RemoveAt(s, k) : \E j \in DOMAIN s : j # k /\ RemoveAt(s, k)[i] = s[j]
         /\ \A j \in DOMAIN s : j # k => s[j] \in Range(RemoveAt(s, k))
<1> DEFINE t == RemoveAt(s, k)
           old(i) == IF i < k THEN i ELSE i + 1
<1>1. /\ t \in Seq(Credential) /\ Len(t) = Len(s) - 1
      /\ \A i \in 1 .. Len(s) - 1 : t[i] = IF i < k THEN s[i] ELSE s[i + 1]
  BY RemovedAt
<1> HIDE DEF t
<1>2. Len(s) \in Nat /\ Len(s) > 1 /\ k \in Nat /\ 1 <= k /\ k <= Len(s) /\ DOMAIN s = 1 .. Len(s)
  <2>1. Len(s) \in Nat /\ DOMAIN s = 1 .. Len(s) /\ k \in 1 .. Len(s)
    OBVIOUS
  <2> QED BY ONLY <2>1, Len(s) # 1
<1>3. DOMAIN t = 1 .. Len(s) - 1 /\ t # << >>
  BY <1>1, <1>2
<1>4. \A i \in DOMAIN t : old(i) \in DOMAIN s /\ old(i) # k /\ t[i] = s[old(i)]
  BY <1>1, <1>2, <1>3
<1>5. \A i, j \in DOMAIN t : i < j => old(i) < old(j)
  BY <1>2, <1>3
<1> HIDE DEF old
<1>6. Principals(t)
  <2>1. ASSUME NEW i \in DOMAIN t
        PROVE  /\ t[i].file[2] = t[i].id /\ (t[i] = Template \/ t[i].id > 1)
               /\ \A j \in DOMAIN t : i < j => t[i].id < t[j].id
    <3>1. t[i].file[2] = t[i].id /\ (t[i] = Template \/ t[i].id > 1)
      BY <1>4 DEF Principals
    <3>2. \A j \in DOMAIN t : i < j => t[i].id < t[j].id
      BY <1>4, <1>5 DEF Principals
    <3> QED BY <3>1, <3>2
  <2> QED BY <1>3, <2>1 DEF Principals
<1>7. ASSUME NEW j \in DOMAIN s, j # k PROVE s[j] \in Range(t)
  <2>1. CASE j < k
    <3>1. j \in 1 .. Len(s) - 1
      BY <1>2, <2>1
    <3> QED BY <1>1, <1>3, <2>1, <3>1 DEF Range
  <2>2. CASE k < j
    <3>1. j - 1 \in 1 .. Len(s) - 1 /\ ~(j - 1 < k) /\ (j - 1) + 1 = j
      BY <1>2, <2>2
    <3>2. t[j - 1] = s[j]
      BY <1>1, <3>1
    <3> QED BY <1>3, <3>1, <3>2 DEF Range
  <2> QED BY <1>2, <1>7, <2>1, <2>2
<1> QED BY <1>1, <1>4, <1>6, <1>7 DEF t

(* revoke finds a principal of the file, or none.                          *)
LEMMA PositionInFile ==
  ASSUME NEW arguments, config.credentials \in Seq(Credential), Position(arguments) # 0
  PROVE  Position(arguments) \in 1 .. Len(config.credentials)
<1> DEFINE I == {i \in 1 .. Len(config.credentials) :
                   \/ config.credentials[i].id = Given(arguments, "--id")
                   \/ config.credentials[i].name = Given(arguments, "--name")}
<1>1. Position(arguments) = IF I # {} THEN Min(I) ELSE 0
  BY DEF Position, SelectInSeq
<1>2. I # {} /\ I \in SUBSET Nat
  BY <1>1
<1>3. Min(I) \in I
  BY <1>2, LeastElement
<1> QED BY <1>1, <1>2, <1>3

(* revoke.                                                                 *)
LEMMA RevokeKeeps ==
  ASSUME FilesInv, NEW arguments, RevokePrincipal(arguments)
  PROVE  FilesInv'
<1>0. /\ NodeTyped /\ PrincipalsSound /\ SecretsDistinct /\ WithdrawnHidden /\ DeliveredWork
      /\ PrincipalsReadable /\ ServiceOld
  BY DEF FilesInv
<1> DEFINE s == config.credentials
           k == Position(arguments)
           t == RemoveAt(s, k)
           gone == {d \in delivered : d.id = s[k].id}
           c == [at |-> "remove", file |-> s[k].file]
<1>1. /\ config # Missing /\ Len(s) # 1 /\ k # 0
      /\ config' = [config EXCEPT !.credentials = RemoveAt(@, k)] /\ running' = c
      /\ delivered' = delivered \ gone /\ withdrawn' = withdrawn \cup {d.secret : d \in gone}
      /\ UNCHANGED <<secrets, fresh, rollbackFailed, service>>
  BY DEF RevokePrincipal
<1>2. config \in ConfigFile /\ s \in Seq(Credential) /\ Principals(s)
  BY <1>0, <1>1 DEF NodeTyped, ConfigFile, PrincipalsSound
<1>3. k \in 1 .. Len(s) /\ k \in DOMAIN s
  BY <1>1, <1>2, PositionInFile
<1> HIDE DEF k
<1>4. /\ t \in Seq(Credential) /\ Principals(t)
      /\ \A i \in DOMAIN t : \E j \in DOMAIN s : j # k /\ t[i] = s[j]
      /\ \A j \in DOMAIN s : j # k => s[j] \in Range(t)
  BY <1>1, <1>2, <1>3, PrincipalRemoved
<1>5. config' \in ConfigFile /\ config'.credentials = t /\ config' # Missing
  <2>1. config' = [config EXCEPT !.credentials = t]
    BY <1>1
  <2> HIDE DEF t
  <2>2. config' \in ConfigFile /\ config'.credentials = t
    BY <1>2, <1>4, <2>1 DEF ConfigFile
  <2> QED BY <2>2, NodeConfigAssumption
<1> HIDE DEF t
<1>6. s[k] \in Credential /\ s[k].file \in (Range(Slug) \cup {"credential"}) \X Nat /\ s[k].id \in Nat
  <2>1. s[k] \in Credential
    BY <1>2, <1>3
  <2> QED BY <2>1 DEF Credential
<1>7. c \in RemoveCommand /\ c.at = "remove" /\ c.file = s[k].file
  BY <1>6 DEF RemoveCommand
<1> HIDE DEF c
<1>8. /\ \A f : Named(t, f) => Named(s, f)
      /\ ~Named(t, s[k].file)
  <2>1. \A f : Named(t, f) => Named(s, f)
    BY <1>4 DEF Named
  <2>2. ~Named(t, s[k].file)
    <3> SUFFICES ASSUME NEW i \in DOMAIN t, t[i].file = s[k].file PROVE FALSE
      BY DEF Named
    <3>1. PICK j \in DOMAIN s : j # k /\ t[i] = s[j]
      BY <1>4
    <3> HIDE DEF s
    <3> QED BY <1>2, <1>3, <3>1, PrincipalsApart
  <2> QED BY <2>1, <2>2
<1>9. ASSUME NEW d \in delivered
      PROVE  \E j \in DOMAIN s : s[j] = [id |-> d.id, name |-> d.name, file |-> d.file]
                                  /\ s[j].id = d.id /\ s[j].file = d.file
  <2>1. PICK j \in DOMAIN s : s[j] = [id |-> d.id, name |-> d.name, file |-> d.file]
    BY <1>0 DEF DeliveredWork, Range
  <2> QED BY <2>1
<1>10. ASSUME NEW d \in gone PROVE d \in delivered /\ d.file = s[k].file
  <2>1. d \in delivered /\ d.id = s[k].id
    OBVIOUS
  <2>2. PICK j \in DOMAIN s : s[j].id = d.id /\ s[j].file = d.file
    BY <1>9, <2>1
  <2>3. j = k
    <3> HIDE DEF s
    <3> QED BY <1>2, <1>3, <2>1, <2>2, PrincipalsApart
  <2> QED BY <2>1, <2>2, <2>3
<1>11. \A d \in gone : d.secret \in Nat /\ d.secret < fresh
  <2> TAKE d \in gone
  <2>1. d \in delivered /\ d.file \in DOMAIN secrets
        /\ secrets[d.file] = [secret |-> d.secret, private |-> TRUE]
    BY <1>0 DEF DeliveredWork
  <2>2. secrets[d.file].secret = d.secret
    BY <2>1
  <2> QED BY <2>1, <2>2, SecretOfDelivered
<1>12. withdrawn' \subseteq Nat /\ \A w \in withdrawn' : w < fresh
  BY <1>0, <1>1, <1>11 DEF NodeTyped, SecretsDistinct
<1>13. SecretsDistinct' /\ PrincipalsSound' /\ ServiceOld'
  BY <1>0, <1>1, <1>4, <1>5, <1>12 DEF SecretsDistinct, PrincipalsSound, ServiceOld
<1>14. WithdrawnHidden'
  <2>1. ASSUME NEW f \in DOMAIN secrets, secrets[f].secret \in withdrawn'
        PROVE  f # Template.file /\ ~Named(t, f)
    <3>1. CASE secrets[f].secret \in withdrawn
      BY <1>0, <1>1, <1>8, <3>1 DEF WithdrawnHidden
    <3>2. CASE secrets[f].secret \in {d.secret : d \in gone}
      <4>1. PICK d \in gone : secrets[f].secret = d.secret
        BY <3>2
      <4>2. d \in delivered /\ d.file = s[k].file
        BY <1>10
      <4>3. f = d.file /\ f # Template.file
        BY <4>1, <4>2, SecretOfDelivered
      <4> QED BY <1>8, <4>2, <4>3
    <3> QED BY <1>1, <2>1, <3>1, <3>2
  <2> QED BY <1>1, <1>5, <2>1 DEF WithdrawnHidden
<1>15. ASSUME NEW d \in delivered'
       PROVE  /\ d \in delivered /\ d.file # s[k].file
              /\ [id |-> d.id, name |-> d.name, file |-> d.file] \in Range(t)
  <2>1. d \in delivered /\ d.id # s[k].id
    BY <1>1
  <2>2. PICK j \in DOMAIN s : s[j] = [id |-> d.id, name |-> d.name, file |-> d.file]
                                /\ s[j].id = d.id /\ s[j].file = d.file
    BY <1>9, <2>1
  <2>3. j # k
    BY <2>1, <2>2
  <2>4. s[j].file # s[k].file
    <3> HIDE DEF s
    <3> QED BY <1>2, <1>3, <2>3, PrincipalsApart
  <2> QED BY <1>4, <2>1, <2>2, <2>3, <2>4
<1>16. DeliveredWork'
  BY <1>0, <1>1, <1>5, <1>15 DEF DeliveredWork
<1>17. PrincipalsReadable'
  <2> SUFFICES ASSUME ~rollbackFailed, NEW i \in DOMAIN t, t[i] # Template
               PROVE  t[i].file \in DOMAIN secrets /\ secrets[t[i].file].private
    BY <1>1, <1>5 DEF PrincipalsReadable
  <2>1. PICK j \in DOMAIN s : t[i] = s[j]
    BY <1>4
  <2> QED BY <1>0, <1>1, <2>1 DEF PrincipalsReadable
<1>18. RemoveRuns'
  BY <1>1, <1>5, <1>7, <1>8, <1>15 DEF RemoveRuns
<1>19. CommandSecret' /\ IssueRuns' /\ SetupRuns'
  BY <1>1, <1>7, CommandKinds DEF CommandSecret, IssueRuns, SetupRuns
<1>20. NodeTyped'
  BY <1>0, <1>1, <1>5, <1>7, <1>12 DEF NodeTyped
<1> QED BY <1>13, <1>14, <1>16, <1>17, <1>18, <1>19, <1>20 DEF FilesInv

(* No secret that a configuration names was withdrawn.                     *)
LEMMA LoadedNotWithdrawn ==
  ASSUME FilesInv, config # Missing
  PROVE  Range(LoadedSecrets(config)) \cap withdrawn = {}
<1> SUFFICES ASSUME NEW i \in DOMAIN config.credentials,
                    ReadSecret(config.credentials[i].file) \in withdrawn
             PROVE  FALSE
  BY DEF Range, LoadedSecrets
<1> DEFINE f == config.credentials[i].file
<1>1. ReadSecret(f) # Missing
  BY NodeConfigAssumption DEF FilesInv, NodeTyped
<1>2. f \in DOMAIN secrets /\ secrets[f].secret \in withdrawn
  BY <1>1 DEF ReadSecret
<1>3. Named(config.credentials, f)
  BY DEF Named
<1> QED BY <1>2, <1>3 DEF FilesInv, WithdrawnHidden

(* A relay starts with the secrets it can read.                            *)
LEMMA ServiceStartsKeeps ==
  ASSUME FilesInv, ServiceStarts
  PROVE  FilesInv'
<1>0. /\ NodeTyped /\ PrincipalsSound /\ SecretsDistinct /\ WithdrawnHidden /\ DeliveredWork
      /\ PrincipalsReadable /\ CommandSecret /\ IssueRuns /\ SetupRuns /\ RemoveRuns
  BY DEF FilesInv
<1>1. /\ config # Missing
      /\ service' = [secrets |-> Range(LoadedSecrets(config)), revoked |-> withdrawn]
      /\ UNCHANGED <<config, secrets, running, fresh, delivered, withdrawn, rollbackFailed>>
  BY DEF ServiceStarts, Load
<1>2. ServiceOld'
  BY <1>1, LoadedNotWithdrawn DEF ServiceOld
<1>3. NodeTyped' /\ PrincipalsSound' /\ SecretsDistinct' /\ WithdrawnHidden' /\ DeliveredWork'
  BY <1>0, <1>1 DEF NodeTyped, PrincipalsSound, SecretsDistinct, WithdrawnHidden, DeliveredWork
<1>4. PrincipalsReadable' /\ CommandSecret' /\ SetupRuns' /\ RemoveRuns'
  BY <1>0, <1>1 DEF PrincipalsReadable, CommandSecret, SetupRuns, RemoveRuns
<1>5. IssueRuns'
  BY <1>0, <1>1 DEF IssueRuns, NewPrincipal
<1> QED BY <1>2, <1>3, <1>4, <1>5 DEF FilesInv

(* No file and no command.                                                 *)
LEMMA FilesInitial == NodeConfigInit => FilesInv
<1> SUFFICES ASSUME NodeConfigInit PROVE FilesInv
  OBVIOUS
<1>1. /\ config = Missing /\ secrets = << >> /\ running = NoCommand /\ fresh = 1
      /\ delivered = {} /\ withdrawn = {} /\ rollbackFailed = FALSE /\ service = Missing
  BY DEF NodeConfigInit
<1>2. DOMAIN << >> = {}
  OBVIOUS
<1>3. NodeTyped /\ PrincipalsSound /\ SecretsDistinct /\ WithdrawnHidden
  BY <1>1, <1>2 DEF NodeTyped, PrincipalsSound, SecretsDistinct, WithdrawnHidden
<1>4. DeliveredWork /\ PrincipalsReadable /\ ServiceOld
  BY <1>1 DEF DeliveredWork, PrincipalsReadable, ServiceOld
<1>5. CommandSecret /\ IssueRuns /\ SetupRuns /\ RemoveRuns
  BY <1>1, CommandKinds DEF CommandSecret, IssueRuns, SetupRuns, RemoveRuns
<1> QED BY <1>3, <1>4, <1>5 DEF FilesInv

(* Every command, step and failure keeps FilesInv.                         *)
LEMMA FilesStep == FilesInv /\ [NodeConfigNext]_nodeConfigVars => FilesInv'
<1> SUFFICES ASSUME FilesInv, [NodeConfigNext]_nodeConfigVars PROVE FilesInv'
  OBVIOUS
<1>1. CASE UNCHANGED nodeConfigVars
  BY <1>1 DEF nodeConfigVars, FilesInv, NodeTyped, PrincipalsSound, SecretsDistinct, WithdrawnHidden,
       DeliveredWork, PrincipalsReadable, CommandSecret, IssueRuns, NewPrincipal, SetupRuns,
       RemoveRuns, ServiceOld
<1>2. ASSUME NEW settings \in Settings,
             Initialize(settings) \/ EditSettings(settings) \/ SetupBegins(settings)
      PROVE  FilesInv'
  BY <1>2, InitializeKeeps, EditKeeps, SetupBeginsKeeps
<1>3. ASSUME NEW line \in CommandLines,
             IssueBegins(line.arguments) \/ RevokePrincipal(line.arguments) \/ Uninstall(line.arguments)
      PROVE  FilesInv'
  BY <1>3, IssueBeginsKeeps, RevokeKeeps, UninstallKeeps
<1>4. CASE WriteSecret \/ RestrictPermissions \/ SetupWritesConfig
  BY <1>4, SecretWrittenKeeps, RestrictKeeps, SetupWritesKeeps
<1>5. ASSUME NEW written \in BOOLEAN, IssueWritesConfig(written) \/ RollbackConfig(written)
      PROVE  FilesInv'
  BY <1>5, IssueWritesKeeps, RollbackKeeps
<1>6. CASE IssueDelivers \/ DeliveryFails \/ RemoveSecret \/ CommandDies \/ ServiceStarts
  BY <1>6, DeliversKeeps, DeliveryFailsKeeps, RemoveSecretKeeps, DiesKeeps, ServiceStartsKeeps
<1> QED BY <1>1, <1>2, <1>3, <1>4, <1>5, <1>6 DEF NodeConfigNext

(* For every number of clients, every set of command lines and settings: whatever file
   operation fails and wherever a command dies, a delivered and unrevoked enrollment is in
   the file with its secret, no command leaves a principal the relay could not load (a
   failed rollback aside), and no configuration and no relay started since holds a secret
   that was revoked or purged. *)
THEOREM CredentialsAlwaysSound == NodeConfigSpec => []CredentialsSound
<1>1. ASSUME FilesInv PROVE CredentialsSound
  <2>0. /\ NodeTyped /\ PrincipalsSound /\ SecretsDistinct /\ DeliveredWork /\ PrincipalsReadable
        /\ ServiceOld
    BY <1>1 DEF FilesInv
  <2>1. ASSUME NEW d \in delivered
        PROVE  /\ [id |-> d.id, name |-> d.name, file |-> d.file] \in Range(config.credentials)
               /\ ReadSecret(d.file) = d.secret
    <3>1. /\ d.file \in DOMAIN secrets /\ secrets[d.file] = [secret |-> d.secret, private |-> TRUE]
          /\ [id |-> d.id, name |-> d.name, file |-> d.file] \in Range(config.credentials)
      BY <2>0 DEF DeliveredWork
    <3>2. secrets[d.file].private = TRUE /\ secrets[d.file].secret = d.secret
      BY <3>1
    <3> QED BY <3>1, <3>2 DEF ReadSecret
  <2>2. ASSUME config # Missing, ~rollbackFailed,
               NEW i \in DOMAIN config.credentials, NEW j \in DOMAIN config.credentials,
               config.credentials[i] # Template, config.credentials[j] # Template
        PROVE  /\ LoadedSecrets(config)[i] # Missing
               /\ i # j => /\ LoadedSecrets(config)[i] # LoadedSecrets(config)[j]
                           /\ config.credentials[i].id # config.credentials[j].id
    <3> DEFINE s == config.credentials
    <3>1. s \in Seq(Credential) /\ Principals(s)
      BY <2>0, <2>2 DEF NodeTyped, ConfigFile, PrincipalsSound
    <3>2. /\ s[i].file \in DOMAIN secrets /\ secrets[s[i].file].private
          /\ s[j].file \in DOMAIN secrets /\ secrets[s[j].file].private
      BY <2>0, <2>2 DEF PrincipalsReadable
    <3>3. /\ LoadedSecrets(config)[i] = secrets[s[i].file].secret
          /\ LoadedSecrets(config)[j] = secrets[s[j].file].secret
      BY <3>2 DEF LoadedSecrets, ReadSecret
    <3>4. secrets[s[i].file].secret \in Nat
      BY <2>0, <3>2 DEF SecretsDistinct
    <3>5. i # j => s[i].file # s[j].file /\ s[i].id # s[j].id
      <4>0. i \in DOMAIN s /\ j \in DOMAIN s
        OBVIOUS
      <4> HIDE DEF s
      <4> QED BY <3>1, <4>0, PrincipalsApart
    <3> QED BY <2>0, <3>2, <3>3, <3>4, <3>5, NodeConfigAssumption DEF SecretsDistinct
  <2>3. IssuedCredentialsWork
    BY <2>1, <2>2 DEF IssuedCredentialsWork
  <2>4. RevokedStayOut
    BY <1>1, <2>0, LoadedNotWithdrawn DEF RevokedStayOut, ServiceOld
  <2> QED BY <2>3, <2>4 DEF CredentialsSound
<1> QED BY <1>1, FilesInitial, FilesStep, PTL DEF NodeConfigSpec
=============================================================================
