----------------------------- MODULE TrafficHost ----------------------------
(***************************************************************************)
(* The privileged traffic host of velum-desktop-traffic-host: requests of  *)
(* an authenticated controller, a journal written before the routes change *)
(* and cleared after they are restored, and a cache of responses for       *)
(* retries. The host may die between any two steps of a request; requests  *)
(* may be sent again.                                                      *)
(*                                                                         *)
(* The platform backend is external: it applies a configuration, stops or  *)
(* restores, or fails, and a start that fails may have changed something.  *)
(* Routes and journal outlive the process.                                 *)
(***************************************************************************)
EXTENDS Naturals, Sequences, FiniteSets, FiniteSetsExt, Functions, TLC

CONSTANTS
  Nothing,
  HostRequests,     \* requests the controller may send
  HostCapabilities, \* what the host offers
  MaxCachedResponses,       \* 256 in the code
  MaxHostCrashes    \* bound: crashes of the host

VARIABLES
  host,             \* [state, generation, recoveryRequired] of a running host, or Nothing
  responses,        \* [request ids -> responses], the cache
  journal,          \* the generation of the record on disk, or Nothing
  applied,          \* the generation whose routes are installed, or Nothing
  working,          \* the request being answered and where it stands, or Nothing
  answered,         \* ids of the requests answered since the host started
  hostCrashes

HostStates == [state : {"stopped", "starting", "running", "stopping", "recovering", "failed"},
               generation : Nat, recoveryRequired : BOOLEAN]
HostSteps == {"write journal", "backend start", "backend stop", "backend recover",
              "clear stopped", "clear recovered"}

(* What the proofs need of the constants: requests carry unsigned ids and  *)
(* generations, and Nothing is no number, no state of a host and no step.  *)
ASSUME HostAssumption ==
  /\ MaxCachedResponses \in Nat
  /\ \A r \in HostRequests : r.id \in Nat /\ r.generation \in Nat
  /\ Nothing \notin Nat
  /\ Nothing \notin HostStates
  /\ Nothing \notin [request : HostRequests, at : HostSteps]

hostVars == <<host, responses, journal, applied, working, answered, hostCrashes>>

HostInit ==
  /\ host = Nothing /\ responses = << >> /\ journal = Nothing /\ applied = Nothing
  /\ working = Nothing /\ answered = {} /\ hostCrashes = 0

----------------------------------------------------------------------------
ValidNetwork(n) == n.prefix <= IF n.family = 4 THEN 32 ELSE 128
ValidConfiguration(c) ==
  /\ 576 <= c.mtu /\ c.mtu <= 9000
  /\ c.networks # {} /\ \A n \in c.networks : ValidNetwork(n)
  /\ 0 < c.dns /\ c.dns <= 16

(* Mutant: the oldest ids stay, and the cache grows no more.               *)
CacheFull(id, result) ==
  IF Cardinality(DOMAIN responses) < MaxCachedResponses THEN responses @@ (id :> result) ELSE responses

(* cache: the lowest id goes when there are too many.                      *)
Cache(id, result) ==
  LET all == [i \in DOMAIN responses \cup {id} |-> IF i = id THEN result ELSE responses[i]]
  IN IF Cardinality(DOMAIN all) <= MaxCachedResponses THEN all
     ELSE Restrict(all, DOMAIN all \ {Min(DOMAIN all)})

Respond(r, result) ==
  /\ responses' = Cache(r.id, result)
  /\ answered' = answered \cup {r.id}
  /\ working' = Nothing

SetHost(state, generation, recoveryRequired) ==
  host' = [state |-> state, generation |-> generation, recoveryRequired |-> recoveryRequired]

----------------------------------------------------------------------------
(* TrafficHost::new: a journal left behind means recovery first.           *)
HostStarts ==
  /\ host = Nothing
  /\ SetHost(IF journal = Nothing THEN "stopped" ELSE "recovering", 0, journal # Nothing)
  /\ UNCHANGED <<responses, journal, applied, working, answered, hostCrashes>>

HostCrashes ==
  /\ host # Nothing /\ hostCrashes < MaxHostCrashes
  /\ host' = Nothing /\ working' = Nothing /\ hostCrashes' = hostCrashes + 1
  /\ responses' = << >> /\ answered' = {}
  /\ UNCHANGED <<journal, applied>>

(* handle: a cached id is answered from the cache; otherwise version,      *)
(* capabilities and generation are checked before anything is done.        *)
Begin(r) ==
  /\ host # Nothing /\ working = Nothing
  /\ r.id \notin DOMAIN responses
  /\ UNCHANGED <<applied, hostCrashes>>
Rejection(r) ==
  IF r.version # 1 THEN "unsupported version"
  ELSE IF ~(r.capabilities \subseteq HostCapabilities) THEN "unsupported capability"
  ELSE IF r.generation < host.generation THEN "generation conflict"
  ELSE "none"

HandleRejected(r) ==
  /\ Begin(r) /\ Rejection(r) # "none"
  /\ Respond(r, Rejection(r))
  /\ UNCHANGED <<host, journal>>

Executes(r, command) ==
  /\ Begin(r) /\ Rejection(r) = "none" /\ r.command = command

HandleQuery(r) ==
  /\ \/ Executes(r, "hello") /\ Respond(r, "hello")
     \/ Executes(r, "status") /\ Respond(r, host.state)
  /\ UNCHANGED <<host, journal>>

(* Start: refused while recovery is due, refused for a bad configuration,  *)
(* nothing to do if this generation runs; otherwise the journal first.     *)
StartAnswer(r) ==
  IF host.recoveryRequired THEN "recovery required"
  ELSE IF ~ValidConfiguration(r.configuration) THEN "invalid configuration"
  ELSE IF host.state \in {"starting", "stopping"} THEN "busy"
  ELSE IF host.state = "running" /\ r.generation = host.generation THEN "started"
  ELSE "none"
StartAnswered(r) ==
  /\ Executes(r, "start") /\ StartAnswer(r) # "none"
  /\ Respond(r, StartAnswer(r))
  /\ UNCHANGED <<host, journal>>
StartBegins(r) ==
  /\ Executes(r, "start") /\ StartAnswer(r) = "none"
  /\ working' = [request |-> r, at |-> "write journal"]
  /\ UNCHANGED <<host, responses, answered, journal>>

Working(at) == working # Nothing /\ working.at = at
AtStep(at) == working' = [working EXCEPT !.at = at]

(* RecoveryJournal::write replaces the file; it may fail before or after.  *)
WriteJournal ==
  /\ Working("write journal")
  /\ journal' = working.request.generation
  /\ SetHost("starting", host.generation, host.recoveryRequired)
  /\ AtStep("backend start")
  /\ UNCHANGED <<responses, applied, answered, hostCrashes>>
WriteJournalFails ==
  /\ Working("write journal")
  /\ journal' \in {journal, working.request.generation}
  /\ SetHost("failed", host.generation, host.recoveryRequired)
  /\ Respond(working.request, "platform")
  /\ UNCHANGED <<applied, hostCrashes>>

BackendStart ==
  /\ Working("backend start")
  /\ applied' = working.request.generation
  /\ SetHost("running", working.request.generation, host.recoveryRequired)
  /\ Respond(working.request, "started")
  /\ UNCHANGED <<journal, hostCrashes>>
BackendStartFails ==
  /\ Working("backend start")
  /\ applied' \in {applied, working.request.generation}
  /\ SetHost("recovering", host.generation, TRUE)
  /\ Respond(working.request, "platform")
  /\ UNCHANGED <<journal, hostCrashes>>

StopAnswered(r) ==
  /\ Executes(r, "stop")
  /\ \/ host.recoveryRequired /\ Respond(r, "recovery required")
     \/ ~host.recoveryRequired /\ host.state = "stopped" /\ Respond(r, "stopped")
  /\ UNCHANGED <<host, journal>>

(* Mutant: the journal goes before the routes are back.                    *)
StopClearsFirst(r) ==
  /\ Executes(r, "stop") /\ ~host.recoveryRequired /\ host.state # "stopped"
  /\ SetHost("stopping", host.generation, FALSE)
  /\ journal' = Nothing
  /\ working' = [request |-> r, at |-> "backend stop"]
  /\ UNCHANGED <<responses, answered>>

StopBegins(r) ==
  /\ Executes(r, "stop") /\ ~host.recoveryRequired /\ host.state # "stopped"
  /\ SetHost("stopping", host.generation, FALSE)
  /\ working' = [request |-> r, at |-> "backend stop"]
  /\ UNCHANGED <<responses, answered, journal>>

(* recover begins in any state. A journal that cannot be read leaves the   *)
(* host recovering, without making recovery required.                      *)
RecoverBegins(r) ==
  /\ Executes(r, "recover")
  /\ IF journal = Nothing
     THEN SetHost("stopped", host.generation, FALSE) /\ Respond(r, "recovered")
     ELSE /\ SetHost("recovering", host.generation, host.recoveryRequired)
          /\ working' = [request |-> r, at |-> "backend recover"]
          /\ UNCHANGED <<responses, answered>>
  /\ UNCHANGED journal
RecoverUnreadable(r) ==
  /\ Executes(r, "recover")
  /\ SetHost("recovering", host.generation, host.recoveryRequired)
  /\ Respond(r, "platform")
  /\ UNCHANGED journal

(* The routes are back; then the journal goes.                             *)
BackendRestores ==
  /\ Working("backend stop") \/ Working("backend recover")
  /\ applied' = Nothing
  /\ AtStep(IF working.at = "backend stop" THEN "clear stopped" ELSE "clear recovered")
  /\ UNCHANGED <<host, responses, journal, answered, hostCrashes>>
ClearJournal ==
  /\ Working("clear stopped") \/ Working("clear recovered")
  /\ journal' = Nothing
  /\ SetHost("stopped",
       Max({host.generation, IF working.at = "clear stopped" THEN working.request.generation ELSE journal}),
       FALSE)
  /\ Respond(working.request, IF working.at = "clear stopped" THEN "stopped" ELSE "recovered")
  /\ UNCHANGED <<applied, hostCrashes>>
RestoreFails ==
  /\ working # Nothing
  /\ working.at \in {"backend stop", "backend recover", "clear stopped", "clear recovered"}
  /\ SetHost("recovering", host.generation, TRUE)
  /\ Respond(working.request, "platform")
  /\ UNCHANGED <<journal, applied, hostCrashes>>

HostNext ==
  \/ HostStarts \/ HostCrashes
  \/ \E r \in HostRequests :
       \/ HandleRejected(r) \/ HandleQuery(r) \/ StartAnswered(r) \/ StartBegins(r)
       \/ StopAnswered(r) \/ StopBegins(r) \/ RecoverBegins(r) \/ RecoverUnreadable(r)
  \/ WriteJournal \/ WriteJournalFails \/ BackendStart \/ BackendStartFails
  \/ BackendRestores \/ ClearJournal \/ RestoreFails

HostSpec == HostInit /\ [][HostNext]_hostVars

----------------------------------------------------------------------------
(* Whenever routes are installed there is a record of it on disk, so that  *)
(* a host started after a crash knows that it has to recover before it may *)
(* start anything; and it does know.                                       *)
JournalCoversRoutes ==
  /\ applied # Nothing => journal # Nothing
  /\ applied # Nothing /\ host # Nothing /\ answered = {} /\ working = Nothing =>
       host.recoveryRequired

(* A step that executes request i: it begins a change, or answers.         *)
Executed(i) ==
  \/ working = Nothing /\ working' # Nothing /\ working'.request.id = i
  \/ working = Nothing /\ responses' # responses /\ i \in DOMAIN responses'
       /\ i \notin DOMAIN responses

(* docs/helper-protocol-v1.md: an older profile never replaces the routes  *)
(* of a newer one, neither after a failed start nor after a crash; and the *)
(* controller's retry of a request whose response is among the newest is   *)
(* not answered a second time.                                             *)
NewerStaysOnce ==
  [][/\ applied # Nothing /\ applied' # Nothing => applied' >= applied
     /\ \A i \in answered : Executed(i) =>
          Cardinality({j \in answered : j > i}) >= MaxCachedResponses]_hostVars
=============================================================================
