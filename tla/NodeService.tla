----------------------------- MODULE NodeService ----------------------------
(***************************************************************************)
(* The velum-node process around the relay: `serve` and its end, the admin *)
(* socket with one task per request, the control channel to the listener's *)
(* loop, the cover listener, and the systemd unit that deploy and          *)
(* uninstall keep. Connections and streams are module RelayNode, the       *)
(* certificate reload is module CertificateFiles.                          *)
(***************************************************************************)
EXTENDS Forest, FiniteSets

CONSTANTS
  Requesters,       \* local processes that send one admin request
  CoverClients,     \* connections to the cover listener
  CoverConfigs,     \* cover configurations, and NoProfile for none
  CoverHeads,       \* request heads a cover client may send
  MaxCover,         \* max_connections of the cover service
  ControlSlots      \* the control channel's size, 4 in the code

ASSUME ServiceAssumption == MaxCover \in Nat /\ ControlSlots \in Nat \ {0}

VARIABLES
  cover,            \* the cover configuration, or NoProfile
  serve,            \* "down", "cover", "quic", "admin", "loop", "closing", "admin gone"
  socketFile,       \* the admin socket is on disk
  queue,            \* the control channel
  draining,         \* the loop takes no more connections
  phase,            \* RuntimeStatus::phase
  request,          \* the admin request of each requester
  coverTask,        \* the cover listener's loop runs
  coverClient,      \* "none", "served", or its answer
  unit              \* the systemd unit: "none", "written", "enabled"

serviceVars == <<cover, serve, socketFile, queue, draining, phase, request, coverTask, coverClient, unit>>

NoRequest == [at |-> "none", what |-> "none", answer |-> "none"]

ServiceInit ==
  /\ cover \in CoverConfigs
  /\ serve = "down" /\ socketFile = FALSE /\ queue = << >> /\ draining = FALSE /\ phase = "running"
  /\ request = [r \in Requesters |-> NoRequest]
  /\ coverTask = FALSE /\ coverClient = [c \in CoverClients |-> "none"] /\ unit = "none"

AdminUnchanged == UNCHANGED <<queue, draining, phase, request>>
CoverUnchanged == UNCHANGED <<coverTask, coverClient>>

----------------------------------------------------------------------------
(* serve: the cover listener, the relay's endpoint, the cover task, the    *)
(* admin socket; an error on the way ends it, and everything it started.   *)
ServeBinds ==
  /\ \/ serve = "down" /\ serve' = "cover" /\ CoverUnchanged
     \/ serve = "cover" /\ serve' = "quic" /\ coverTask' = (cover # NoProfile) /\ UNCHANGED coverClient
  /\ UNCHANGED <<cover, socketFile, unit>> /\ AdminUnchanged
ServeFails ==
  /\ serve \in {"cover", "quic"}
  /\ serve' = "down" /\ coverTask' = FALSE
  /\ coverClient' = [c \in CoverClients |-> IF coverClient[c] = "served" THEN "dropped" ELSE coverClient[c]]
  /\ UNCHANGED <<cover, socketFile, unit>> /\ AdminUnchanged

(* admin::spawn, which replaces a socket that is there. Requests of an     *)
(* earlier process are over.                                               *)
AdminSpawns ==
  /\ serve = "quic" /\ serve' = "loop" /\ socketFile' = TRUE
  /\ queue' = << >> /\ draining' = FALSE /\ phase' = "running"
  /\ request' = [r \in Requesters |-> NoRequest]
  /\ UNCHANGED <<cover, unit>> /\ CoverUnchanged

(* admin::request and the task that handles it. Status is answered at      *)
(* once, a bad request too; drain and shutdown go through the channel,     *)
(* which may be full, or closed when the loop's function has returned.     *)
AdminRequest(r, what) ==
  /\ serve \in {"loop", "closing"} /\ socketFile /\ request[r] = NoRequest
  /\ request' = [request EXCEPT ![r] =
       CASE what = "status"              -> [at |-> "answered", what |-> what, answer |-> phase]
         [] what \in {"drain", "shutdown"} -> [at |-> "sending", what |-> what, answer |-> "none"]
         [] OTHER                        -> [at |-> "answered", what |-> what, answer |-> "error"]]
  /\ UNCHANGED <<cover, serve, socketFile, queue, draining, phase, unit>> /\ CoverUnchanged

(* Mutant: a full channel drops the control.                               *)
ControlTried(r) ==
  /\ request[r].at = "sending" /\ serve \in {"loop", "closing"}
  /\ queue' = IF Len(queue) < ControlSlots THEN Append(queue, request[r].what) ELSE queue
  /\ request' = [request EXCEPT ![r].at = "sent"]
  /\ UNCHANGED <<cover, serve, socketFile, draining, phase, unit>> /\ CoverUnchanged

ControlSent(r) ==
  /\ request[r].at = "sending" /\ serve \in {"loop", "closing"}
  /\ Len(queue) < ControlSlots
  /\ queue' = Append(queue, request[r].what)
  /\ request' = [request EXCEPT ![r].at = "sent"]
  /\ UNCHANGED <<cover, serve, socketFile, draining, phase, unit>> /\ CoverUnchanged

(* Two requests may set the phase in the other order than they were sent.  *)
ControlAnswered(r) ==
  /\ request[r].at = "sent"
  /\ phase' = IF request[r].what = "drain" THEN "draining" ELSE "stopping"
  /\ request' = [request EXCEPT ![r].at = "answered",
                   ![r].answer = IF request[r].what = "drain" THEN "draining" ELSE "stopping"]
  /\ UNCHANGED <<cover, serve, socketFile, queue, draining, unit>> /\ CoverUnchanged

(* The channel is closed: "stopping" is the answer to either request.      *)
ControlClosed(r) ==
  /\ request[r].at = "sending" /\ serve \notin {"loop", "closing"}
  /\ request' = [request EXCEPT ![r].at = "answered", ![r].answer = "stopping"]
  /\ UNCHANGED <<cover, serve, socketFile, queue, draining, phase, unit>> /\ CoverUnchanged

(* The loop: a control is taken; it breaks on Shutdown, or when it drains  *)
(* and the last connection is gone, or when its endpoint is. A signal is a *)
(* Shutdown that no requester sent.                                        *)
LoopTakes ==
  /\ serve = "loop" /\ queue # << >>
  /\ queue' = Tail(queue)
  /\ draining' = (draining \/ Head(queue) = "drain")
  /\ serve' = IF Head(queue) = "shutdown" THEN "closing" ELSE "loop"
  /\ UNCHANGED <<cover, socketFile, phase, request, unit>> /\ CoverUnchanged
LoopDrained ==
  /\ serve = "loop" /\ draining /\ serve' = "closing"
  /\ UNCHANGED <<cover, socketFile, queue, draining, phase, request, unit>> /\ CoverUnchanged
Signal ==
  /\ serve = "loop" /\ Len(queue) < ControlSlots
  /\ queue' = Append(queue, "shutdown")
  /\ UNCHANGED <<cover, serve, socketFile, draining, phase, request, unit>> /\ CoverUnchanged

(* The listener's function returns: the channel closes. Then the socket    *)
(* goes, and the cover listener with its connections.                      *)
ListenerReturns ==
  /\ serve = "closing" /\ serve' = "admin gone" /\ queue' = << >>
  /\ socketFile' = FALSE
  /\ UNCHANGED <<cover, draining, phase, request, unit>> /\ CoverUnchanged
ServeReturns ==
  /\ serve = "admin gone" /\ serve' = "down" /\ coverTask' = FALSE
  /\ coverClient' = [c \in CoverClients |-> IF coverClient[c] = "served" THEN "dropped" ELSE coverClient[c]]
  /\ UNCHANGED <<cover, socketFile, unit>> /\ AdminUnchanged

----------------------------------------------------------------------------
(* serve_cover_listener: a connection beyond the limit is dropped at once. *)
CoverServed == {c \in CoverClients : coverClient[c] = "served"}
CoverAccepts(c) ==
  /\ coverTask /\ coverClient[c] = "none"
  /\ coverClient' = [coverClient EXCEPT ![c] =
                       IF Cardinality(CoverServed) < MaxCover THEN "served" ELSE "dropped"]
  /\ UNCHANGED <<cover, serve, socketFile, coverTask, unit>> /\ AdminUnchanged
CoverEnds(c, head, inTime, reached) ==
  /\ coverClient[c] = "served"
  /\ coverClient' = [coverClient EXCEPT ![c] = CoverAnswer(cover, head, inTime, reached)]
  /\ UNCHANGED <<cover, serve, socketFile, coverTask, unit>> /\ AdminUnchanged

(* deploy: the unit, then systemd, which starts or restarts the service    *)
(* (Signal and ServeBinds). undeploy and uninstall: systemd stops the      *)
(* service, then its files go, the socket of a service started by hand     *)
(* included.                                                               *)
Deploy ==
  /\ unit \in {"none", "written"} /\ unit' = (IF unit = "none" THEN "written" ELSE "enabled")
  /\ UNCHANGED <<cover, serve, socketFile>> /\ CoverUnchanged /\ AdminUnchanged
UninstallService ==
  /\ unit # "none" => serve = "down"
  /\ unit' = "none" /\ socketFile' = FALSE
  /\ UNCHANGED <<cover, serve>> /\ CoverUnchanged /\ AdminUnchanged

ServiceNext ==
  \/ ServeBinds \/ ServeFails \/ AdminSpawns
  \/ LoopTakes \/ LoopDrained \/ Signal \/ ListenerReturns \/ ServeReturns
  \/ Deploy \/ UninstallService
  \/ \E r \in Requesters :
       \/ \E what \in {"status", "drain", "shutdown", "other"} : AdminRequest(r, what)
       \/ ControlSent(r) \/ ControlAnswered(r) \/ ControlClosed(r)
  \/ \E c \in CoverClients :
       \/ CoverAccepts(c)
       \/ \E head \in CoverHeads, inTime, reached \in BOOLEAN : CoverEnds(c, head, inTime, reached)

(* The process and the profile store, which is told of rotations only.     *)
ServiceSpec ==
  /\ ServiceInit /\ ForestInit
  /\ [][\/ ServiceNext /\ UNCHANGED forestVars
        \/ ForestNext /\ UNCHANGED serviceVars]_<<serviceVars, forestVars>>

----------------------------------------------------------------------------
(* A control that was answered is obeyed or still on its way, though the   *)
(* channel is small, requests come at once and a signal may take the last  *)
(* place: an operator who was told "stopping" need not ask again. And no   *)
(* cover connection outlives the service, or its limit.                    *)
ControlsObeyed ==
  /\ \A r \in Requesters :
       serve = "loop" /\ request[r].at = "answered" =>
         /\ request[r].what = "drain" => draining \/ \E i \in DOMAIN queue : queue[i] = "drain"
         /\ request[r].what = "shutdown" => \E i \in DOMAIN queue : queue[i] = "shutdown"
  /\ Cardinality(CoverServed) <= MaxCover
  /\ serve = "down" => CoverServed = {}

(* A running service obeys the controls and the profiles it was given.     *)
ServiceObeys == ControlsObeyed /\ NoProfileReturns
=============================================================================
