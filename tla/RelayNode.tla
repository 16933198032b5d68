----------------------------- MODULE RelayNode ------------------------------
(***************************************************************************)
(* The relay's QUIC listener (velum-node listener.rs and lib.rs) with the  *)
(* quota accounting of velum-server: one task per connection, one task per *)
(* stream, a session lease shared by the streams of a connection, drain    *)
(* and bounded shutdown.                                                   *)
(*                                                                         *)
(* A connection's session mutex is kept in `holder`; it is held across     *)
(* separate critical sections of the quota mutex, which are one step each. *)
(* Semaphore permits live exactly as long as the tasks that own them and   *)
(* are counted from the tasks.                                             *)
(***************************************************************************)
EXTENDS Naturals, FiniteSets

CONSTANTS
  None,
  Connections,          \* incoming connections
  Streams,              \* incoming streams
  ConnectionOf,         \* the connection of each stream
  Principals,
  MaxConnections,       \* QuicRelayConfig.max_connections
  MaxStreams,           \* QuicRelayConfig.max_streams_per_connection
  Quotas,               \* the PrincipalQuota the node may be configured with
  MaxLease              \* bound: leases handed out (u64 in the code)

ASSUME RelayAssumption ==
  /\ ConnectionOf \in [Streams -> Connections]
  /\ {MaxConnections, MaxStreams} \subseteq Nat \ {0}    \* QuicRelayConfig::validate
  /\ Quotas \subseteq [max_sessions: Nat, max_flows_per_session: Nat]
  /\ MaxLease \in Nat
  /\ IsFiniteSet(Connections) /\ IsFiniteSet(Streams)
  /\ None \notin Streams /\ None \notin [principal: Principals, lease: Nat]

VARIABLES
  listener,       \* serve_quic_listener
  conn,           \* the task of each connection
  lost,           \* connections whose transport is gone
  stream,         \* the task of each stream
  session,        \* ConnectionAdmission.session
  holder,         \* who holds the session mutex
  quota,          \* AdmissionControl.quota
  sessions,       \* AdmissionControl.sessions: flows of each (principal, lease)
  next_lease,
  status          \* RuntimeStatus counters

vars == <<listener, conn, lost, stream, session, holder, quota, sessions, next_lease,
          status>>
quotas == <<quota, sessions, next_lease>>

StreamsOf(c)     == {s \in Streams : ConnectionOf[s] = c}
ActiveConnections == {c \in Connections : conn[c] \in {"handshake", "serving", "leaving"}}
ActiveStreams(c) == {s \in StreamsOf(c) : stream[s].at \notin {"idle", "done", "aborted"}}

Leases  == 0 .. (MaxLease - 1)
(* A half of the relay awaits a read or a write_all, or has ended.  While  *)
(* it writes to one side it sees nothing of the other.                     *)
Half    == {"reading", "writing", "ended"}

Stream  == [at: {"idle", "reading", "reserving", "opening", "undoing", "connecting", "relaying",
                 "releasing", "ending", "done", "aborted"},
            principal: Principals \cup {None},
            lease: Leases \cup {None},
            created: BOOLEAN,       \* reserve_flow opened the session itself
            up: Half,               \* copy_quic_to_tcp
            down: Half]             \* copy_tcp_to_quic

(* A stream without locals: no task has been spawned, or it has ended. *)
Task(at) == [at |-> at, principal |-> None, lease |-> None,
             created |-> FALSE, up |-> "ended", down |-> "ended"]

Init ==
  /\ listener = "running"
  /\ conn = [c \in Connections |-> "absent"]
  /\ lost = {}
  /\ stream = [s \in Streams |-> Task("idle")]
  /\ session = [c \in Connections |-> None]
  /\ holder = [c \in Connections |-> None]
  /\ quota \in Quotas
  /\ sessions = [k \in {} |-> 0]
  /\ next_lease = 0
  /\ status = [connections |-> 0, flows |-> 0]

Goto(s, at) == stream' = [stream EXCEPT ![s].at = at]

-----------------------------------------------------------------------------
(* AdmissionControl *)

SessionQuotaExceeded(p) ==
  Cardinality({k \in DOMAIN sessions : k[1] = p}) >= quota.max_sessions

WithSession(p, l) == [k \in DOMAIN sessions \cup {<<p, l>>} |->
                        IF k = <<p, l>> THEN 0 ELSE sessions[k]]
WithoutSession(p, l) == [k \in DOMAIN sessions \ {<<p, l>>} |-> sessions[k]]

(* open_flow refuses an unknown session and a flow beyond the quota. *)
FlowAdmitted(k) == k \in DOMAIN sessions /\ sessions[k] < quota.max_flows_per_session

(* close_flow changes nothing for an unknown session or one without flows. *)
WithoutFlow(k) ==
  IF k \in DOMAIN sessions /\ sessions[k] > 0
  THEN [sessions EXCEPT ![k] = @ - 1] ELSE sessions

-----------------------------------------------------------------------------
(* The listener: try_acquire_owned on the connection semaphore. *)
Accept(c) ==
  /\ listener = "running"
  /\ conn[c] = "absent"
  /\ conn' = [conn EXCEPT ![c] = IF Cardinality(ActiveConnections) < MaxConnections
                                 THEN "handshake" ELSE "refused"]
  /\ UNCHANGED <<listener, lost, stream, session, holder, quotas, status>>

(* incoming.await *)
Handshake(c) ==
  /\ conn[c] = "handshake"
  /\ \/ /\ c \notin lost
        /\ conn' = [conn EXCEPT ![c] = "serving"]
        /\ status' = [status EXCEPT !.connections = @ + 1]
     \/ /\ conn' = [conn EXCEPT ![c] = "closed"]
        /\ UNCHANGED status
  /\ UNCHANGED <<listener, lost, stream, session, holder, quotas>>

(* The peer goes away, or the connection times out. *)
ConnectionLost(c) ==
  /\ conn[c] \in {"handshake", "serving"}
  /\ lost' = lost \cup {c}
  /\ UNCHANGED <<listener, conn, stream, session, holder, quotas, status>>

(* serve_connection accepts a stream. *)
AcceptStream(s) ==
  LET c == ConnectionOf[s]
  IN  /\ conn[c] = "serving"
      /\ stream[s].at = "idle"
      /\ IF Cardinality(ActiveStreams(c)) < MaxStreams
         THEN /\ Goto(s, "reading")
              /\ status' = [status EXCEPT !.flows = @ + 1]
         ELSE /\ Goto(s, "done")
              /\ UNCHANGED status
      /\ UNCHANGED <<listener, conn, lost, session, holder, quotas>>

PrincipalMismatch(c, p) == session[c] # None /\ session[c].principal # p

(* admit_datagram, run by the loop of the connection.  The bound leaves a   *)
(* lease to every stream.                                                  *)
AdmitDatagram(c, p) ==
  /\ conn[c] = "serving"
  /\ holder[c] = None
  /\ session[c] = None
  /\ ~SessionQuotaExceeded(p)
  /\ next_lease + Cardinality(Streams) < MaxLease
  /\ session' = [session EXCEPT ![c] = [principal |-> p, lease |-> next_lease]]
  /\ sessions' = WithSession(p, next_lease)
  /\ next_lease' = next_lease + 1
  /\ UNCHANGED <<listener, conn, lost, stream, holder, quota, status>>

-----------------------------------------------------------------------------
(* relay_quic_stream: the control record, within control_timeout.  A       *)
(* malformed, late or unauthenticated record and a destination that is not *)
(* allowed end the stream.                                                 *)
ReadRequest(s, p) ==
  /\ stream[s].at = "reading"
  /\ \/ stream' = [stream EXCEPT ![s].at = "reserving", ![s].principal = p]
     \/ Goto(s, "ending")
  /\ UNCHANGED <<listener, conn, lost, session, holder, quotas, status>>

(* reserve_flow up to the lease of the session. *)
ReserveFlow(s) ==
  LET c == ConnectionOf[s]
      p == stream[s].principal
  IN  /\ stream[s].at = "reserving"
      /\ holder[c] = None
      /\ IF PrincipalMismatch(c, p) \/ (session[c] = None /\ SessionQuotaExceeded(p))
         THEN /\ Goto(s, "ending")
              /\ UNCHANGED <<session, holder, sessions, next_lease>>
         ELSE /\ holder' = [holder EXCEPT ![c] = s]
              /\ IF session[c] = None
                 THEN /\ next_lease < MaxLease
                      /\ session' = [session EXCEPT ![c] = [principal |-> p, lease |-> next_lease]]
                      /\ sessions' = WithSession(p, next_lease)
                      /\ next_lease' = next_lease + 1
                      /\ stream' = [stream EXCEPT ![s].at = "opening", ![s].created = TRUE,
                                                  ![s].lease = next_lease]
                 ELSE /\ stream' = [stream EXCEPT ![s].at = "opening", ![s].created = FALSE,
                                                  ![s].lease = session[c].lease]
                      /\ UNCHANGED <<session, sessions, next_lease>>
      /\ UNCHANGED <<listener, conn, lost, quota, status>>

(* Mutant: a refused flow leaves the session mutex locked. *)
OpenFlowKeepingMutex(s) ==
  LET c == ConnectionOf[s]
      k == <<stream[s].principal, stream[s].lease>>
  IN  /\ stream[s].at = "opening"
      /\ IF FlowAdmitted(k)
         THEN /\ sessions' = [sessions EXCEPT ![k] = @ + 1]
              /\ holder' = [holder EXCEPT ![c] = None]
              /\ Goto(s, "connecting")
         ELSE /\ Goto(s, "ending")
              /\ UNCHANGED <<sessions, holder>>
      /\ UNCHANGED <<listener, conn, lost, session, quota, next_lease, status>>

(* open_flow.  A refused first flow gives its session back; so does one of *)
(* an unknown session, which ends the stream all the same.                 *)
OpenFlow(s) ==
  LET c == ConnectionOf[s]
      k == <<stream[s].principal, stream[s].lease>>
  IN  /\ stream[s].at = "opening"
      /\ IF FlowAdmitted(k)
         THEN /\ sessions' = [sessions EXCEPT ![k] = @ + 1]
              /\ holder' = [holder EXCEPT ![c] = None]
              /\ Goto(s, "connecting")
         ELSE /\ IF stream[s].created
                 THEN Goto(s, "undoing") /\ UNCHANGED holder
                 ELSE Goto(s, "ending") /\ holder' = [holder EXCEPT ![c] = None]
              /\ UNCHANGED sessions
      /\ UNCHANGED <<listener, conn, lost, session, quota, next_lease, status>>

(* Mutant: the connection forgets the session, its quota stays taken. *)
UndoSessionForgetting(s) ==
  LET c == ConnectionOf[s]
  IN  /\ stream[s].at = "undoing"
      /\ session' = [session EXCEPT ![c] = None]
      /\ holder' = [holder EXCEPT ![c] = None]
      /\ Goto(s, "ending")
      /\ UNCHANGED <<listener, conn, lost, quotas, status>>

UndoSession(s) ==
  LET c == ConnectionOf[s]
  IN  /\ stream[s].at = "undoing"
      /\ sessions' = WithoutSession(stream[s].principal, stream[s].lease)
      /\ session' = [session EXCEPT ![c] = None]
      /\ holder' = [holder EXCEPT ![c] = None]
      /\ Goto(s, "ending")
      /\ UNCHANGED <<listener, conn, lost, quota, next_lease, status>>

-----------------------------------------------------------------------------
(* Mutant: a target that cannot be reached ends the stream at once. *)
ConnectOrReturn(s) ==
  /\ stream[s].at = "connecting"
  /\ \/ stream' = [stream EXCEPT ![s].at = "relaying", ![s].up = "reading", ![s].down = "reading"]
     \/ Goto(s, "ending")
  /\ UNCHANGED <<listener, conn, lost, session, holder, quotas, status>>

(* relay_parts: TcpStream::connect within connect_timeout. *)
Connect(s) ==
  /\ stream[s].at = "connecting"
  /\ \/ stream' = [stream EXCEPT ![s].at = "relaying", ![s].up = "reading", ![s].down = "reading"]
     \/ Goto(s, "releasing")
  /\ UNCHANGED <<listener, conn, lost, session, holder, quotas, status>>

(* What the client sent is read, before or after the connection is lost,   *)
(* and written once the target takes it.                                   *)
UpCopies(s) ==
  /\ stream[s].at = "relaying" /\ stream[s].up # "ended"
  /\ stream' = [stream EXCEPT ![s].up = IF stream[s].up = "reading" THEN "writing" ELSE "reading"]
  /\ UNCHANGED <<listener, conn, lost, session, holder, quotas, status>>

(* The client has finished its half, and all of it was read. *)
UpEnds(s) ==
  /\ stream[s].at = "relaying" /\ stream[s].up = "reading"
  /\ stream' = [stream EXCEPT ![s].up = "ended",
                              ![s].at = IF stream[s].down = "ended" THEN "releasing" ELSE "relaying"]
  /\ UNCHANGED <<listener, conn, lost, session, holder, quotas, status>>

(* The target sends, and the client takes it while there is a connection.  *)
DownCopies(s) ==
  /\ stream[s].at = "relaying" /\ stream[s].down # "ended"
  /\ stream[s].down = "writing" => ConnectionOf[s] \notin lost
  /\ stream' = [stream EXCEPT ![s].down = IF stream[s].down = "reading" THEN "writing" ELSE "reading"]
  /\ UNCHANGED <<listener, conn, lost, session, holder, quotas, status>>

(* The target closes its half. *)
DownEnds(s) ==
  /\ stream[s].at = "relaying" /\ stream[s].down = "reading"
  /\ stream' = [stream EXCEPT ![s].down = "ended",
                              ![s].at = IF stream[s].up = "ended" THEN "releasing" ELSE "relaying"]
  /\ UNCHANGED <<listener, conn, lost, session, holder, quotas, status>>

(* try_join! ends with the first half that fails and drops the other. *)
DropHalves(s) ==
  stream' = [stream EXCEPT ![s].at = "releasing", ![s].up = "ended", ![s].down = "ended"]

(* The client or the target resets its stream. *)
RelayBreaks(s) ==
  /\ stream[s].at = "relaying"
  /\ DropHalves(s)
  /\ UNCHANGED <<listener, conn, lost, session, holder, quotas, status>>

(* A lost connection fails the half that reads from it or writes to it;    *)
(* one that waits for the target does not notice.                          *)
RelayFails(s) ==
  /\ stream[s].at = "relaying"
  /\ stream[s].up = "reading" \/ stream[s].down = "writing"
  /\ ConnectionOf[s] \in lost
  /\ DropHalves(s)
  /\ UNCHANGED <<listener, conn, lost, session, holder, quotas, status>>

(* release_flow, on every return path of relay_parts. *)
ReleaseFlow(s) ==
  LET c == ConnectionOf[s]
      k == <<stream[s].principal, stream[s].lease>>
  IN  /\ stream[s].at = "releasing"
      /\ holder[c] = None
      /\ sessions' = IF session[c] # None /\ session[c].lease = stream[s].lease
                     THEN WithoutFlow(k) ELSE sessions
      /\ Goto(s, "ending")
      /\ UNCHANGED <<listener, conn, lost, session, holder, quota, next_lease, status>>

(* Mutant: a stream that was refused is not uncounted. *)
StreamEndsIfReserved(s) ==
  /\ stream[s].at = "ending"
  /\ stream' = [stream EXCEPT ![s] = Task("done")]
  /\ status' = [status EXCEPT !.flows = IF stream[s].lease = None THEN @ ELSE @ - 1]
  /\ UNCHANGED <<listener, conn, lost, session, holder, quotas>>

(* The task of the stream ends: flow_closed, and its permit is dropped. *)
StreamEnds(s) ==
  /\ stream[s].at = "ending"
  /\ stream' = [stream EXCEPT ![s] = Task("done")]
  /\ status' = [status EXCEPT !.flows = @ - 1]
  /\ UNCHANGED <<listener, conn, lost, session, holder, quotas>>

-----------------------------------------------------------------------------
(* The loop of serve_connection breaks. *)
ConnectionLeaves(c) ==
  /\ conn[c] = "serving"
  /\ c \in lost
  /\ conn' = [conn EXCEPT ![c] = "leaving"]
  /\ UNCHANGED <<listener, lost, stream, session, holder, quotas, status>>

(* join_next until no flow is left, then ConnectionAdmission::close. *)
ConnectionCloses(c) ==
  /\ conn[c] = "leaving"
  /\ ActiveStreams(c) = {}
  /\ conn' = [conn EXCEPT ![c] = "closed"]
  /\ session' = [session EXCEPT ![c] = None]
  /\ sessions' = IF session[c] = None THEN sessions
                 ELSE WithoutSession(session[c].principal, session[c].lease)
  /\ status' = [status EXCEPT !.connections = @ - 1]
  /\ UNCHANGED <<listener, lost, stream, holder, quota, next_lease>>

-----------------------------------------------------------------------------
(* Control::Drain *)
Drain ==
  /\ listener = "running"
  /\ listener' = "draining"
  /\ UNCHANGED <<conn, lost, stream, session, holder, quotas, status>>

(* Control::Shutdown, the end of the control channel, or the end of a      *)
(* drain; endpoint.close ends every connection.                            *)
Shutdown ==
  /\ listener \in {"running", "draining"}
  /\ listener' = "closing"
  /\ lost' = lost \cup ActiveConnections
  /\ UNCHANGED <<conn, stream, session, holder, quotas, status>>

DrainEnds ==
  /\ listener = "draining"
  /\ ActiveConnections = {}
  /\ listener' = "closing"
  /\ UNCHANGED <<conn, lost, stream, session, holder, quotas, status>>

(* Mutant: the listener waits for its connections however long they take. *)
ShutdownTimeoutIgnored == FALSE /\ UNCHANGED vars

(* shutdown_timeout passes: abort_all. *)
ShutdownTimeout ==
  /\ listener = "closing"
  /\ ActiveConnections # {}
  /\ listener' = "aborting"
  /\ UNCHANGED <<conn, lost, stream, session, holder, quotas, status>>

(* An aborted connection task is dropped with the JoinSet of its flows;    *)
(* neither the leases nor the counters are given back.                     *)
AbortConnection(c) ==
  /\ listener = "aborting"
  /\ c \in ActiveConnections
  /\ conn' = [conn EXCEPT ![c] = "aborted"]
  /\ stream' = [s \in Streams |-> IF s \in ActiveStreams(c)
                                  THEN Task("aborted") ELSE stream[s]]
  /\ holder' = [holder EXCEPT ![c] = None]
  /\ UNCHANGED <<listener, lost, session, quotas, status>>

ListenerEnds ==
  /\ listener \in {"closing", "aborting"}
  /\ ActiveConnections = {}
  /\ listener' = "ended"
  /\ UNCHANGED <<conn, lost, stream, session, holder, quotas, status>>

-----------------------------------------------------------------------------
(* What a task does by itself, within its timeouts ... *)
StreamRuns(s) ==
  \/ \E p \in Principals : ReadRequest(s, p)
  \/ ReserveFlow(s) \/ OpenFlow(s) \/ UndoSession(s)
  \/ Connect(s) \/ RelayFails(s) \/ ReleaseFlow(s) \/ StreamEnds(s)
ConnectionRuns(c) ==
  Handshake(c) \/ ConnectionLeaves(c) \/ ConnectionCloses(c) \/ AbortConnection(c)
ListenerRuns == DrainEnds \/ ShutdownTimeout \/ ListenerEnds

(* ... and what clients, targets and the operator do. *)
Environment ==
  \/ \E s \in Streams : AcceptStream(s) \/ UpCopies(s) \/ UpEnds(s) \/ DownCopies(s) \/ DownEnds(s)
                         \/ RelayBreaks(s)
  \/ \E c \in Connections : Accept(c) \/ ConnectionLost(c)
  \/ \E c \in Connections, p \in Principals : AdmitDatagram(c, p)
  \/ Drain \/ Shutdown

Next ==
  \/ Environment
  \/ \E s \in Streams : StreamRuns(s)
  \/ \E c \in Connections : ConnectionRuns(c)
  \/ ListenerRuns

Spec == Init /\ [][Next]_vars

(* Every spawned task is polled, the timeouts on the control record, on    *)
(* the TCP connect and on shutdown fire, and the mutexes are first in,     *)
(* first out.  Nothing obliges clients, targets or the operator to act.    *)
Fairness ==
  /\ \A s \in Streams : SF_vars(StreamRuns(s))
  /\ \A c \in Connections : WF_vars(ConnectionRuns(c))
  /\ WF_vars(ListenerRuns)

FairSpec == Spec /\ Fairness

-----------------------------------------------------------------------------
(* The state has the shape of the structs; RuntimeStatus never goes below  *)
(* zero, where its usize counters would wrap.                              *)
TypeOK ==
  /\ listener \in {"running", "draining", "closing", "aborting", "ended"}
  /\ conn \in [Connections -> {"absent", "refused", "handshake", "serving", "leaving",
                               "closed", "aborted"}]
  /\ lost \subseteq Connections
  /\ stream \in [Streams -> Stream]
  /\ session \in [Connections -> [principal: Principals, lease: Leases] \cup {None}]
  /\ holder \in [Connections -> Streams \cup {None}]
  /\ DOMAIN sessions \subseteq Principals \X Leases
  /\ \A k \in DOMAIN sessions : sessions[k] \in Nat
  /\ next_lease \in 0 .. MaxLease
  /\ status \in [connections: Nat, flows: Nat]

Reserved(c) == {s \in StreamsOf(c) : stream[s].at \in {"connecting", "relaying", "releasing"}}

(* Every session that counts against a principal is held by exactly one    *)
(* connection, within the principal's quota: neither a refused first flow  *)
(* nor a lost connection leaves quota taken.  A connection belongs to one  *)
(* principal, and so do all flows on it, whatever the order of their       *)
(* control records.                                                        *)
LeasesOwned ==
  /\ \A k \in DOMAIN sessions :
       Cardinality({c \in Connections : session[c] # None
                      /\ <<session[c].principal, session[c].lease>> = k}) = 1
  /\ \A p \in Principals :
       Cardinality({k \in DOMAIN sessions : k[1] = p}) <= quota.max_sessions
  /\ \A c \in Connections :
       session[c] # None => <<session[c].principal, session[c].lease>> \in DOMAIN sessions
  /\ \A c \in Connections : \A s \in Reserved(c) :
       session[c] # None /\ stream[s].principal = session[c].principal
                         /\ stream[s].lease = session[c].lease

(* The flow count of a session is the number of streams that hold a flow   *)
(* of it, on every path out of relay_quic_stream, and within its quota.    *)
FlowsCounted ==
  \A c \in Connections : session[c] # None /\ conn[c] # "aborted" =>
    /\ sessions[<<session[c].principal, session[c].lease>>] = Cardinality(Reserved(c))
    /\ Cardinality(Reserved(c)) <= quota.max_flows_per_session

(* The counters of `velum status` are the admitted connections and active  *)
(* flows, until tasks are aborted.                                         *)
StatusExact ==
  (\A c \in Connections : conn[c] # "aborted") =>
    /\ status.connections = Cardinality({c \in Connections : conn[c] \in {"serving", "leaving"}})
    /\ status.flows = Cardinality(UNION {ActiveStreams(c) : c \in Connections})

(* Sessions, flows and status counters are exact on every path, those of   *)
(* refused flows, lost connections and aborted tasks included.             *)
CountsExact == LeasesOwned /\ FlowsCounted /\ StatusExact

(* velum-node.md: shutdown closes and applies its bound; it ends even when *)
(* a target never answers.                                                 *)
ShutdownEnds == (listener = "closing") ~> (listener = "ended")

(* Neither half of the flow awaits anything of the client. *)
WaitsForTarget(s) ==
  stream[s].at = "relaying" /\ stream[s].up # "reading" /\ stream[s].down # "writing"

(* A lost connection gives back its session, its flows and its slot,       *)
(* unless one of its flows waits for ever for a target that neither reads  *)
(* nor sends; architecture.md:172 has no such exception ("do not wait      *)
(* indefinitely"), the code does.                                          *)
LostConnectionEnds ==
  \A c \in Connections :
    c \in lost ~> \/ conn[c] = "aborted" \/ (c \notin ActiveConnections /\ session[c] = None)
                  \/ \E s \in StreamsOf(c) : []WaitsForTarget(s)

(* Nothing outlives its connection, nor any connection the shutdown.       *)
ConnectionsEnd == ShutdownEnds /\ LostConnectionEnds
=============================================================================
