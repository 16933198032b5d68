--------------------------- MODULE RelayNodeProofs --------------------------
(***************************************************************************)
(* Proofs about module RelayNode: the counts of the quota ledger and of    *)
(* RuntimeStatus are exact for any number of connections, streams and      *)
(* principals, any quota and any order of their steps.                     *)
(*                                                                         *)
(* CountsExact is not inductive. That a flow is given back to the session  *)
(* it was taken from needs the session mutex (MutexHeld), which keeps a    *)
(* stream that is opening its flow and the session it opens together       *)
(* (Bound), and that a session taken for a first flow carries no other     *)
(* until that flow is admitted (FirstFlow); that the status counters never *)
(* go below zero needs that they are never less than what they count, also *)
(* when tasks were aborted.                                                *)
(***************************************************************************)
EXTENDS RelayNode, FiniteSetTheorems, TLAPS

Idling    == {"idle", "done", "aborted"}
Locking   == {"opening", "undoing"}
Reserving == {"connecting", "relaying", "releasing"}

Key(c) == <<session[c].principal, session[c].lease>>

(* The ledger of AdmissionControl and the leases connections hold.         *)
Ledger ==
  /\ session \in [Connections -> [principal: Principals, lease: Leases] \cup {None}]
  /\ IsFiniteSet(DOMAIN sessions) /\ DOMAIN sessions \subseteq Principals \X Leases
  /\ \A k \in DOMAIN sessions : sessions[k] \in Nat
  /\ next_lease \in 0 .. MaxLease
  /\ quota \in Quotas
  /\ \A c \in Connections : session[c] # None =>
       Key(c) \in DOMAIN sessions /\ session[c].lease < next_lease
  /\ \A c, d \in Connections :
       session[c] # None /\ session[d] # None /\ session[c].lease = session[d].lease => c = d
  /\ \A k \in DOMAIN sessions : \E c \in Connections : session[c] # None /\ Key(c) = k
  /\ \A p \in Principals :
       Cardinality({k \in DOMAIN sessions : k[1] = p}) <= quota.max_sessions

(* The shape of the tasks; only a connection that is served has active     *)
(* streams, and only such a one, or one that was aborted, has a session; a *)
(* stream that reserves a flow was authenticated.                          *)
Attached ==
  /\ listener \in {"running", "draining", "closing", "aborting", "ended"}
  /\ conn \in [Connections -> {"absent", "refused", "handshake", "serving", "leaving",
                               "closed", "aborted"}]
  /\ lost \subseteq Connections
  /\ stream \in [Streams -> Stream]
  /\ holder \in [Connections -> Streams \cup {None}]
  /\ \A s \in Streams : stream[s].at \notin Idling => conn[ConnectionOf[s]] \in {"serving", "leaving"}
  /\ \A c \in Connections : session[c] # None => conn[c] \in {"serving", "leaving", "aborted"}
  /\ \A s \in Streams : stream[s].at = "reserving" => stream[s].principal \in Principals

(* A stream that opens a flow holds the mutex of its connection.           *)
MutexHeld ==
  \A s \in Streams : stream[s].at \in Locking => holder[ConnectionOf[s]] = s

(* A stream that opens or has a flow has it of its connection's session.   *)
Bound ==
  \A s \in Streams : stream[s].at \in Locking \cup Reserving =>
    /\ session[ConnectionOf[s]] # None
    /\ stream[s].principal = session[ConnectionOf[s]].principal
    /\ stream[s].lease = session[ConnectionOf[s]].lease

(* A session that is taken back has no flow.                               *)
FirstFlow ==
  \A s \in Streams :
    stream[s].at = "undoing" \/ (stream[s].at = "opening" /\ stream[s].created) =>
      \A t \in StreamsOf(ConnectionOf[s]) : stream[t].at \notin Reserving

Tasks == Attached /\ MutexHeld /\ Bound /\ FirstFlow

Served == {c \in Connections : conn[c] \in {"serving", "leaving"}}
Busy   == {s \in Streams : stream[s].at \notin Idling}

(* The status counters are never less than what they count, and are equal  *)
(* to it until a task is aborted.                                          *)
StatusCovers ==
  /\ status \in [connections: Nat, flows: Nat]
  /\ Cardinality(Served) <= status.connections
  /\ Cardinality(Busy) <= status.flows
  /\ (\A c \in Connections : conn[c] # "aborted") =>
       status.connections = Cardinality(Served) /\ status.flows = Cardinality(Busy)

RelayInv == Ledger /\ Tasks /\ FlowsCounted /\ StatusCovers

-----------------------------------------------------------------------------
(* The ledger *)

(* What the constants are. *)
LEMMA ConstantFacts ==
  /\ MaxLease \in Nat /\ Leases \subseteq Nat
  /\ \A l \in Nat : l \in Leases <=> l < MaxLease
  /\ \A q \in Quotas : q.max_sessions \in Nat /\ q.max_flows_per_session \in Nat
  /\ \A s \in Streams : ConnectionOf[s] \in Connections /\ s # None
  /\ \A x \in [principal: Principals, lease: Leases] : x # None
<1>1. MaxLease \in Nat /\ Leases \subseteq Nat /\ \A l \in Nat : l \in Leases <=> l < MaxLease
  BY RelayAssumption DEF Leases
<1>2. \A q \in Quotas : q.max_sessions \in Nat /\ q.max_flows_per_session \in Nat
  BY RelayAssumption
<1>3. \A s \in Streams : ConnectionOf[s] \in Connections /\ s # None
  BY RelayAssumption
<1>4. ASSUME NEW x \in [principal: Principals, lease: Leases] PROVE x # None
  <2>1. x \in [principal: Principals, lease: Nat] BY <1>1
  <2> QED BY <2>1, RelayAssumption
<1> QED BY <1>1, <1>2, <1>3, <1>4

(* The lease of a connection is of a known principal and number. *)
LEMMA SessionTyped ==
  ASSUME Ledger, NEW c \in Connections, session[c] # None
  PROVE  /\ session[c].principal \in Principals
         /\ session[c].lease \in Leases /\ session[c].lease \in Nat
         /\ Key(c) \in DOMAIN sessions /\ session[c].lease < next_lease
<1>1. session[c] \in [principal: Principals, lease: Leases] BY DEF Ledger
<1>2. session[c].principal \in Principals /\ session[c].lease \in Leases BY <1>1
<1> QED BY <1>2, ConstantFacts DEF Ledger

(* Steps that leave leases and quotas alone.                               *)
LEMMA LedgerSame ==
  ASSUME Ledger, UNCHANGED <<session, quotas>> PROVE Ledger'
BY DEF Ledger, Key, quotas

(* open_flow and close_flow change one count. *)
LEMMA LedgerCounts ==
  ASSUME Ledger, NEW k \in DOMAIN sessions, NEW n \in Nat, sessions' = [sessions EXCEPT ![k] = n],
         UNCHANGED <<session, quota, next_lease>>
  PROVE  Ledger'
<1>1. DOMAIN sessions' = DOMAIN sessions OBVIOUS
<1>2. \A j \in DOMAIN sessions' : sessions'[j] \in Nat BY DEF Ledger
<1> QED BY <1>1, <1>2 DEF Ledger, Key

(* open_session: the new lease is nobody's, and the principal had room. *)
LEMMA LedgerGrant ==
  ASSUME Ledger, NEW c \in Connections, NEW p \in Principals,
         session[c] = None, ~SessionQuotaExceeded(p), next_lease < MaxLease,
         session' = [session EXCEPT ![c] = [principal |-> p, lease |-> next_lease]],
         sessions' = WithSession(p, next_lease),
         next_lease' = next_lease + 1, quota' = quota
  PROVE  /\ Ledger'
         /\ <<p, next_lease>> \notin DOMAIN sessions
         /\ DOMAIN sessions' = DOMAIN sessions \cup {<<p, next_lease>>}
         /\ sessions'[<<p, next_lease>>] = 0
         /\ \A k \in DOMAIN sessions : sessions'[k] = sessions[k]
         /\ session'[c] # None /\ session'[c].principal = p /\ session'[c].lease = next_lease
         /\ \A d \in Connections \ {c} : session'[d] = session[d]
<1> DEFINE key == <<p, next_lease>>
<1>1. next_lease \in Nat /\ next_lease \in Leases BY ConstantFacts DEF Ledger
<1>2. key \notin DOMAIN sessions
  <2>1. SUFFICES ASSUME key \in DOMAIN sessions PROVE FALSE OBVIOUS
  <2>2. PICK d \in Connections : session[d] # None /\ Key(d) = key BY <2>1 DEF Ledger
  <2>3. session[d].lease = next_lease BY <2>2 DEF Key
  <2>4. session[d].lease \in Nat /\ session[d].lease < next_lease BY <2>2, SessionTyped
  <2> QED BY <2>3, <2>4, <1>1
<1>3. sessions' = [k \in DOMAIN sessions \cup {key} |-> IF k = key THEN 0 ELSE sessions[k]]
  BY DEF WithSession
<1>4. /\ DOMAIN sessions' = DOMAIN sessions \cup {key}
      /\ sessions'[key] = 0 /\ \A k \in DOMAIN sessions : sessions'[k] = sessions[k]
  BY <1>2, <1>3
<1>5. /\ session'[c] = [principal |-> p, lease |-> next_lease]
      /\ \A d \in Connections \ {c} : session'[d] = session[d]
      /\ session' \in [Connections -> [principal: Principals, lease: Leases] \cup {None}]
  BY <1>1 DEF Ledger
<1>6. session'[c] # None /\ session'[c].principal = p /\ session'[c].lease = next_lease
      /\ Key(c)' = key
  <2>1. [principal |-> p, lease |-> next_lease] \in [principal: Principals, lease: Leases] BY <1>1
  <2> QED BY <2>1, <1>5, ConstantFacts DEF Key
<1>7. \A d \in Connections \ {c} : Key(d)' = Key(d) BY <1>5 DEF Key
<1> HIDE DEF key
<1>8. IsFiniteSet(DOMAIN sessions') /\ DOMAIN sessions' \subseteq Principals \X Leases
  <2>1. IsFiniteSet(DOMAIN sessions') BY <1>4, FS_AddElement DEF Ledger
  <2>2. key \in Principals \X Leases BY <1>1 DEF key
  <2> QED BY <2>1, <2>2, <1>4 DEF Ledger
<1>9. \A k \in DOMAIN sessions' : sessions'[k] \in Nat BY <1>4 DEF Ledger
<1>10. next_lease' \in 0 .. MaxLease /\ quota' \in Quotas BY <1>1, ConstantFacts DEF Ledger
<1>11. ASSUME NEW d \in Connections, session'[d] # None
       PROVE  Key(d)' \in DOMAIN sessions' /\ session'[d].lease < next_lease'
  <2>1. CASE d = c BY <2>1, <1>1, <1>4, <1>6
  <2>2. CASE d # c
    <3>1. session[d] # None /\ session'[d] = session[d] BY <2>2, <1>5, <1>11
    <3>2. Key(d) \in DOMAIN sessions /\ session[d].lease \in Nat /\ session[d].lease < next_lease
      BY <3>1, SessionTyped
    <3> QED BY <3>1, <3>2, <2>2, <1>1, <1>4, <1>7
  <2> QED BY <2>1, <2>2
<1>12. ASSUME NEW d \in Connections, NEW e \in Connections, session'[d] # None, session'[e] # None,
              session'[d].lease = session'[e].lease
       PROVE  d = e
  <2>1. \A x \in Connections \ {c} : session'[x] # None => session'[x].lease # next_lease
    BY <1>1, <1>5, SessionTyped
  <2>2. CASE d # c /\ e # c BY <2>2, <1>5, <1>12 DEF Ledger
  <2> QED BY <2>1, <2>2, <1>6, <1>12
<1>13. ASSUME NEW k \in DOMAIN sessions'
       PROVE  \E d \in Connections : session'[d] # None /\ Key(d)' = k
  <2>1. CASE k = key BY <2>1, <1>6
  <2>2. CASE k # key
    <3>1. PICK d \in Connections : session[d] # None /\ Key(d) = k BY <2>2, <1>4, <1>13 DEF Ledger
    <3>2. d # c BY <3>1
    <3> QED BY <3>1, <3>2, <1>5, <1>7
  <2> QED BY <2>1, <2>2
<1>14. ASSUME NEW q \in Principals
       PROVE  Cardinality({k \in DOMAIN sessions' : k[1] = q}) <= quota'.max_sessions
  <2> DEFINE before == {k \in DOMAIN sessions : k[1] = q}
             after == {k \in DOMAIN sessions' : k[1] = q}
  <2>0. quota'.max_sessions = quota.max_sessions /\ quota.max_sessions \in Nat
    BY ConstantFacts DEF Ledger
  <2>1. before \subseteq DOMAIN sessions /\ IsFiniteSet(before) /\ Cardinality(before) \in Nat
    BY FS_Subset, FS_CardinalityType DEF Ledger
  <2>2. Cardinality(before) <= quota.max_sessions BY DEF Ledger
  <2>3. CASE q = p
    <3>1. after = before \cup {key} BY <2>3, <1>4 DEF key
    <3>2. key \notin before BY <1>2
    <3>3. ~(Cardinality(before) >= quota.max_sessions) BY <2>3 DEF SessionQuotaExceeded
    <3> HIDE DEF before, after
    <3>4. Cardinality(after) = Cardinality(before) + 1 BY <2>1, <3>1, <3>2, FS_AddElement
    <3> QED BY <2>0, <2>1, <3>3, <3>4 DEF after
  <2>4. CASE q # p
    <3>1. after = before BY <2>4, <1>4 DEF key
    <3> QED BY <3>1, <2>0, <2>2
  <2> QED BY <2>3, <2>4
<1>15. Ledger'
  BY <1>5, <1>8, <1>9, <1>10, <1>11, <1>12, <1>13, <1>14 DEF Ledger
<1> QED BY <1>2, <1>4, <1>5, <1>6, <1>15 DEF key

(* close_session: the session goes, with the lease of its connection. *)
LEMMA LedgerDrop ==
  ASSUME Ledger, NEW c \in Connections, session[c] # None,
         session' = [session EXCEPT ![c] = None],
         sessions' = WithoutSession(session[c].principal, session[c].lease),
         UNCHANGED <<next_lease, quota>>
  PROVE  /\ Ledger'
         /\ session'[c] = None /\ \A d \in Connections \ {c} : session'[d] = session[d]
         /\ \A k \in DOMAIN sessions' : sessions'[k] = sessions[k]
<1> DEFINE key == Key(c)
<1>1. /\ session'[c] = None /\ \A d \in Connections \ {c} : session'[d] = session[d]
      /\ session' \in [Connections -> [principal: Principals, lease: Leases] \cup {None}]
  BY DEF Ledger
<1>2. /\ DOMAIN sessions' = DOMAIN sessions \ {key}
      /\ \A k \in DOMAIN sessions' : sessions'[k] = sessions[k]
  BY DEF WithoutSession, Key
<1>3. \A d \in Connections \ {c} : Key(d)' = Key(d) BY <1>1 DEF Key
<1>4. \A d \in Connections \ {c} : session[d] # None => Key(d) # key
  BY DEF Ledger, Key
<1> HIDE DEF key
<1>5. IsFiniteSet(DOMAIN sessions') /\ DOMAIN sessions' \subseteq Principals \X Leases
      /\ \A k \in DOMAIN sessions' : sessions'[k] \in Nat
  BY <1>2, FS_RemoveElement DEF Ledger
<1>6. \A d \in Connections : session'[d] # None =>
        Key(d)' \in DOMAIN sessions' /\ session'[d].lease < next_lease'
  BY <1>1, <1>2, <1>3, <1>4 DEF Ledger
<1>7. \A d, e \in Connections :
        session'[d] # None /\ session'[e] # None /\ session'[d].lease = session'[e].lease => d = e
  BY <1>1 DEF Ledger
<1>8. ASSUME NEW k \in DOMAIN sessions'
      PROVE  \E d \in Connections : session'[d] # None /\ Key(d)' = k
  <2>1. PICK d \in Connections : session[d] # None /\ Key(d) = k BY <1>2, <1>8 DEF Ledger
  <2>2. d # c BY <2>1, <1>2, <1>8 DEF key
  <2> QED BY <2>1, <2>2, <1>1, <1>3
<1>9. ASSUME NEW q \in Principals
      PROVE  Cardinality({k \in DOMAIN sessions' : k[1] = q}) <= quota'.max_sessions
  <2> DEFINE before == {k \in DOMAIN sessions : k[1] = q}
             after == {k \in DOMAIN sessions' : k[1] = q}
  <2>0. quota'.max_sessions = quota.max_sessions /\ quota.max_sessions \in Nat
    BY ConstantFacts DEF Ledger
  <2>1. before \subseteq DOMAIN sessions /\ IsFiniteSet(before) /\ Cardinality(before) \in Nat
    BY FS_Subset, FS_CardinalityType DEF Ledger
  <2>2. Cardinality(before) <= quota.max_sessions BY DEF Ledger
  <2>3. after \subseteq before BY <1>2
  <2> HIDE DEF before, after
  <2>4. Cardinality(after) <= Cardinality(before) /\ Cardinality(after) \in Nat
    BY <2>1, <2>3, FS_Subset, FS_CardinalityType
  <2> QED BY <2>0, <2>1, <2>2, <2>4 DEF after
<1>10. next_lease' \in 0 .. MaxLease /\ quota' \in Quotas BY DEF Ledger
<1>11. Ledger'
  BY <1>1, <1>5, <1>6, <1>7, <1>8, <1>9, <1>10 DEF Ledger
<1> QED BY <1>1, <1>2, <1>11

-----------------------------------------------------------------------------
(* Counting *)

(* Sets of connections and of streams can be counted. *)
LEMMA Countable ==
  /\ \A S : S \subseteq Streams \/ S \subseteq Connections => IsFiniteSet(S) /\ Cardinality(S) \in Nat
  /\ \A c : IsFiniteSet(Reserved(c)) /\ Cardinality(Reserved(c)) \in Nat
  /\ IsFiniteSet(Served) /\ Cardinality(Served) \in Nat
  /\ IsFiniteSet(Busy) /\ Cardinality(Busy) \in Nat
<1>1. ASSUME NEW S, S \subseteq Streams \/ S \subseteq Connections
      PROVE  IsFiniteSet(S) /\ Cardinality(S) \in Nat
  BY <1>1, RelayAssumption, FS_Subset, FS_CardinalityType
<1>2. \A c : Reserved(c) \subseteq Streams BY DEF Reserved, StreamsOf
<1>3. Served \subseteq Connections /\ Busy \subseteq Streams BY DEF Served, Busy
<1> QED BY <1>1, <1>2, <1>3

(* Which streams have a flow. *)
LEMMA ReservedIs ==
  \A c \in Connections, s \in Streams :
    s \in Reserved(c) <=> ConnectionOf[s] = c /\ stream[s].at \in Reserving
BY DEF Reserved, StreamsOf, Reserving

(* Flows stay counted by a step that neither admits nor releases one. *)
LEMMA CountedSame ==
  ASSUME FlowsCounted, UNCHANGED <<session, quotas>>,
         \A s \in Streams : stream'[s].at \in Reserving <=> stream[s].at \in Reserving,
         \A c \in Connections : conn[c] = "aborted" => conn'[c] = "aborted"
  PROVE  FlowsCounted'
<1>1. \A c : Reserved(c)' = Reserved(c)
  BY DEF Reserved, StreamsOf, Reserving
<1> QED BY <1>1 DEF FlowsCounted, quotas

(* The status covers what it covered by a step that changes neither. *)
LEMMA StatusSame ==
  ASSUME StatusCovers, status' = status, Served' = Served, Busy' = Busy,
         \A c \in Connections : conn[c] = "aborted" => conn'[c] = "aborted"
  PROVE  StatusCovers'
BY DEF StatusCovers

(* Connections stay counted by a step that only moves a connection between *)
(* places where it has no session or has the same claims.                  *)
LEMMA ConnectionMoves ==
  ASSUME RelayInv, UNCHANGED <<stream, session, holder, quotas>>,
         NEW c \in Connections, NEW at, conn' = [conn EXCEPT ![c] = at],
         listener' \in {"running", "draining", "closing", "aborting", "ended"}, lost' \subseteq Connections,
         \/ at = conn[c]
         \/ conn[c] \in {"absent", "handshake"}
            /\ at \in {"absent", "refused", "handshake", "serving", "closed"}
         \/ conn[c] = "serving" /\ at = "leaving"
  PROVE  Ledger' /\ Tasks' /\ FlowsCounted'
<1>1. /\ conn'[c] = at /\ \A d \in Connections \ {c} : conn'[d] = conn[d]
      /\ conn' \in [Connections -> {"absent", "refused", "handshake", "serving", "leaving",
                                     "closed", "aborted"}]
  BY DEF RelayInv, Tasks, Attached
<1>2. \A d \in Connections : conn[d] = "aborted" => conn'[d] = "aborted" BY <1>1
<1>3. /\ \A d \in Connections : conn[d] \in {"serving", "leaving"} => conn'[d] \in {"serving", "leaving"}
  BY <1>1
<1>4. Attached'
  <2>1. \A s \in Streams : stream'[s].at \notin Idling => conn'[ConnectionOf[s]] \in {"serving", "leaving"}
    BY <1>3, ConstantFacts DEF RelayInv, Tasks, Attached
  <2>2. \A d \in Connections : session'[d] # None => conn'[d] \in {"serving", "leaving", "aborted"}
    BY <1>2, <1>3 DEF RelayInv, Tasks, Attached
  <2> QED BY <2>1, <2>2, <1>1 DEF RelayInv, Tasks, Attached
<1>5. MutexHeld' /\ Bound' /\ FirstFlow'
  BY DEF RelayInv, Tasks, MutexHeld, Bound, FirstFlow
<1>6. Ledger' BY LedgerSame DEF RelayInv
<1>7. FlowsCounted' BY <1>2, CountedSame DEF RelayInv
<1> QED BY <1>4, <1>5, <1>6, <1>7 DEF Tasks

(* A stream goes on without taking or giving a mutex or a flow. *)
LEMMA QuietMove ==
  ASSUME RelayInv, NEW s \in Streams,
         stream' \in [Streams -> Stream], \A t \in Streams \ {s} : stream'[t] = stream[t],
         stream'[s].at \notin Idling => conn[ConnectionOf[s]] \in {"serving", "leaving"},
         stream[s].at \notin Locking, stream'[s].at \notin Locking,
         stream'[s].at = "reserving" => stream'[s].principal \in Principals,
         stream'[s].at \in Reserving <=> stream[s].at \in Reserving,
         stream'[s].at \in Reserving =>
            stream'[s].principal = stream[s].principal /\ stream'[s].lease = stream[s].lease,
         UNCHANGED <<listener, conn, lost, session, holder, quotas>>
  PROVE  Ledger' /\ Tasks' /\ FlowsCounted'
<1>1. Ledger' BY LedgerSame DEF RelayInv
<1>2. Attached' BY DEF RelayInv, Tasks, Attached
<1>3. MutexHeld' BY DEF RelayInv, Tasks, MutexHeld
<1>4. Bound' BY DEF RelayInv, Tasks, Bound
<1>5. FirstFlow'
  <2>1. \A t \in Streams : stream'[t].at \in Locking => stream'[t] = stream[t] OBVIOUS
  <2>2. \A t \in Streams : stream'[t].at \in Reserving <=> stream[t].at \in Reserving OBVIOUS
  <2> QED BY <2>1, <2>2 DEF RelayInv, Tasks, FirstFlow, StreamsOf, Locking
<1>6. FlowsCounted' BY CountedSame DEF RelayInv
<1> QED BY <1>1, <1>2, <1>3, <1>4, <1>5, <1>6 DEF Tasks

-----------------------------------------------------------------------------
(* The listener and the connections *)

(* Steps of the listener, and the loss of a transport, move no task. *)
LEMMA ListenerKeeps ==
  ASSUME RelayInv,
         \/ Drain \/ Shutdown \/ DrainEnds \/ ShutdownTimeout \/ ListenerEnds
         \/ \E c \in Connections : ConnectionLost(c)
         \/ UNCHANGED vars
  PROVE  RelayInv'
<1>1. /\ UNCHANGED <<conn, stream, session, holder, quotas, status>>
      /\ listener' \in {"running", "draining", "closing", "aborting", "ended"}
      /\ lost' \subseteq Connections
  BY DEF Drain, Shutdown, DrainEnds, ShutdownTimeout, ListenerEnds, ConnectionLost, vars, quotas,
     ActiveConnections, RelayInv, Tasks, Attached
<1>2. Ledger' BY <1>1, LedgerSame DEF RelayInv
<1>3. Attached' BY <1>1 DEF RelayInv, Tasks, Attached
<1>4. MutexHeld' /\ Bound' /\ FirstFlow'
  BY <1>1 DEF RelayInv, Tasks, MutexHeld, Bound, FirstFlow
<1>5. FlowsCounted' BY <1>1, CountedSame DEF RelayInv
<1>6. StatusCovers' BY <1>1 DEF RelayInv, StatusCovers, Served, Busy
<1> QED BY <1>2, <1>3, <1>4, <1>5, <1>6 DEF RelayInv, Tasks

(* Accept, and the loop of serve_connection that breaks. *)
LEMMA AcceptKeeps ==
  ASSUME RelayInv, NEW c \in Connections, Accept(c) \/ ConnectionLeaves(c) PROVE RelayInv'
<1>1. PICK at : /\ conn' = [conn EXCEPT ![c] = at]
                /\ \/ conn[c] = "absent" /\ at \in {"handshake", "refused"}
                   \/ conn[c] = "serving" /\ at = "leaving"
  BY DEF Accept, ConnectionLeaves
<1>2. UNCHANGED <<listener, lost, stream, session, holder, quotas, status>>
  BY DEF Accept, ConnectionLeaves
<1>3. listener' \in {"running", "draining", "closing", "aborting", "ended"} /\ lost' \subseteq Connections
  BY <1>2 DEF RelayInv, Tasks, Attached
<1>4. Ledger' /\ Tasks' /\ FlowsCounted'
  BY <1>1, <1>2, <1>3, ConnectionMoves
<1>5. /\ conn'[c] = at /\ \A d \in Connections \ {c} : conn'[d] = conn[d]
  BY <1>1 DEF RelayInv, Tasks, Attached
<1>6. Served' = Served /\ Busy' = Busy
  BY <1>1, <1>2, <1>5 DEF Served, Busy
<1>7. StatusCovers' BY <1>1, <1>2, <1>5, <1>6, StatusSame DEF RelayInv
<1> QED BY <1>4, <1>7 DEF RelayInv

(* A connection is counted when its handshake succeeds. *)
LEMMA HandshakeKeeps ==
  ASSUME RelayInv, NEW c \in Connections, Handshake(c) PROVE RelayInv'
<1>1. PICK at \in {"serving", "closed"} :
        /\ conn' = [conn EXCEPT ![c] = at]
        /\ status' = IF at = "serving" THEN [status EXCEPT !.connections = @ + 1] ELSE status
  BY DEF Handshake
<1>2. conn[c] = "handshake" /\ UNCHANGED <<listener, lost, stream, session, holder, quotas>>
  BY DEF Handshake
<1>3. listener' \in {"running", "draining", "closing", "aborting", "ended"} /\ lost' \subseteq Connections
  BY <1>2 DEF RelayInv, Tasks, Attached
<1>4. Ledger' /\ Tasks' /\ FlowsCounted'
  BY <1>1, <1>2, <1>3, ConnectionMoves
<1>5. /\ conn'[c] = at /\ \A d \in Connections \ {c} : conn'[d] = conn[d]
  BY <1>1 DEF RelayInv, Tasks, Attached
<1>6. StatusCovers'
  <2>1. Busy' = Busy BY <1>2 DEF Busy
  <2>2. CASE at = "closed"
    <3>1. Served' = Served BY <2>2, <1>2, <1>5 DEF Served
    <3> QED BY <3>1, <2>1, <2>2, <1>1, <1>2, <1>5, StatusSame DEF RelayInv
  <2>3. CASE at = "serving"
    <3>1. Served' = Served \cup {c} /\ c \notin Served BY <2>3, <1>2, <1>5 DEF Served
    <3>2. Cardinality(Served') = Cardinality(Served) + 1
      BY <3>1, Countable, FS_AddElement
    <3>3. status \in [connections: Nat, flows: Nat] BY DEF RelayInv, StatusCovers
    <3>4. /\ status' \in [connections: Nat, flows: Nat]
          /\ status'.connections = status.connections + 1 /\ status'.flows = status.flows
      BY <2>3, <3>3, <1>1
    <3>5. \A d \in Connections : conn[d] = "aborted" => conn'[d] = "aborted" BY <1>2, <1>5
    <3>6. status.connections \in Nat /\ Cardinality(Served) \in Nat BY <3>3, Countable
    <3> QED BY <3>2, <3>4, <3>5, <3>6, <2>1 DEF RelayInv, StatusCovers
  <2> QED BY <2>2, <2>3
<1> QED BY <1>4, <1>6 DEF RelayInv

-----------------------------------------------------------------------------
(* The streams *)

(* What is known of a stream that is not idle. *)
LEMMA StreamTyped ==
  ASSUME RelayInv, NEW s \in Streams
  PROVE  /\ stream \in [Streams -> Stream] /\ stream[s] \in Stream
         /\ ConnectionOf[s] \in Connections
         /\ stream[s].principal \in Principals \cup {None} /\ stream[s].lease \in Leases \cup {None}
         /\ stream[s].at \notin Idling => conn[ConnectionOf[s]] \in {"serving", "leaving"}
<1>1. stream \in [Streams -> Stream] /\ stream[s] \in Stream BY DEF RelayInv, Tasks, Attached
<1>2. stream[s].principal \in Principals \cup {None} /\ stream[s].lease \in Leases \cup {None}
  BY <1>1 DEF Stream
<1> QED BY <1>1, <1>2, ConstantFacts DEF RelayInv, Tasks, Attached

(* Goto changes where one stream stands, and nothing else of it. *)
LEMMA GotoStep ==
  ASSUME RelayInv, NEW s \in Streams,
         NEW at \in {"idle", "reading", "reserving", "opening", "undoing", "connecting", "relaying",
                     "releasing", "ending", "done", "aborted"},
         Goto(s, at)
  PROVE  /\ stream' \in [Streams -> Stream] /\ \A t \in Streams \ {s} : stream'[t] = stream[t]
         /\ stream'[s].at = at /\ stream'[s].principal = stream[s].principal
         /\ stream'[s].lease = stream[s].lease /\ stream'[s].created = stream[s].created
<1>1. stream \in [Streams -> Stream] BY StreamTyped
<1> QED BY <1>1 DEF Goto, Stream

(* Steps of a relay between the admission of its flow and its release. *)
LEMMA RelayKeeps ==
  ASSUME RelayInv, NEW s \in Streams,
         Connect(s) \/ UpCopies(s) \/ UpEnds(s) \/ DownCopies(s) \/ DownEnds(s)
           \/ RelayBreaks(s) \/ RelayFails(s)
  PROVE  RelayInv'
<1>1. /\ stream[s].at \in {"connecting", "relaying"}
      /\ UNCHANGED <<listener, conn, lost, session, holder, quotas, status>>
  BY DEF Connect, UpCopies, UpEnds, DownCopies, DownEnds, RelayBreaks, RelayFails
<1>2. stream \in [Streams -> Stream] BY StreamTyped
<1>3. /\ stream' \in [Streams -> Stream] /\ \A t \in Streams \ {s} : stream'[t] = stream[t]
      /\ stream'[s].at \in {"relaying", "releasing"}
      /\ stream'[s].principal = stream[s].principal /\ stream'[s].lease = stream[s].lease
  <2>1. CASE Connect(s) BY <2>1, <1>2 DEF Connect, Goto, Stream, Half
  <2>2. CASE UpCopies(s)
    <3>0. stream[s] \in Stream /\ stream[s].at = "relaying" BY <1>2, <2>2 DEF UpCopies
    <3>1. PICK half \in Half :
            stream' = [stream EXCEPT ![s].up = half]
      BY <2>2, <3>0 DEF UpCopies, Half
    <3> DEFINE next == [stream[s] EXCEPT !.up = half]
    <3>2. /\ next \in Stream /\ next.at \in {"relaying", "releasing"}
          /\ next.principal = stream[s].principal /\ next.lease = stream[s].lease
      BY ONLY <3>0, <3>1 DEF Stream, Half
    <3>3. stream' = [stream EXCEPT ![s] = next] BY <3>1, <1>2
    <3> HIDE DEF next
    <3> QED BY <1>2, <3>2, <3>3
  <2>3. CASE UpEnds(s)
    <3>0. stream[s] \in Stream /\ stream[s].at = "relaying" BY <1>2, <2>3 DEF UpEnds
    <3>1. PICK at \in {"relaying", "releasing"} :
            stream' = [stream EXCEPT ![s].up = "ended", ![s].at = at]
      BY <2>3, <3>0 DEF UpEnds
    <3> DEFINE next == [stream[s] EXCEPT !.up = "ended", !.at = at]
    <3>2. /\ next \in Stream /\ next.at \in {"relaying", "releasing"}
          /\ next.principal = stream[s].principal /\ next.lease = stream[s].lease
      BY ONLY <3>0, <3>1 DEF Stream, Half
    <3>3. stream' = [stream EXCEPT ![s] = next] BY <3>1, <1>2
    <3> HIDE DEF next
    <3> QED BY <1>2, <3>2, <3>3
  <2>4. CASE DownCopies(s)
    <3>0. stream[s] \in Stream /\ stream[s].at = "relaying" BY <1>2, <2>4 DEF DownCopies
    <3>1. PICK half \in Half :
            stream' = [stream EXCEPT ![s].down = half]
      BY <2>4, <3>0 DEF DownCopies, Half
    <3> DEFINE next == [stream[s] EXCEPT !.down = half]
    <3>2. /\ next \in Stream /\ next.at \in {"relaying", "releasing"}
          /\ next.principal = stream[s].principal /\ next.lease = stream[s].lease
      BY ONLY <3>0, <3>1 DEF Stream, Half
    <3>3. stream' = [stream EXCEPT ![s] = next] BY <3>1, <1>2
    <3> HIDE DEF next
    <3> QED BY <1>2, <3>2, <3>3
  <2>5. CASE DownEnds(s)
    <3>0. stream[s] \in Stream /\ stream[s].at = "relaying" BY <1>2, <2>5 DEF DownEnds
    <3>1. PICK at \in {"relaying", "releasing"} :
            stream' = [stream EXCEPT ![s].down = "ended", ![s].at = at]
      BY <2>5, <3>0 DEF DownEnds
    <3> DEFINE next == [stream[s] EXCEPT !.down = "ended", !.at = at]
    <3>2. /\ next \in Stream /\ next.at \in {"relaying", "releasing"}
          /\ next.principal = stream[s].principal /\ next.lease = stream[s].lease
      BY ONLY <3>0, <3>1 DEF Stream, Half
    <3>3. stream' = [stream EXCEPT ![s] = next] BY <3>1, <1>2
    <3> HIDE DEF next
    <3> QED BY <1>2, <3>2, <3>3
  <2>6. CASE RelayBreaks(s) \/ RelayFails(s)
    <3> DEFINE next == [stream[s] EXCEPT !.at = "releasing", !.up = "ended", !.down = "ended"]
    <3>1. stream' = [stream EXCEPT ![s] = next] /\ stream[s] \in Stream
      BY <2>6, <1>2 DEF RelayBreaks, RelayFails, DropHalves
    <3>2. /\ next \in Stream /\ next.at = "releasing"
          /\ next.principal = stream[s].principal /\ next.lease = stream[s].lease
      BY ONLY <3>1 DEF Stream, Half
    <3> HIDE DEF next
    <3> QED BY <1>2, <3>1, <3>2
  <2> QED BY <2>1, <2>2, <2>3, <2>4, <2>5, <2>6
<1>4. conn[ConnectionOf[s]] \in {"serving", "leaving"}
  BY <1>1, StreamTyped DEF Idling
<1>5. Ledger' /\ Tasks' /\ FlowsCounted'
  BY <1>1, <1>3, <1>4, QuietMove DEF Locking, Reserving
<1>6. Served' = Served /\ Busy' = Busy
  BY <1>1, <1>3 DEF Served, Busy, Idling
<1>7. StatusCovers' BY <1>1, <1>6, StatusSame DEF RelayInv
<1> QED BY <1>5, <1>7 DEF RelayInv

(* The control record names a principal, or ends the stream. *)
LEMMA ReadRequestKeeps ==
  ASSUME RelayInv, NEW s \in Streams, NEW p \in Principals, ReadRequest(s, p) PROVE RelayInv'
<1>1. /\ stream[s].at = "reading"
      /\ UNCHANGED <<listener, conn, lost, session, holder, quotas, status>>
  BY DEF ReadRequest
<1>2. stream \in [Streams -> Stream] BY StreamTyped
<1>3. /\ stream' \in [Streams -> Stream] /\ \A t \in Streams \ {s} : stream'[t] = stream[t]
      /\ stream'[s].at \in {"reserving", "ending"}
      /\ stream'[s].at = "reserving" => stream'[s].principal \in Principals
  <2>1. CASE Goto(s, "ending") BY <2>1, GotoStep
  <2>2. CASE stream' = [stream EXCEPT ![s].at = "reserving", ![s].principal = p]
    <3> DEFINE next == [stream[s] EXCEPT !.at = "reserving", !.principal = p]
    <3>1. stream[s] \in Stream BY <1>2
    <3>2. next \in Stream /\ next.at = "reserving" /\ next.principal = p BY ONLY <3>1, p \in Principals DEF Stream
    <3>3. stream' = [stream EXCEPT ![s] = next] BY <2>2, <1>2
    <3> HIDE DEF next
    <3>4. stream' \in [Streams -> Stream] /\ stream'[s] = next /\ \A t \in Streams \ {s} : stream'[t] = stream[t]
      BY <1>2, <3>2, <3>3
    <3> QED BY <3>2, <3>4
  <2> QED BY <2>1, <2>2 DEF ReadRequest
<1>4. conn[ConnectionOf[s]] \in {"serving", "leaving"}
  BY <1>1, StreamTyped DEF Idling
<1>5. Ledger' /\ Tasks' /\ FlowsCounted'
  BY <1>1, <1>3, <1>4, QuietMove DEF Locking, Reserving
<1>6. Served' = Served /\ Busy' = Busy
  BY <1>1, <1>3 DEF Served, Busy, Idling
<1>7. StatusCovers' BY <1>1, <1>6, StatusSame DEF RelayInv
<1> QED BY <1>5, <1>7 DEF RelayInv

(* A stream is counted while its task lives. *)
LEMMA AcceptStreamKeeps ==
  ASSUME RelayInv, NEW s \in Streams, AcceptStream(s) PROVE RelayInv'
<1>1. /\ conn[ConnectionOf[s]] = "serving" /\ stream[s].at = "idle"
      /\ UNCHANGED <<listener, conn, lost, session, holder, quotas>>
  BY DEF AcceptStream
<1>2. PICK at \in {"reading", "done"} :
        /\ Goto(s, at)
        /\ status' = IF at = "reading" THEN [status EXCEPT !.flows = @ + 1] ELSE status
  BY DEF AcceptStream
<1>3. /\ stream' \in [Streams -> Stream] /\ \A t \in Streams \ {s} : stream'[t] = stream[t]
      /\ stream'[s].at = at
  BY <1>2, GotoStep
<1>4. Ledger' /\ Tasks' /\ FlowsCounted'
  BY <1>1, <1>3, QuietMove DEF Locking, Reserving
<1>5. StatusCovers'
  <2>1. Served' = Served BY <1>1 DEF Served
  <2>2. CASE at = "done"
    <3>1. Busy' = Busy BY <2>2, <1>1, <1>3 DEF Busy, Idling
    <3> QED BY <3>1, <2>1, <2>2, <1>1, <1>2, StatusSame DEF RelayInv
  <2>3. CASE at = "reading"
    <3>1. Busy' = Busy \cup {s} /\ s \notin Busy BY <2>3, <1>1, <1>3 DEF Busy, Idling
    <3>2. Cardinality(Busy') = Cardinality(Busy) + 1 BY <3>1, Countable, FS_AddElement
    <3>3. status \in [connections: Nat, flows: Nat] BY DEF RelayInv, StatusCovers
    <3>4. /\ status' \in [connections: Nat, flows: Nat]
          /\ status'.connections = status.connections /\ status'.flows = status.flows + 1
      BY <2>3, <3>3, <1>2
    <3>5. status.flows \in Nat /\ Cardinality(Busy) \in Nat BY <3>3, Countable
    <3> QED BY <3>2, <3>4, <3>5, <2>1, <1>1 DEF RelayInv, StatusCovers
  <2> QED BY <2>2, <2>3
<1> QED BY <1>4, <1>5 DEF RelayInv

(* A stream task ends and leaves the count of flows.                       *)
LEMMA StreamEndsKeeps ==
  ASSUME RelayInv, NEW s \in Streams, StreamEnds(s) PROVE RelayInv'
<1>1. /\ stream[s].at = "ending" /\ UNCHANGED <<listener, conn, lost, session, holder, quotas>>
      /\ stream' = [stream EXCEPT ![s] = Task("done")]
      /\ status' = [status EXCEPT !.flows = @ - 1]
  BY DEF StreamEnds
<1>2. stream \in [Streams -> Stream] BY StreamTyped
<1>3. /\ stream' \in [Streams -> Stream] /\ \A t \in Streams \ {s} : stream'[t] = stream[t]
      /\ stream'[s].at = "done"
  <2>1. Task("done") \in Stream /\ Task("done").at = "done" BY DEF Task, Stream, Half
  <2> QED BY <2>1, <1>1, <1>2
<1>4. Ledger' /\ Tasks' /\ FlowsCounted'
  BY <1>1, <1>3, QuietMove DEF Locking, Reserving, Idling
<1>5. StatusCovers'
  <2>1. Served' = Served BY <1>1 DEF Served
  <2>2. Busy' = Busy \ {s} /\ s \in Busy BY <1>1, <1>3 DEF Busy, Idling
  <2>3. Cardinality(Busy') = Cardinality(Busy) - 1 BY <2>2, Countable, FS_RemoveElement
  <2>4. Cardinality(Busy') \in Nat
    BY <2>2, Countable, FS_RemoveElement, FS_CardinalityType
  <2>5. status \in [connections: Nat, flows: Nat] /\ Cardinality(Busy) <= status.flows
    BY DEF RelayInv, StatusCovers
  <2>6. /\ status'.connections = status.connections /\ status'.flows = status.flows - 1
    BY <2>5, <1>1
  <2>7. status.flows \in Nat /\ Cardinality(Busy) \in Nat BY <2>5, Countable
  <2>8. status' \in [connections: Nat, flows: Nat]
    <3>1. status.flows - 1 \in Nat BY <2>3, <2>4, <2>5, <2>7
    <3> QED BY <3>1, <2>5, <1>1
  <2> QED BY <2>1, <2>3, <2>5, <2>6, <2>7, <2>8, <1>1 DEF RelayInv, StatusCovers
<1> QED BY <1>4, <1>5 DEF RelayInv

-----------------------------------------------------------------------------
(* Sessions and flows *)

(* No flow and no lock on a connection without a session; nobody but the   *)
(* holder is locked.                                                       *)
LEMMA NoSessionNoFlow ==
  ASSUME RelayInv, NEW c \in Connections, session[c] = None
  PROVE  Reserved(c) = {} /\ \A s \in StreamsOf(c) : stream[s].at \notin Locking \cup Reserving
<1>1. \A s \in StreamsOf(c) : stream[s].at \notin Locking \cup Reserving
  BY DEF RelayInv, Tasks, Bound, StreamsOf
<1> QED BY <1>1 DEF Reserved, Reserving

(* The stream that opens or undoes a flow holds the mutex alone.           *)
LEMMA OneLocked ==
  ASSUME RelayInv, NEW c \in Connections, NEW s \in StreamsOf(c), stream[s].at \in Locking
  PROVE  holder[c] = s /\ \A t \in StreamsOf(c) \ {s} : stream[t].at \notin Locking
BY DEF RelayInv, Tasks, MutexHeld, StreamsOf

(* When the mutex is free no stream is opening a flow.                     *)
LEMMA FreeUnlocked ==
  ASSUME RelayInv, NEW c \in Connections, holder[c] = None
  PROVE  \A t \in StreamsOf(c) : stream[t].at \notin Locking
BY ConstantFacts DEF RelayInv, Tasks, MutexHeld, StreamsOf

(* Flows stay counted when a session without flows is granted ... *)
LEMMA CountedGrant ==
  ASSUME RelayInv, NEW c \in Connections, NEW p, session[c] = None,
         quota' = quota, conn' = conn,
         \A s \in Streams : stream'[s].at \in Reserving <=> stream[s].at \in Reserving,
         session'[c].principal = p, session'[c].lease = next_lease,
         \A d \in Connections \ {c} : session'[d] = session[d],
         sessions'[<<p, next_lease>>] = 0,
         \A k \in DOMAIN sessions : sessions'[k] = sessions[k]
  PROVE  FlowsCounted'
<1>1. \A d : Reserved(d)' = Reserved(d) BY DEF Reserved, StreamsOf, Reserving
<1>2. Reserved(c) = {} BY NoSessionNoFlow
<1>3. Cardinality(Reserved(c)) = 0 BY <1>2, FS_EmptySet
<1>4. 0 <= quota.max_flows_per_session BY ConstantFacts DEF RelayInv, Ledger
<1>5. \A d \in Connections \ {c} : session[d] # None =>
        sessions'[<<session[d].principal, session[d].lease>>]
          = sessions[<<session[d].principal, session[d].lease>>]
  BY SessionTyped DEF RelayInv, Key
<1> QED BY <1>1, <1>3, <1>4, <1>5 DEF RelayInv, FlowsCounted

(* ... and when one is given back. *)
LEMMA CountedDrop ==
  ASSUME RelayInv, NEW c \in Connections, quota' = quota, Ledger',
         \A d \in Connections : conn[d] = "aborted" => conn'[d] = "aborted",
         \A s \in Streams : stream'[s].at \in Reserving <=> stream[s].at \in Reserving,
         session'[c] = None, \A d \in Connections \ {c} : session'[d] = session[d],
         \A k \in DOMAIN sessions' : sessions'[k] = sessions[k]
  PROVE  FlowsCounted'
<1>1. \A d : Reserved(d)' = Reserved(d) BY DEF Reserved, StreamsOf, Reserving
<1>2. \A d \in Connections : session'[d] # None =>
        <<session'[d].principal, session'[d].lease>> \in DOMAIN sessions'
  BY DEF Ledger, Key
<1> QED BY <1>1, <1>2 DEF RelayInv, FlowsCounted

(* A datagram opens the session of its connection.                         *)
LEMMA AdmitDatagramKeeps ==
  ASSUME RelayInv, NEW c \in Connections, NEW p \in Principals, AdmitDatagram(c, p)
  PROVE  RelayInv'
<1>1. /\ conn[c] = "serving" /\ session[c] = None /\ ~SessionQuotaExceeded(p)
      /\ session' = [session EXCEPT ![c] = [principal |-> p, lease |-> next_lease]]
      /\ sessions' = WithSession(p, next_lease) /\ next_lease' = next_lease + 1
      /\ UNCHANGED <<listener, conn, lost, stream, holder, quota, status>>
  BY DEF AdmitDatagram
<1>2. next_lease < MaxLease
  <2>1. next_lease + Cardinality(Streams) < MaxLease BY DEF AdmitDatagram
  <2>2. Cardinality(Streams) \in Nat /\ next_lease \in Nat /\ MaxLease \in Nat
    BY Countable, ConstantFacts DEF RelayInv, Ledger
  <2> QED BY <2>1, <2>2
<1>3. /\ Ledger' /\ sessions'[<<p, next_lease>>] = 0
      /\ \A k \in DOMAIN sessions : sessions'[k] = sessions[k]
      /\ session'[c] # None /\ session'[c].principal = p /\ session'[c].lease = next_lease
      /\ \A d \in Connections \ {c} : session'[d] = session[d]
  BY <1>1, <1>2, LedgerGrant DEF RelayInv
<1>4. Attached' BY <1>1, <1>3 DEF RelayInv, Tasks, Attached
<1>5. MutexHeld' /\ FirstFlow' BY <1>1 DEF RelayInv, Tasks, MutexHeld, FirstFlow
<1>6. Bound'
  BY <1>1, <1>3, ConstantFacts DEF RelayInv, Tasks, Bound
<1>7. FlowsCounted' BY <1>1, <1>3, CountedGrant
<1>8. StatusCovers' BY <1>1 DEF RelayInv, StatusCovers, Served, Busy
<1> QED BY <1>3, <1>4, <1>5, <1>6, <1>7, <1>8 DEF RelayInv, Tasks

(* reserve_flow refuses, shares the session of the connection or opens it. *)
LEMMA ReserveFlowKeeps ==
  ASSUME RelayInv, NEW s \in Streams, ReserveFlow(s) PROVE RelayInv'
<1> DEFINE c == ConnectionOf[s]
           p == stream[s].principal
<1>0. c \in Connections /\ s \in StreamsOf(c) BY ConstantFacts DEF StreamsOf
<1>1. /\ stream[s].at = "reserving" /\ holder[c] = None
      /\ UNCHANGED <<listener, conn, lost, quota, status>>
  BY DEF ReserveFlow
<1>2. p \in Principals /\ conn[c] \in {"serving", "leaving"} /\ stream \in [Streams -> Stream]
  BY <1>1 DEF RelayInv, Tasks, Attached, Idling
<1>3. \A t \in StreamsOf(c) : stream[t].at \notin Locking
  BY <1>0, <1>1, FreeUnlocked
<1>4. CASE Goto(s, "ending") /\ UNCHANGED <<session, holder, sessions, next_lease>>
  <2>1. /\ stream' \in [Streams -> Stream] /\ \A t \in Streams \ {s} : stream'[t] = stream[t]
        /\ stream'[s].at = "ending"
    BY <1>4, GotoStep
  <2>2. UNCHANGED quotas BY <1>1, <1>4 DEF quotas
  <2>3. Ledger' /\ Tasks' /\ FlowsCounted'
    BY <1>1, <1>2, <1>4, <2>1, <2>2, QuietMove DEF Locking, Reserving
  <2>4. Served' = Served /\ Busy' = Busy BY <1>1, <2>1 DEF Served, Busy, Idling
  <2>5. StatusCovers' BY <1>1, <2>4, StatusSame DEF RelayInv
  <2> QED BY <2>3, <2>5 DEF RelayInv
<1>5. CASE /\ ~(PrincipalMismatch(c, p) \/ (session[c] = None /\ SessionQuotaExceeded(p)))
           /\ holder' = [holder EXCEPT ![c] = s]
           /\ IF session[c] = None
              THEN /\ next_lease < MaxLease
                   /\ session' = [session EXCEPT ![c] = [principal |-> p, lease |-> next_lease]]
                   /\ sessions' = WithSession(p, next_lease)
                   /\ next_lease' = next_lease + 1
                   /\ stream' = [stream EXCEPT ![s].at = "opening", ![s].created = TRUE,
                                               ![s].lease = next_lease]
              ELSE /\ stream' = [stream EXCEPT ![s].at = "opening", ![s].created = FALSE,
                                               ![s].lease = session[c].lease]
                   /\ UNCHANGED <<session, sessions, next_lease>>
  <2> DEFINE l == IF session[c] = None THEN next_lease ELSE session[c].lease
  <2>1. Ledger' /\ FlowsCounted' /\ session'[c] # None /\ session'[c].principal = p
        /\ session'[c].lease = l /\ l \in Leases
        /\ (\A d \in Connections \ {c} : session'[d] = session[d])
        /\ stream' = [stream EXCEPT ![s].at = "opening", ![s].created = (session[c] = None), ![s].lease = l]
    <3> HIDE DEF c, p
    <3>1. CASE session[c] = None
      <4>1. /\ next_lease < MaxLease
            /\ session' = [session EXCEPT ![c] = [principal |-> p, lease |-> next_lease]]
            /\ sessions' = WithSession(p, next_lease)
            /\ next_lease' = next_lease + 1 /\ ~SessionQuotaExceeded(p) /\ quota' = quota
            /\ stream' = [stream EXCEPT ![s].at = "opening", ![s].created = TRUE,
                                        ![s].lease = next_lease]
        BY <1>1, <1>5, <3>1
      <4>2. /\ Ledger' /\ sessions'[<<p, next_lease>>] = 0
            /\ \A k \in DOMAIN sessions : sessions'[k] = sessions[k]
            /\ session'[c] # None /\ session'[c].principal = p /\ session'[c].lease = next_lease
            /\ \A d \in Connections \ {c} : session'[d] = session[d]
        BY <1>0, <1>2, <3>1, <4>1, LedgerGrant DEF RelayInv
      <4>3. next_lease \in Leases
        BY <4>1, ConstantFacts DEF RelayInv, Ledger
      <4>4. \A t \in Streams : stream'[t].at \in Reserving <=> stream[t].at \in Reserving
        BY <4>1, <1>1, <1>2 DEF Reserving
      <4>5. FlowsCounted'
        BY <1>0, <1>1, <3>1, <4>1, <4>2, <4>4, CountedGrant
      <4>6. (session[c] = None) = TRUE BY <3>1
      <4> QED BY <4>1, <4>2, <4>3, <4>5, <4>6, <3>1
    <3>2. CASE session[c] # None
      <4>1. /\ UNCHANGED <<session, sessions, next_lease>> /\ ~PrincipalMismatch(c, p)
            /\ stream' = [stream EXCEPT ![s].at = "opening", ![s].created = FALSE,
                                        ![s].lease = session[c].lease]
        BY <1>5, <3>2
      <4>2. Ledger' BY <4>1, <1>1, LedgerSame DEF RelayInv, quotas
      <4>3. session[c].principal = p BY <3>2, <4>1 DEF PrincipalMismatch
      <4>4. session[c].lease \in Leases BY <1>0, <3>2, SessionTyped DEF RelayInv
      <4>5. \A t \in Streams : stream'[t].at \in Reserving <=> stream[t].at \in Reserving
        BY <4>1, <1>1, <1>2 DEF Reserving
      <4>6. FlowsCounted' BY <1>1, <4>1, <4>5, CountedSame DEF RelayInv, quotas
      <4>7. (session[c] = None) = FALSE BY <3>2
      <4> QED BY <4>1, <4>2, <4>3, <4>4, <4>6, <4>7, <3>2
    <3> QED BY <3>1, <3>2
  <2>2. /\ stream' \in [Streams -> Stream] /\ \A t \in Streams \ {s} : stream'[t] = stream[t]
        /\ stream'[s].at = "opening" /\ stream'[s].principal = p /\ stream'[s].lease = l
        /\ stream'[s].created = (session[c] = None)
    <3> HIDE DEF l
    <3>1. PICK b \in BOOLEAN : b = (session[c] = None) OBVIOUS
    <3>2. stream' = [stream EXCEPT ![s].at = "opening", ![s].created = b, ![s].lease = l]
      BY <2>1, <3>1
    <3>3. l \in Leases BY <2>1
    <3>4. /\ stream' \in [Streams -> Stream] /\ \A t \in Streams \ {s} : stream'[t] = stream[t]
          /\ stream'[s].at = "opening" /\ stream'[s].principal = p /\ stream'[s].lease = l
          /\ stream'[s].created = b
      <4>1. /\ \A t \in Streams \ {s} : stream'[t] = stream[t]
            /\ stream'[s] = [stream[s] EXCEPT !.at = "opening", !.created = b, !.lease = l]
            /\ stream[s] \in Stream /\ DOMAIN stream' = Streams
            /\ stream' = [t \in Streams |-> stream'[t]]
        BY <3>2, <1>2
      <4>2. /\ stream'[s] \in Stream /\ stream'[s].at = "opening" /\ stream'[s].created = b
            /\ stream'[s].lease = l /\ stream'[s].principal = stream[s].principal
        BY <4>1, <3>3 DEF Stream
      <4>3. \A t \in Streams : stream'[t] \in Stream BY <4>1, <4>2, <1>2
      <4> QED BY <4>1, <4>2, <4>3
    <3> QED BY <3>1, <3>4
  <2>3. holder' \in [Connections -> Streams \cup {None}] /\ holder'[c] = s
        /\ \A d \in Connections \ {c} : holder'[d] = holder[d]
    BY <1>0, <1>5 DEF RelayInv, Tasks, Attached
  <2> HIDE DEF l, p
  <2>4. Attached'
    <3>1. \A t \in Streams : stream'[t].at \notin Idling => conn'[ConnectionOf[t]] \in {"serving", "leaving"}
      BY <1>1, <1>2, <2>2 DEF RelayInv, Tasks, Attached
    <3>2. \A d \in Connections : session'[d] # None => conn'[d] \in {"serving", "leaving", "aborted"}
      BY <1>1, <1>2, <2>1 DEF RelayInv, Tasks, Attached
    <3> QED BY <3>1, <3>2, <1>1, <2>2, <2>3 DEF RelayInv, Tasks, Attached
  <2>5. MutexHeld'
    <3>1. ASSUME NEW t \in Streams, stream'[t].at \in Locking PROVE holder'[ConnectionOf[t]] = t
      <4>1. CASE t = s BY <4>1, <2>3
      <4>2. CASE t # s
        <5>1. stream[t].at \in Locking /\ ConnectionOf[t] \in Connections
          BY <4>2, <3>1, <2>2, ConstantFacts
        <5>2. ConnectionOf[t] # c BY <5>1, <1>3 DEF StreamsOf
        <5> QED BY <5>1, <5>2, <2>3 DEF RelayInv, Tasks, MutexHeld
      <4> QED BY <4>1, <4>2
    <3> QED BY <3>1 DEF MutexHeld
  <2>6. Bound'
    <3>1. ASSUME NEW t \in Streams, stream'[t].at \in Locking \cup Reserving
          PROVE  /\ session'[ConnectionOf[t]] # None
                 /\ stream'[t].principal = session'[ConnectionOf[t]].principal
                 /\ stream'[t].lease = session'[ConnectionOf[t]].lease
      <4>1. CASE t = s BY <4>1, <2>1, <2>2
      <4>2. CASE t # s
        <5>1. /\ stream'[t] = stream[t] /\ ConnectionOf[t] \in Connections
              /\ session[ConnectionOf[t]] # None
              /\ stream[t].principal = session[ConnectionOf[t]].principal
              /\ stream[t].lease = session[ConnectionOf[t]].lease
          BY <4>2, <3>1, <2>2, ConstantFacts DEF RelayInv, Tasks, Bound
        <5>2. session'[ConnectionOf[t]].principal = session[ConnectionOf[t]].principal
              /\ session'[ConnectionOf[t]].lease = session[ConnectionOf[t]].lease
              /\ session'[ConnectionOf[t]] # None
          <6>1. CASE ConnectionOf[t] # c BY <6>1, <5>1, <2>1
          <6>2. CASE ConnectionOf[t] = c
            <7>1. UNCHANGED session BY <6>2, <5>1, <1>5
            <7> QED BY <7>1, <5>1
          <6> QED BY <6>1, <6>2
        <5> QED BY <5>1, <5>2
      <4> QED BY <4>1, <4>2
    <3> QED BY <3>1 DEF Bound
  <2>7. FirstFlow'
    <3>1. ASSUME NEW t \in Streams,
                 stream'[t].at = "undoing" \/ (stream'[t].at = "opening" /\ stream'[t].created),
                 NEW u \in StreamsOf(ConnectionOf[t])
          PROVE  stream'[u].at \notin Reserving
      <4>0. u \in Streams BY DEF StreamsOf
      <4>1. CASE t = s
        <5>1. session[c] = None BY <4>1, <3>1, <2>2
        <5>2. stream[u].at \notin Reserving BY <5>1, <4>1, <1>0, NoSessionNoFlow
        <5> QED BY <5>2, <4>0, <2>2 DEF Reserving
      <4>2. CASE t # s
        <5>1. stream[u].at \notin Reserving BY <4>2, <3>1, <2>2 DEF RelayInv, Tasks, FirstFlow
        <5> QED BY <5>1, <4>0, <2>2 DEF Reserving
      <4> QED BY <4>1, <4>2
    <3> QED BY <3>1 DEF FirstFlow, StreamsOf
  <2>8. Served' = Served /\ Busy' = Busy BY <1>1, <2>2 DEF Served, Busy, Idling
  <2>9. StatusCovers' BY <1>1, <2>8, StatusSame DEF RelayInv
  <2> QED BY <2>1, <2>4, <2>5, <2>6, <2>7, <2>9 DEF RelayInv, Tasks
<1> QED BY <1>4, <1>5 DEF ReserveFlow

(* The count of one session follows the flows of its connection. *)
LEMMA CountedAnew ==
  ASSUME RelayInv, NEW s \in Streams, NEW n \in Nat, session[ConnectionOf[s]] # None,
         UNCHANGED <<session, quota, next_lease, conn>>,
         \A t \in Streams \ {s} : stream'[t] = stream[t],
         sessions' = [sessions EXCEPT ![Key(ConnectionOf[s])] = n],
         n = Cardinality(Reserved(ConnectionOf[s])'), n <= quota.max_flows_per_session
  PROVE  Ledger' /\ FlowsCounted'
<1> DEFINE c == ConnectionOf[s]
<1>1. c \in Connections /\ Key(c) \in DOMAIN sessions
  BY ConstantFacts, SessionTyped DEF RelayInv
<1>2. Ledger' BY <1>1, LedgerCounts DEF RelayInv
<1>3. ASSUME NEW d \in Connections, session'[d] # None /\ conn'[d] # "aborted"
      PROVE  /\ sessions'[<<session'[d].principal, session'[d].lease>>] = Cardinality(Reserved(d)')
             /\ Cardinality(Reserved(d)') <= quota'.max_flows_per_session
  <2>1. CASE d = c BY <2>1, <1>1 DEF Key
  <2>2. CASE d # c
    <3>1. Reserved(d)' = Reserved(d) BY <2>2 DEF Reserved, StreamsOf
    <3>2. Key(d) # Key(c) BY <2>2, <1>1, <1>3 DEF RelayInv, Ledger, Key
    <3>3. Key(d) \in DOMAIN sessions BY <1>3, SessionTyped DEF RelayInv
    <3>4. sessions'[Key(d)] = sessions[Key(d)] BY <3>2, <3>3
    <3> QED BY <3>1, <3>4, <1>3 DEF RelayInv, FlowsCounted, Key
  <2> QED BY <2>1, <2>2
<1> QED BY <1>2, <1>3 DEF FlowsCounted

(* A stream leaves the mutex, with or without a flow. *)
LEMMA UnlockKeeps ==
  ASSUME RelayInv, NEW s \in Streams, stream[s].at \in Locking,
         stream' \in [Streams -> Stream], \A t \in Streams \ {s} : stream'[t] = stream[t],
         stream'[s].at \in {"connecting", "ending"},
         stream'[s].principal = stream[s].principal, stream'[s].lease = stream[s].lease,
         holder' = [holder EXCEPT ![ConnectionOf[s]] = None],
         UNCHANGED <<listener, conn, lost>>,
         \A d \in Connections \ {ConnectionOf[s]} : session'[d] = session[d],
         \/ session' = session
         \/ /\ session'[ConnectionOf[s]] = None /\ stream'[s].at = "ending"
            /\ Reserved(ConnectionOf[s]) = {}
  PROVE  Tasks' /\ Served' = Served /\ Busy' = Busy
<1> DEFINE c == ConnectionOf[s]
<1>0. c \in Connections /\ s \in StreamsOf(c) BY ConstantFacts DEF StreamsOf
<1>1. \A t \in StreamsOf(c) \ {s} : stream[t].at \notin Locking
  BY <1>0, OneLocked
<1>2. conn[c] \in {"serving", "leaving"} BY StreamTyped DEF Idling, Locking
<1>3. holder' \in [Connections -> Streams \cup {None}]
      /\ \A d \in Connections \ {c} : holder'[d] = holder[d]
  BY <1>0 DEF RelayInv, Tasks, Attached
<1>4. Attached'
  <2>1. \A d \in Connections : session'[d] # None => session'[d] = session[d] OBVIOUS
  <2> QED BY <2>1, <1>2, <1>3 DEF RelayInv, Tasks, Attached
<1>5. MutexHeld'
  <2>1. ASSUME NEW t \in Streams, stream'[t].at \in Locking PROVE holder'[ConnectionOf[t]] = t
    <3>1. t # s BY <2>1 DEF Locking
    <3>2. stream[t].at \in Locking /\ ConnectionOf[t] \in Connections BY <2>1, <3>1, ConstantFacts
    <3>3. ConnectionOf[t] # c BY <3>1, <3>2, <1>1 DEF StreamsOf
    <3> QED BY <3>2, <3>3, <1>3 DEF RelayInv, Tasks, MutexHeld
  <2> QED BY <2>1 DEF MutexHeld
<1>6. Bound'
  <2>1. ASSUME NEW t \in Streams, stream'[t].at \in Locking \cup Reserving
        PROVE  /\ session'[ConnectionOf[t]] # None
               /\ stream'[t].principal = session'[ConnectionOf[t]].principal
               /\ stream'[t].lease = session'[ConnectionOf[t]].lease
    <3>1. stream[t].at \in Locking \cup Reserving /\ ConnectionOf[t] \in Connections
      BY <2>1, ConstantFacts DEF Locking, Reserving
    <3>2. /\ session[ConnectionOf[t]] # None
          /\ stream'[t].principal = session[ConnectionOf[t]].principal
          /\ stream'[t].lease = session[ConnectionOf[t]].lease
      BY <3>1 DEF RelayInv, Tasks, Bound
    <3>3. CASE session' = session BY <3>2, <3>3
    <3>4. CASE ConnectionOf[t] # c BY <3>1, <3>2, <3>4
    <3>5. CASE ConnectionOf[t] = c /\ session'[c] = None /\ stream'[s].at = "ending" /\ Reserved(c) = {}
      <4>1. t # s BY <3>5, <2>1 DEF Locking, Reserving
      <4>2. stream[t].at \in Reserving BY <4>1, <3>1, <3>5, <1>1 DEF StreamsOf
      <4>3. t \in Reserved(c) BY <4>2, <3>5, <1>0, ReservedIs
      <4> QED BY <4>3, <3>5
    <3> QED BY <3>3, <3>4, <3>5
  <2> QED BY <2>1 DEF Bound
<1>7. FirstFlow'
  <2>1. ASSUME NEW t \in Streams,
               stream'[t].at = "undoing" \/ (stream'[t].at = "opening" /\ stream'[t].created),
               NEW u \in StreamsOf(ConnectionOf[t])
        PROVE  stream'[u].at \notin Reserving
    <3>1. t # s /\ stream'[t] = stream[t] BY <2>1
    <3>2. ConnectionOf[t] # c BY <2>1, <3>1, <1>1 DEF StreamsOf, Locking
    <3>3. u # s /\ u \in Streams BY <3>2 DEF StreamsOf
    <3> QED BY <2>1, <3>1, <3>3 DEF RelayInv, Tasks, FirstFlow
  <2> QED BY <2>1 DEF FirstFlow, StreamsOf
<1>8. Served' = Served /\ Busy' = Busy BY DEF Served, Busy, Idling, Locking
<1> QED BY <1>4, <1>5, <1>6, <1>7, <1>8 DEF Tasks

(* open_flow: a flow is taken of the session, or refused. *)
LEMMA OpenFlowKeeps ==
  ASSUME RelayInv, NEW s \in Streams, OpenFlow(s) PROVE RelayInv'
<1> DEFINE c == ConnectionOf[s]
           k == <<stream[s].principal, stream[s].lease>>
<1>1. /\ stream[s].at = "opening" /\ stream[s].at \in Locking
      /\ UNCHANGED <<listener, conn, lost, session, quota, next_lease, status>>
  BY DEF OpenFlow, Locking
<1>2. /\ session[c] # None /\ k = Key(c) /\ c \in Connections
      /\ conn[c] \in {"serving", "leaving"} /\ k \in DOMAIN sessions /\ s \in StreamsOf(c)
  <2>1. session[c] # None /\ k = Key(c) BY <1>1 DEF RelayInv, Tasks, Bound, Key
  <2>2. c \in Connections /\ s \in StreamsOf(c) BY ConstantFacts DEF StreamsOf
  <2>3. conn[c] \in {"serving", "leaving"} BY <1>1, StreamTyped DEF Idling
  <2> QED BY <2>1, <2>2, <2>3, SessionTyped DEF RelayInv
<1>3. CASE FlowAdmitted(k)
  <2>1. /\ sessions' = [sessions EXCEPT ![k] = @ + 1]
        /\ holder' = [holder EXCEPT ![c] = None] /\ Goto(s, "connecting")
    BY <1>3 DEF OpenFlow
  <2>2. /\ stream' \in [Streams -> Stream] /\ \A t \in Streams \ {s} : stream'[t] = stream[t]
        /\ stream'[s].at = "connecting" /\ stream'[s].principal = stream[s].principal
        /\ stream'[s].lease = stream[s].lease
    BY <2>1, GotoStep
  <2>3. Tasks' /\ Served' = Served /\ Busy' = Busy
    BY <1>1, <2>1, <2>2, UnlockKeeps
  <2>4. Reserved(c)' = Reserved(c) \cup {s} /\ s \notin Reserved(c)
    BY <1>1, <1>2, <2>2 DEF Reserved, StreamsOf
  <2>5. Cardinality(Reserved(c)') = Cardinality(Reserved(c)) + 1
    BY <2>4, Countable, FS_AddElement
  <2>6. sessions[k] = Cardinality(Reserved(c)) /\ sessions[k] \in Nat
    BY <1>2 DEF RelayInv, FlowsCounted, Key, Ledger
  <2>7. sessions[k] < quota.max_flows_per_session /\ quota.max_flows_per_session \in Nat
    BY <1>3, ConstantFacts DEF FlowAdmitted, RelayInv, Ledger
  <2> DEFINE n == sessions[k] + 1
  <2>8. n \in Nat /\ n <= quota.max_flows_per_session /\ n = Cardinality(Reserved(c)')
    BY <2>5, <2>6, <2>7
  <2>9. sessions' = [sessions EXCEPT ![Key(c)] = n] BY <1>2, <2>1
  <2> HIDE DEF n, k
  <2>10. Ledger' /\ FlowsCounted' BY <1>1, <1>2, <2>2, <2>8, <2>9, CountedAnew
  <2>11. StatusCovers' BY <1>1, <2>3, StatusSame DEF RelayInv
  <2> QED BY <2>3, <2>10, <2>11 DEF RelayInv
<1>4. CASE ~FlowAdmitted(k)
  <2>0. UNCHANGED sessions BY <1>4 DEF OpenFlow
  <2>1. UNCHANGED quotas /\ Ledger' BY <1>1, <2>0, LedgerSame DEF RelayInv, quotas
  <2>2. CASE stream[s].created
    <3>1. Goto(s, "undoing") /\ UNCHANGED holder BY <1>4, <2>2 DEF OpenFlow
    <3>2. /\ stream' \in [Streams -> Stream] /\ \A t \in Streams \ {s} : stream'[t] = stream[t]
          /\ stream'[s].at = "undoing" /\ stream'[s].principal = stream[s].principal
          /\ stream'[s].lease = stream[s].lease
      BY <3>1, GotoStep
    <3>3. Attached' BY <1>1, <1>2, <3>1, <3>2 DEF RelayInv, Tasks, Attached
    <3>4. MutexHeld' BY <1>1, <3>1, <3>2 DEF RelayInv, Tasks, MutexHeld
    <3>5. Bound'
      BY <1>1, <3>1, <3>2 DEF RelayInv, Tasks, Bound, Locking
    <3>6. \A t \in Streams : stream'[t].at \in Reserving <=> stream[t].at \in Reserving
      BY <1>1, <3>2 DEF Reserving
    <3>7. FirstFlow'
      BY <1>1, <2>2, <3>2, <3>6 DEF RelayInv, Tasks, FirstFlow, StreamsOf
    <3>8. FlowsCounted' BY <1>1, <2>1, <3>6, CountedSame DEF RelayInv
    <3>9. Served' = Served /\ Busy' = Busy BY <1>1, <3>2 DEF Served, Busy, Idling
    <3>10. StatusCovers' BY <1>1, <3>9, StatusSame DEF RelayInv
    <3> QED BY <2>1, <3>3, <3>4, <3>5, <3>7, <3>8, <3>10 DEF RelayInv, Tasks
  <2>3. CASE ~stream[s].created
    <3>1. Goto(s, "ending") /\ holder' = [holder EXCEPT ![c] = None] BY <1>4, <2>3 DEF OpenFlow
    <3>2. /\ stream' \in [Streams -> Stream] /\ \A t \in Streams \ {s} : stream'[t] = stream[t]
          /\ stream'[s].at = "ending" /\ stream'[s].principal = stream[s].principal
          /\ stream'[s].lease = stream[s].lease
      BY <3>1, GotoStep
    <3>3. Tasks' /\ Served' = Served /\ Busy' = Busy BY <1>1, <3>1, <3>2, UnlockKeeps
    <3>4. \A t \in Streams : stream'[t].at \in Reserving <=> stream[t].at \in Reserving
      BY <1>1, <3>2 DEF Reserving
    <3>5. FlowsCounted' BY <1>1, <2>1, <3>4, CountedSame DEF RelayInv
    <3>6. StatusCovers' BY <1>1, <3>3, StatusSame DEF RelayInv
    <3> QED BY <2>1, <3>3, <3>5, <3>6 DEF RelayInv
  <2> QED BY <2>2, <2>3
<1> QED BY <1>3, <1>4

(* The session of a refused first flow goes back, and takes no flow along. *)
LEMMA UndoSessionKeeps ==
  ASSUME RelayInv, NEW s \in Streams, UndoSession(s) PROVE RelayInv'
<1> DEFINE c == ConnectionOf[s]
<1>1. /\ stream[s].at = "undoing" /\ stream[s].at \in Locking /\ Goto(s, "ending")
      /\ sessions' = WithoutSession(stream[s].principal, stream[s].lease)
      /\ session' = [session EXCEPT ![c] = None] /\ holder' = [holder EXCEPT ![c] = None]
      /\ UNCHANGED <<listener, conn, lost, quota, next_lease, status>>
  BY DEF UndoSession, Locking
<1>2. /\ session[c] # None /\ c \in Connections
      /\ stream[s].principal = session[c].principal /\ stream[s].lease = session[c].lease
  BY <1>1, ConstantFacts DEF RelayInv, Tasks, Bound
<1>3. Reserved(c) = {}
  BY <1>1 DEF RelayInv, Tasks, FirstFlow, Reserved, Reserving
<1>4. /\ Ledger' /\ session'[c] = None /\ \A d \in Connections \ {c} : session'[d] = session[d]
      /\ \A k \in DOMAIN sessions' : sessions'[k] = sessions[k]
  BY <1>1, <1>2, LedgerDrop DEF RelayInv
<1>5. /\ stream' \in [Streams -> Stream] /\ \A t \in Streams \ {s} : stream'[t] = stream[t]
      /\ stream'[s].at = "ending" /\ stream'[s].principal = stream[s].principal
      /\ stream'[s].lease = stream[s].lease
  BY <1>1, GotoStep
<1>6. Tasks' /\ Served' = Served /\ Busy' = Busy
  BY <1>1, <1>3, <1>4, <1>5, UnlockKeeps
<1>7. \A t \in Streams : stream'[t].at \in Reserving <=> stream[t].at \in Reserving
  BY <1>1, <1>5 DEF Reserving
<1>8. FlowsCounted' BY <1>1, <1>2, <1>4, <1>7, CountedDrop
<1>9. StatusCovers' BY <1>1, <1>6, StatusSame DEF RelayInv
<1> QED BY <1>4, <1>6, <1>8, <1>9 DEF RelayInv

(* release_flow finds the session the flow was taken from, and its count.  *)
LEMMA ReleaseFlowKeeps ==
  ASSUME RelayInv, NEW s \in Streams, ReleaseFlow(s) PROVE RelayInv'
<1> DEFINE c == ConnectionOf[s]
           k == <<stream[s].principal, stream[s].lease>>
<1>1. /\ stream[s].at = "releasing" /\ Goto(s, "ending")
      /\ sessions' = IF session[c] # None /\ session[c].lease = stream[s].lease
                     THEN WithoutFlow(k) ELSE sessions
      /\ UNCHANGED <<listener, conn, lost, session, holder, quota, next_lease, status>>
  BY DEF ReleaseFlow
<1>2. /\ session[c] # None /\ k = Key(c) /\ session[c].lease = stream[s].lease
      /\ c \in Connections /\ s \in StreamsOf(c)
      /\ conn[c] \in {"serving", "leaving"} /\ k \in DOMAIN sessions
  <2>1. session[c] # None /\ k = Key(c) /\ session[c].lease = stream[s].lease
    BY <1>1 DEF RelayInv, Tasks, Bound, Key, Reserving
  <2>2. c \in Connections /\ s \in StreamsOf(c) BY ConstantFacts DEF StreamsOf
  <2>3. conn[c] \in {"serving", "leaving"} BY <1>1, StreamTyped DEF Idling
  <2> QED BY <2>1, <2>2, <2>3, SessionTyped DEF RelayInv
<1>3. /\ stream' \in [Streams -> Stream] /\ \A t \in Streams \ {s} : stream'[t] = stream[t]
      /\ stream'[s].at = "ending"
  BY <1>1, GotoStep
<1>4. Reserved(c)' = Reserved(c) \ {s} /\ s \in Reserved(c)
  BY <1>1, <1>2, <1>3 DEF Reserved, StreamsOf
<1>5. /\ Cardinality(Reserved(c)') = Cardinality(Reserved(c)) - 1
      /\ Cardinality(Reserved(c)') \in Nat
  BY <1>4, Countable, FS_RemoveElement, FS_CardinalityType
<1>6. /\ sessions[k] = Cardinality(Reserved(c)) /\ sessions[k] \in Nat
      /\ sessions[k] <= quota.max_flows_per_session /\ quota.max_flows_per_session \in Nat
  <2>1. /\ sessions[Key(c)] = Cardinality(Reserved(c))
        /\ Cardinality(Reserved(c)) <= quota.max_flows_per_session
    BY <1>2 DEF RelayInv, FlowsCounted, Key
  <2>2. quota.max_flows_per_session \in Nat BY ConstantFacts DEF RelayInv, Ledger
  <2>3. Cardinality(Reserved(c)) \in Nat BY Countable
  <2> QED BY <2>1, <2>2, <2>3, <1>2
<1> DEFINE n == sessions[k] - 1
<1>7. n \in Nat /\ n <= quota.max_flows_per_session /\ n = Cardinality(Reserved(c)') /\ sessions[k] > 0
  BY <1>5, <1>6
<1>8. sessions' = [sessions EXCEPT ![Key(c)] = n]
  BY <1>1, <1>2, <1>7 DEF WithoutFlow
<1> HIDE DEF n, k
<1>9. Ledger' /\ FlowsCounted' BY <1>1, <1>2, <1>3, <1>7, <1>8, CountedAnew
<1>10. Attached' BY <1>1, <1>2, <1>3 DEF RelayInv, Tasks, Attached
<1>11. MutexHeld' BY <1>1, <1>3 DEF RelayInv, Tasks, MutexHeld, Locking
<1>12. Bound' BY <1>1, <1>3 DEF RelayInv, Tasks, Bound, Locking, Reserving
<1>13. FirstFlow' BY <1>1, <1>3 DEF RelayInv, Tasks, FirstFlow, StreamsOf, Reserving
<1>14. Served' = Served /\ Busy' = Busy BY <1>1, <1>3 DEF Served, Busy, Idling
<1>15. StatusCovers' BY <1>1, <1>14, StatusSame DEF RelayInv
<1> QED BY <1>9, <1>10, <1>11, <1>12, <1>13, <1>15 DEF RelayInv, Tasks

(* One connection fewer is served. *)
LEMMA ServedLeaves ==
  ASSUME RelayInv, NEW c \in Connections, conn[c] = "leaving", Served' = Served \ {c}, Busy' = Busy,
         \A d \in Connections : conn[d] = "aborted" => conn'[d] = "aborted",
         status' = [status EXCEPT !.connections = @ - 1]
  PROVE  StatusCovers'
<1>1. c \in Served BY DEF Served
<1>2. Cardinality(Served') = Cardinality(Served) - 1 /\ Cardinality(Served') \in Nat
  BY <1>1, Countable, FS_RemoveElement, FS_CardinalityType
<1>3. status \in [connections: Nat, flows: Nat] /\ Cardinality(Served) <= status.connections
  BY DEF RelayInv, StatusCovers
<1>4. status'.connections = status.connections - 1 /\ status'.flows = status.flows
  BY <1>3
<1>5. status.connections \in Nat /\ Cardinality(Served) \in Nat BY <1>3, Countable
<1>6. status' \in [connections: Nat, flows: Nat]
  <2>1. status.connections - 1 \in Nat BY <1>2, <1>3, <1>5
  <2> QED BY <2>1, <1>3
<1> QED BY <1>2, <1>3, <1>4, <1>5, <1>6 DEF RelayInv, StatusCovers

(* A connection closes when no stream is left. *)
LEMMA ConnectionClosesKeeps ==
  ASSUME RelayInv, NEW c \in Connections, ConnectionCloses(c) PROVE RelayInv'
<1>1. /\ conn[c] = "leaving" /\ ActiveStreams(c) = {} /\ conn' = [conn EXCEPT ![c] = "closed"]
      /\ session' = [session EXCEPT ![c] = None]
      /\ sessions' = IF session[c] = None THEN sessions
                     ELSE WithoutSession(session[c].principal, session[c].lease)
      /\ status' = [status EXCEPT !.connections = @ - 1]
      /\ UNCHANGED <<listener, lost, stream, holder, quota, next_lease>>
  BY DEF ConnectionCloses
<1>2. \A s \in StreamsOf(c) : stream[s].at \in Idling
  BY <1>1 DEF ActiveStreams, Idling
<1>3. /\ conn'[c] = "closed" /\ \A d \in Connections \ {c} : conn'[d] = conn[d]
      /\ conn' \in [Connections -> {"absent", "refused", "handshake", "serving", "leaving",
                                     "closed", "aborted"}]
  BY <1>1 DEF RelayInv, Tasks, Attached
<1>4. /\ Ledger' /\ session'[c] = None /\ \A d \in Connections \ {c} : session'[d] = session[d]
      /\ \A k \in DOMAIN sessions' : sessions'[k] = sessions[k]
  <2>1. CASE session[c] # None BY <1>1, <2>1, LedgerDrop DEF RelayInv
  <2>2. CASE session[c] = None
    <3>1. session' = session BY <1>1, <2>2 DEF RelayInv, Ledger
    <3>2. sessions' = sessions BY <1>1, <2>2
    <3> QED BY <3>1, <3>2, <1>1, <2>2, LedgerSame DEF RelayInv, quotas
  <2> QED BY <2>1, <2>2
<1>5. \A d \in Connections : conn[d] = "aborted" => conn'[d] = "aborted" BY <1>1, <1>3
<1>6. FlowsCounted' BY <1>1, <1>4, <1>5, CountedDrop
<1>7. Attached'
  <2>1. \A s \in Streams : stream'[s].at \notin Idling => conn'[ConnectionOf[s]] \in {"serving", "leaving"}
    BY <1>1, <1>2, <1>3, ConstantFacts DEF RelayInv, Tasks, Attached, StreamsOf
  <2>2. \A d \in Connections : session'[d] # None => conn'[d] \in {"serving", "leaving", "aborted"}
    BY <1>3, <1>4 DEF RelayInv, Tasks, Attached
  <2> QED BY <2>1, <2>2, <1>1, <1>3 DEF RelayInv, Tasks, Attached
<1>8. MutexHeld' /\ FirstFlow' BY <1>1 DEF RelayInv, Tasks, MutexHeld, FirstFlow
<1>9. Bound'
  <2>1. \A s \in Streams : stream'[s].at \in Locking \cup Reserving => ConnectionOf[s] # c
    BY <1>1, <1>2 DEF StreamsOf, Locking, Reserving, Idling
  <2> QED BY <2>1, <1>1, <1>4, ConstantFacts DEF RelayInv, Tasks, Bound
<1>10. Served' = Served \ {c} /\ Busy' = Busy BY <1>1, <1>3 DEF Served, Busy
<1>11. StatusCovers' BY <1>1, <1>5, <1>10, ServedLeaves
<1> QED BY <1>4, <1>6, <1>7, <1>8, <1>9, <1>11 DEF RelayInv, Tasks

(* An aborted connection takes its streams along and leaves its counts.    *)
LEMMA AbortKeeps ==
  ASSUME RelayInv, NEW c \in Connections, AbortConnection(c) PROVE RelayInv'
<1>1. /\ conn' = [conn EXCEPT ![c] = "aborted"]
      /\ stream' = [s \in Streams |-> IF s \in ActiveStreams(c) THEN Task("aborted") ELSE stream[s]]
      /\ holder' = [holder EXCEPT ![c] = None]
      /\ UNCHANGED <<listener, lost, session, quotas, status>>
  BY DEF AbortConnection
<1>2. /\ conn'[c] = "aborted" /\ \A d \in Connections \ {c} : conn'[d] = conn[d]
      /\ conn' \in [Connections -> {"absent", "refused", "handshake", "serving", "leaving",
                                     "closed", "aborted"}]
  BY <1>1 DEF RelayInv, Tasks, Attached
<1>3. /\ stream' \in [Streams -> Stream]
      /\ \A s \in StreamsOf(c) : stream'[s].at \in Idling
      /\ \A s \in Streams \ StreamsOf(c) : stream'[s] = stream[s]
      /\ \A s \in Streams : stream'[s].at \notin Idling => stream'[s] = stream[s] /\ s \notin StreamsOf(c)
  <2>1. Task("aborted") \in Stream /\ Task("aborted").at = "aborted" BY DEF Task, Stream, Half
  <2>2. stream \in [Streams -> Stream] BY DEF RelayInv, Tasks, Attached
  <2>3. \A s \in StreamsOf(c) : stream'[s].at \in Idling
    BY <1>1, <2>1 DEF ActiveStreams, StreamsOf, Idling
  <2>4. \A s \in Streams \ StreamsOf(c) : stream'[s] = stream[s]
    BY <1>1 DEF ActiveStreams, StreamsOf
  <2> QED BY <1>1, <2>1, <2>2, <2>3, <2>4
<1>4. Ledger' BY <1>1, LedgerSame DEF RelayInv
<1>5. holder' \in [Connections -> Streams \cup {None}]
      /\ \A d \in Connections \ {c} : holder'[d] = holder[d]
  BY <1>1 DEF RelayInv, Tasks, Attached
<1>6. \A s \in Streams : stream'[s].at \notin Idling =>
        /\ stream'[s] = stream[s] /\ ConnectionOf[s] # c /\ ConnectionOf[s] \in Connections
        /\ conn'[ConnectionOf[s]] = conn[ConnectionOf[s]]
        /\ holder'[ConnectionOf[s]] = holder[ConnectionOf[s]]
  BY <1>2, <1>3, <1>5, ConstantFacts DEF StreamsOf
<1>7. Attached'
  <2>1. \A s \in Streams : stream'[s].at \notin Idling => conn'[ConnectionOf[s]] \in {"serving", "leaving"}
    BY <1>6 DEF RelayInv, Tasks, Attached
  <2>2. \A d \in Connections : session'[d] # None => conn'[d] \in {"serving", "leaving", "aborted"}
    BY <1>1, <1>2 DEF RelayInv, Tasks, Attached
  <2>3. \A s \in Streams : stream'[s].at = "reserving" => stream'[s].principal \in Principals
    BY <1>6 DEF RelayInv, Tasks, Attached, Idling
  <2> QED BY <2>1, <2>2, <2>3, <1>1, <1>2, <1>3, <1>5 DEF RelayInv, Tasks, Attached
<1>8. MutexHeld' BY <1>6 DEF RelayInv, Tasks, MutexHeld, Locking, Idling
<1>9. Bound' BY <1>1, <1>6 DEF RelayInv, Tasks, Bound, Locking, Reserving, Idling
<1>10. FirstFlow'
  <2>1. ASSUME NEW t \in Streams,
               stream'[t].at = "undoing" \/ (stream'[t].at = "opening" /\ stream'[t].created),
               NEW u \in StreamsOf(ConnectionOf[t])
        PROVE  stream'[u].at \notin Reserving
    <3>1. stream'[t] = stream[t] BY <2>1, <1>6 DEF Idling
    <3>2. stream[u].at \notin Reserving BY <2>1, <3>1 DEF RelayInv, Tasks, FirstFlow
    <3> QED BY <3>2, <1>6 DEF StreamsOf, Reserving, Idling
  <2> QED BY <2>1 DEF FirstFlow, StreamsOf
<1>11. FlowsCounted'
  <2>1. \A d \in Connections \ {c} : Reserved(d)' = Reserved(d)
    <3>1. \A d \in Connections \ {c} : \A s \in StreamsOf(d) : stream'[s] = stream[s]
      BY <1>3 DEF StreamsOf
    <3> QED BY <3>1 DEF Reserved, StreamsOf
  <2> QED BY <2>1, <1>1, <1>2 DEF RelayInv, FlowsCounted, quotas
<1>12. StatusCovers'
  <2>1. Served' \subseteq Served BY <1>2 DEF Served
  <2>2. Busy' \subseteq Busy BY <1>6 DEF Busy
  <2>3. /\ Cardinality(Served') <= Cardinality(Served) /\ Cardinality(Served') \in Nat
        /\ Cardinality(Busy') <= Cardinality(Busy) /\ Cardinality(Busy') \in Nat
    BY <2>1, <2>2, Countable, FS_Subset, FS_CardinalityType
  <2>4. Cardinality(Served) \in Nat /\ Cardinality(Busy) \in Nat BY Countable
  <2>5. /\ status' = status /\ status \in [connections: Nat, flows: Nat]
        /\ Cardinality(Served) <= status.connections /\ Cardinality(Busy) <= status.flows
    BY <1>1 DEF RelayInv, StatusCovers
  <2>6. status.connections \in Nat /\ status.flows \in Nat BY <2>5
  <2>7. Cardinality(Served') <= status'.connections /\ Cardinality(Busy') <= status'.flows
    BY <2>3, <2>4, <2>5, <2>6
  <2> QED BY <2>5, <2>7, <1>2 DEF StatusCovers
<1> QED BY <1>4, <1>7, <1>8, <1>9, <1>10, <1>11, <1>12 DEF RelayInv, Tasks

-----------------------------------------------------------------------------
(* Nobody is served yet. *)
LEMMA RelayInitially == Init => RelayInv
<1> SUFFICES ASSUME Init PROVE RelayInv OBVIOUS
<1>1. /\ \A s \in Streams : stream[s].at = "idle"
      /\ stream \in [Streams -> Stream]
  <2>1. Task("idle") \in Stream /\ Task("idle").at = "idle" BY DEF Task, Stream, Half
  <2> QED BY <2>1 DEF Init
<1>2. DOMAIN sessions = {} /\ \A c \in Connections : session[c] = None BY DEF Init
<1>3. Ledger
  <2>1. ASSUME NEW p PROVE Cardinality({k \in DOMAIN sessions : k[1] = p}) <= quota.max_sessions
    <3>1. {k \in DOMAIN sessions : k[1] = p} = {} BY <1>2
    <3>2. Cardinality({k \in DOMAIN sessions : k[1] = p}) = 0 BY <3>1, FS_EmptySet
    <3> QED BY <3>2, ConstantFacts DEF Init
  <2>2. IsFiniteSet(DOMAIN sessions) BY <1>2, FS_EmptySet
  <2>3. next_lease \in 0 .. MaxLease BY ConstantFacts DEF Init
  <2> QED BY <2>1, <2>2, <2>3, <1>2 DEF Ledger, Init
<1>4. Tasks
  BY <1>1, <1>2 DEF Init, Tasks, Attached, MutexHeld, Bound, FirstFlow, Idling, Locking, Reserving
<1>5. FlowsCounted BY <1>2 DEF FlowsCounted
<1>6. StatusCovers
  <2>1. Served = {} BY DEF Init, Served
  <2>2. Busy = {} BY <1>1 DEF Busy, Idling
  <2>3. Cardinality(Served) = 0 /\ Cardinality(Busy) = 0 BY <2>1, <2>2, FS_EmptySet
  <2>4. status = [connections |-> 0, flows |-> 0] BY DEF Init
  <2> QED BY <2>3, <2>4 DEF StatusCovers
<1> QED BY <1>3, <1>4, <1>5, <1>6 DEF RelayInv

(* Every step of every task keeps the invariant. *)
LEMMA RelayStepKeeps == RelayInv /\ [Next]_vars => RelayInv'
<1> SUFFICES ASSUME RelayInv, [Next]_vars PROVE RelayInv' OBVIOUS
<1>1. CASE UNCHANGED vars BY <1>1, ListenerKeeps
<1>2. CASE Environment
  BY <1>2, ListenerKeeps, AcceptStreamKeeps, RelayKeeps, AcceptKeeps, AdmitDatagramKeeps
     DEF Environment
<1>3. CASE \E s \in Streams : StreamRuns(s)
  BY <1>3, ReadRequestKeeps, ReserveFlowKeeps, OpenFlowKeeps, UndoSessionKeeps, RelayKeeps,
     ReleaseFlowKeeps, StreamEndsKeeps DEF StreamRuns
<1>4. CASE \E c \in Connections : ConnectionRuns(c)
  BY <1>4, HandshakeKeeps, AcceptKeeps, ConnectionClosesKeeps, AbortKeeps DEF ConnectionRuns
<1>5. CASE ListenerRuns BY <1>5, ListenerKeeps DEF ListenerRuns
<1> QED BY <1>1, <1>2, <1>3, <1>4, <1>5 DEF Next

(* RelayInv is an invariant of the relay. *)
THEOREM RelayInvariant == Spec => []RelayInv
BY RelayInitially, RelayStepKeeps, PTL DEF Spec

(* The tasks, the ledger and the counters of the listener have their       *)
(* types; a status counter that is decremented was above zero.             *)
THEOREM RelayTypeCorrect == Spec => []TypeOK
<1>1. RelayInv => TypeOK
  BY DEF RelayInv, Ledger, Tasks, Attached, StatusCovers, TypeOK
<1> QED BY <1>1, RelayInvariant, PTL

(* What the invariant says of the counts.                                  *)
LEMMA CountsFollow == RelayInv => CountsExact
<1> SUFFICES ASSUME RelayInv PROVE CountsExact OBVIOUS
<1>1. LeasesOwned
  <2>1. ASSUME NEW k \in DOMAIN sessions
        PROVE  Cardinality({c \in Connections : session[c] # None
                              /\ <<session[c].principal, session[c].lease>> = k}) = 1
    <3> DEFINE owners == {c \in Connections : session[c] # None
                            /\ <<session[c].principal, session[c].lease>> = k}
    <3>1. PICK c \in Connections : session[c] # None /\ Key(c) = k BY DEF RelayInv, Ledger
    <3>2. owners = {c} BY <3>1 DEF RelayInv, Ledger, Key
    <3> HIDE DEF owners
    <3>3. Cardinality(owners) = 1 BY <3>2, FS_Singleton
    <3> QED BY <3>3 DEF owners
  <2>2. \A c \in Connections : \A s \in Reserved(c) :
          session[c] # None /\ stream[s].principal = session[c].principal
                            /\ stream[s].lease = session[c].lease
    BY DEF RelayInv, Tasks, Bound, Reserved, StreamsOf, Reserving
  <2> QED BY <2>1, <2>2 DEF RelayInv, Ledger, LeasesOwned, Key
<1>2. StatusExact
  <2>1. UNION {ActiveStreams(c) : c \in Connections} = Busy
    BY ConstantFacts DEF ActiveStreams, StreamsOf, Busy, Idling
  <2> QED BY <2>1 DEF RelayInv, StatusCovers, StatusExact, Served
<1> QED BY <1>1, <1>2 DEF RelayInv, CountsExact

(* CountsExact for any connections, streams, principals and quotas:        *)
(* sessions, flows and status counters are exact on every path of          *)
(* relay_quic_stream and serve_connection, those of refused flows, lost    *)
(* connections and aborted tasks included.                                 *)
THEOREM CountsAlwaysExact == Spec => []CountsExact
BY CountsFollow, RelayInvariant, PTL
=============================================================================
