--------------------------- MODULE DatagramRelay ----------------------------
(***************************************************************************)
(* The UDP associations of one relay connection (velum-node datagram.rs):  *)
(* forward is called by the loop of the connection, one datagram at a      *)
(* time; each association has a task that returns the target's responses.  *)
(* Associations are named by their sockets, numbered as they are bound,    *)
(* and time is counted in units of which IdleTimeout is a multiple.        *)
(***************************************************************************)
EXTENDS Naturals, FiniteSets

CONSTANTS
  NoForward,
  SessionIds, Destinations,
  Allowed,            \* DestinationPolicy
  MaxAssociations,    \* DatagramRelayConfig.max_associations
  IdleTimeout,        \* DatagramRelayConfig.idle_timeout
  MaxSockets,         \* bound: sockets ever bound
  MaxTime             \* bound: time that passes

ASSUME DatagramAssumption ==
  /\ Allowed \subseteq Destinations
  /\ {MaxAssociations, IdleTimeout} \subseteq Nat \ {0}   \* DatagramRelayConfig::validate
  /\ {MaxSockets, MaxTime} \subseteq Nat

VARIABLES
  now,
  associations,    \* session id -> destination and socket
  forwarding,      \* the datagram being forwarded, after prune_idle
  bound,           \* sockets bound so far
  last_active,     \* of each socket
  receiver,        \* the task of each socket; "refused" if its socket failed
  cancelled,       \* sockets whose cancel channel was written
  connection       \* the QUIC connection, and the relay on it

vars == <<now, associations, forwarding, bound, last_active, receiver, cancelled, connection>>

Sockets == 1 .. MaxSockets

Init ==
  /\ now = 0
  /\ associations = [i \in {} |-> NoForward]
  /\ forwarding = NoForward
  /\ bound = 0
  /\ last_active = [k \in Sockets |-> 0]
  /\ receiver = [k \in Sockets |-> "absent"]
  /\ cancelled = {}
  /\ connection = "open"

Active(k) == now - last_active[k] <= IdleTimeout

Owned == {associations[i].socket : i \in DOMAIN associations}

Keep(ids) == associations' = [i \in ids |-> associations[i]]

Tick ==
  /\ now < MaxTime
  /\ now' = now + 1
  /\ UNCHANGED <<associations, forwarding, bound, last_active, receiver, cancelled, connection>>

(* Mutant: idle associations leave the table, their tasks are not told. *)
ForwardPrunesSilently(i, d) ==
  /\ connection = "open" /\ forwarding = NoForward
  /\ Keep({j \in DOMAIN associations : Active(associations[j].socket)})
  /\ forwarding' = IF d \in Allowed THEN [id |-> i, destination |-> d] ELSE NoForward
  /\ UNCHANGED <<now, bound, last_active, receiver, cancelled, connection>>

(* forward: prune_idle, then the destination policy. *)
ForwardPrunes(i, d) ==
  /\ connection = "open" /\ forwarding = NoForward
  /\ Keep({j \in DOMAIN associations : Active(associations[j].socket)})
  /\ cancelled' = cancelled \cup {k \in Owned : ~Active(k)}
  /\ forwarding' = IF d \in Allowed THEN [id |-> i, destination |-> d] ELSE NoForward
  /\ UNCHANGED <<now, bound, last_active, receiver, connection>>

(* An association is found and used: touch, then send. *)
ForwardFound ==
  /\ forwarding # NoForward
  /\ forwarding.id \in DOMAIN associations
  /\ last_active' = IF associations[forwarding.id].destination = forwarding.destination
                    THEN [last_active EXCEPT ![associations[forwarding.id].socket] = now]
                    ELSE last_active      \* SessionTargetMismatch
  /\ forwarding' = NoForward
  /\ UNCHANGED <<now, associations, bound, receiver, cancelled, connection>>

AssociationLimit == Cardinality(DOMAIN associations) >= MaxAssociations

(* Mutant: a session id is pointed at its new destination. *)
ForwardBindsAgain ==
  /\ forwarding # NoForward
  /\ ~AssociationLimit
  /\ bound < MaxSockets
  /\ bound' = bound + 1
  /\ associations' = [i \in DOMAIN associations \cup {forwarding.id} |->
                        IF i = forwarding.id
                        THEN [destination |-> forwarding.destination, socket |-> bound + 1]
                        ELSE associations[i]]
  /\ last_active' = [last_active EXCEPT ![bound + 1] = now]
  /\ receiver' = [receiver EXCEPT ![bound + 1] = "waiting"]
  /\ forwarding' = NoForward
  /\ UNCHANGED <<now, cancelled, connection>>

(* A socket is bound and its task spawned, under the table's mutex. *)
ForwardBinds ==
  /\ forwarding # NoForward
  /\ forwarding.id \notin DOMAIN associations
  /\ ~AssociationLimit
  /\ bound < MaxSockets
  /\ bound' = bound + 1
  /\ associations' = [i \in DOMAIN associations \cup {forwarding.id} |->
                        IF i = forwarding.id
                        THEN [destination |-> forwarding.destination, socket |-> bound + 1]
                        ELSE associations[i]]
  /\ last_active' = [last_active EXCEPT ![bound + 1] = now]
  /\ receiver' = [receiver EXCEPT ![bound + 1] = "waiting"]
  /\ forwarding' = NoForward
  /\ UNCHANGED <<now, cancelled, connection>>

(* AssociationLimit, or a socket that cannot be bound. *)
ForwardRefused ==
  /\ forwarding # NoForward
  /\ forwarding.id \notin DOMAIN associations
  /\ forwarding' = NoForward
  /\ UNCHANGED <<now, associations, bound, last_active, receiver, cancelled, connection>>

-----------------------------------------------------------------------------
(* receive_responses: a response fits and is sent to the client.  select!  *)
(* takes either branch when both are ready.                                *)
ReceiverRelays(k) ==
  /\ receiver[k] = "waiting"
  /\ connection = "open"
  /\ last_active' = [last_active EXCEPT ![k] = now]
  /\ UNCHANGED <<now, associations, forwarding, bound, receiver, cancelled, connection>>

(* A response is larger than the codec or the path allows. *)
ReceiverOversized(k) ==
  /\ receiver[k] = "waiting"
  /\ last_active' = [last_active EXCEPT ![k] = now]
  /\ receiver' = [receiver EXCEPT ![k] = "ended"]
  /\ UNCHANGED <<now, associations, forwarding, bound, cancelled, connection>>

(* socket.recv fails: the target reported that the port is closed. *)
ReceiverRefused(k) ==
  /\ receiver[k] = "waiting"
  /\ receiver' = [receiver EXCEPT ![k] = "refused"]
  /\ UNCHANGED <<now, associations, forwarding, bound, last_active, cancelled, connection>>

(* The connection is gone, so that a response cannot be sent. *)
ReceiverFails(k) ==
  /\ receiver[k] = "waiting"
  /\ connection # "open"
  /\ last_active' = [last_active EXCEPT ![k] = now]
  /\ receiver' = [receiver EXCEPT ![k] = "ended"]
  /\ UNCHANGED <<now, associations, forwarding, bound, cancelled, connection>>

(* cancel.changed() *)
ReceiverCancelled(k) ==
  /\ receiver[k] = "waiting"
  /\ k \in cancelled
  /\ receiver' = [receiver EXCEPT ![k] = "ended"]
  /\ UNCHANGED <<now, associations, forwarding, bound, last_active, cancelled, connection>>

(* The loop has read what the connection had buffered and sees its error.  *)
ConnectionLost ==
  /\ connection = "open"
  /\ connection' = "lost"
  /\ UNCHANGED <<now, associations, forwarding, bound, last_active, receiver, cancelled>>

(* Mutant: the table is cleared without telling the tasks. *)
ShutdownSilently ==
  /\ connection = "lost" /\ forwarding = NoForward
  /\ Keep({})
  /\ connection' = "shut"
  /\ UNCHANGED <<now, forwarding, bound, last_active, receiver, cancelled>>

(* shutdown, once the loop of the connection has ended. *)
Shutdown ==
  /\ connection = "lost" /\ forwarding = NoForward
  /\ cancelled' = cancelled \cup Owned
  /\ Keep({})
  /\ connection' = "shut"
  /\ UNCHANGED <<now, forwarding, bound, last_active, receiver>>

Next ==
  \/ Tick
  \/ \E i \in SessionIds, d \in Destinations : ForwardPrunes(i, d)
  \/ ForwardFound \/ ForwardBinds \/ ForwardRefused
  \/ \E k \in Sockets : ReceiverRelays(k)
  \/ \E k \in Sockets : ReceiverOversized(k)
  \/ \E k \in Sockets : ReceiverRefused(k)
  \/ \E k \in Sockets : ReceiverFails(k)
  \/ \E k \in Sockets : ReceiverCancelled(k)
  \/ ConnectionLost \/ Shutdown

Spec == Init /\ [][Next]_vars

(* tokio polls a task whose cancel channel was written (select! is fair),  *)
(* and the loop of the connection runs to its end.                         *)
Fairness ==
  /\ \A k \in Sockets : WF_vars(ReceiverCancelled(k))
  /\ WF_vars(ForwardFound) /\ WF_vars(ForwardBinds) /\ WF_vars(ForwardRefused)
  /\ WF_vars(Shutdown)

FairSpec == Spec /\ Fairness

-----------------------------------------------------------------------------
(* The state has the shape of the structs, and the table its limit.        *)
TypeOK ==
  /\ now \in 0 .. MaxTime
  /\ DOMAIN associations \subseteq SessionIds
  /\ \A i \in DOMAIN associations :
       associations[i] \in [destination: Allowed, socket: 1 .. bound]
  /\ Cardinality(DOMAIN associations) <= MaxAssociations
  /\ forwarding \in [id: SessionIds, destination: Allowed] \cup {NoForward}
  /\ bound \in 0 .. MaxSockets
  /\ last_active \in [Sockets -> 0 .. now]
  /\ receiver \in [Sockets -> {"absent", "waiting", "refused", "ended"}]
  /\ cancelled \subseteq 1 .. bound
  /\ connection \in {"open", "lost", "shut"}

(* A task that is not told to end belongs to an association in the table:  *)
(* neither pruning nor shutdown leaves a socket open that nothing limits.  *)
NoOrphanReceiver ==
  \A k \in Sockets : receiver[k] = "waiting" => k \in Owned \/ k \in cancelled

(* An association that was in use within the timeout is not taken away,    *)
(* and while it lasts its session id keeps its destination and its socket. *)
SessionKeepsTarget ==
  [][\A i \in DOMAIN associations :
       connection' # "shut" /\ Active(associations[i].socket)
         => i \in DOMAIN associations' /\ associations'[i] = associations[i]]_vars

(* Once the connection is lost every response task ends, although no       *)
(* response may ever arrive again.                                         *)
ReceiversEnd == (connection = "lost") ~> (\A k \in Sockets : receiver[k] # "waiting")

(* protocol-v0.md:371: a sender fails or drops locally a datagram that     *)
(* does not fit.  Dropping it leaves the association able to return the    *)
(* responses that do.                                                      *)
OversizedOnlyDropped ==
  connection = "open" =>
    \A i \in DOMAIN associations : receiver[associations[i].socket] # "ended"
=============================================================================
