---------------------------- MODULE MCRelayNode -----------------------------
(* Model-checking instance of RelayNode: all streams are on connection c1, *)
(* and the other connection only carries datagrams.                        *)
EXTENDS RelayNode

CONSTANT c1

OnFirstConnection == [s \in Streams |-> c1]

OneFlowOrNone ==
  {[max_sessions |-> 1, max_flows_per_session |-> n] : n \in {0, 1}}
=============================================================================
