-------------------------- MODULE MCClientLifecycles -------------------------
(* The client runtime, and the Android engine that runs on it. Of the      *)
(* runtime the engine sees only whether it is on line (runtimeUp), so a    *)
(* behaviour is one of the lifecycle that `part` names.                    *)
EXTENDS ClientRuntime, AndroidTun

CONSTANTS a1, a2
VARIABLE part

MCTargetOf == <<a1, a2>>

LifecyclesInit == part \in {"runtime", "android udp", "android tcp"} /\ Init /\ AndroidInit

LifecyclesNext ==
  /\ part' = part
  /\ \/ part = "runtime" /\ Next /\ UNCHANGED androidVars
     \/ /\ UNCHANGED vars
        /\ \/ part # "runtime" /\ EngineNext
           \/ part = "android udp" /\ UdpRelayNext
           \/ part = "android tcp" /\ TcpRelayNext

LifecyclesSpec ==
  LifecyclesInit /\ [][LifecyclesNext]_<<part, vars, androidVars>> /\ Fairness /\ AndroidFairness
=============================================================================
