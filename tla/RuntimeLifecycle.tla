-------------------------- MODULE RuntimeLifecycle --------------------------
(***************************************************************************)
(* What a ClientRuntime promises to the code that drives it: the phases of *)
(* RuntimePhase, in the order in which Lifecycle allows them, and a        *)
(* generation that grows with every accepted start and every stop.         *)
(* ClientRuntime implements it and ClientControl is built on it.           *)
(***************************************************************************)
EXTENDS Naturals

VARIABLES phase, generation

Init == phase = "Stopped" /\ generation = 0

(* begin_connect *)
Connect == /\ phase \in {"Stopped", "Failed"}
           /\ phase' = "Connecting" /\ generation' = generation + 1

(* complete_connect *)
Settle == /\ phase = "Connecting"
          /\ phase' \in {"Online", "Failed"} /\ UNCHANGED generation

(* fail_online *)
Fail == /\ phase = "Online"
        /\ phase' = "Failed" /\ UNCHANGED generation

(* begin_stop *)
BeginStop == /\ phase \in {"Connecting", "Online", "Failed"}
             /\ phase' = "Stopping" /\ generation' = generation + 1

(* complete_stop *)
CompleteStop == /\ phase = "Stopping"
                /\ phase' = "Stopped" /\ UNCHANGED generation

Next == Connect \/ Settle \/ Fail \/ BeginStop \/ CompleteStop

Spec == Init /\ [][Next]_<<phase, generation>>
=============================================================================
