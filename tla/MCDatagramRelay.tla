-------------------------- MODULE MCDatagramRelay ---------------------------
(* Model-checking instance of DatagramRelay. *)
EXTENDS DatagramRelay
=============================================================================
