-------------------------- MODULE MCClientControl --------------------------
(* Model-checking instance of ClientControl. *)
EXTENDS ClientControl
=============================================================================
