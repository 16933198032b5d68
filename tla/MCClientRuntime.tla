--------------------------- MODULE MCClientRuntime --------------------------
(* Model-checking instance of ClientRuntime. *)
EXTENDS ClientRuntime
=============================================================================
