--------------------------- MODULE MCSessionFlows ---------------------------
(* Model-checking instance of SessionFlows. *)
EXTENDS SessionFlows
=============================================================================
