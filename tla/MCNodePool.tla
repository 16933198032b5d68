----------------------------- MODULE MCNodePool -----------------------------
(* Model-checking instance of NodePool. *)
EXTENDS NodePool
=============================================================================
