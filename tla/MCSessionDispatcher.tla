------------------------- MODULE MCSessionDispatcher ------------------------
(* Model-checking instance of SessionDispatcher. *)
EXTENDS SessionDispatcher, TLC

Symmetry == Permutations(Carriers) \cup Permutations(Parameters)
=============================================================================
