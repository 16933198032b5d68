-------------------------- MODULE MCSessionTransfer -------------------------
(* Model-checking instance of SessionTransfer, and its refinement of       *)
(* ReliableChannel.                                                        *)
EXTENDS SessionTransfer
=============================================================================
