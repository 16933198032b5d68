--------------------------- MODULE ReliableChannel --------------------------
(***************************************************************************)
(* What one direction of a reliable flow promises its users: an ordered,   *)
(* gap-free and duplicate-free channel whose confirmations are truthful.   *)
(* Module SessionTransfer implements it over carriers that lose, repeat    *)
(* and reorder, and across carrier transitions.                            *)
(***************************************************************************)
EXTENDS Naturals, Sequences

CONSTANTS Payloads

VARIABLES
  sent,        \* payloads accepted from the sending user, in order
  delivered,   \* payloads handed to the receiving user, in order
  confirmed,   \* how many payloads the sender considers acknowledged
  status       \* of the sending side: open, closed in order, or given up

vars == <<sent, delivered, confirmed, status>>

Init == sent = <<>> /\ delivered = <<>> /\ confirmed = 0 /\ status = "open"

Send(p) ==
  /\ status = "open"
  /\ sent' = Append(sent, p)
  /\ UNCHANGED <<delivered, confirmed, status>>

(* The receiver gets exactly the next payload. *)
Deliver ==
  /\ Len(delivered) < Len(sent)
  /\ delivered' = Append(delivered, sent[Len(delivered) + 1])
  /\ UNCHANGED <<sent, confirmed, status>>

(* Only delivered payloads are confirmed. *)
Confirm ==
  /\ status = "open"
  /\ confirmed' \in confirmed + 1 .. Len(delivered)
  /\ UNCHANGED <<sent, delivered, status>>

(* An orderly close: everything sent was confirmed. *)
Close ==
  /\ status = "open"
  /\ confirmed = Len(sent)
  /\ status' = "closed"
  /\ UNCHANGED <<sent, delivered, confirmed>>

(* Giving up says nothing about what was delivered. *)
Fail ==
  /\ status = "open"
  /\ status' = "failed"
  /\ UNCHANGED <<sent, delivered, confirmed>>

Next == (\E p \in Payloads : Send(p)) \/ Deliver \/ Confirm \/ Close \/ Fail

Spec == Init /\ [][Next]_vars
=============================================================================
