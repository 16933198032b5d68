-------------------------- MODULE SessionDispatcher -------------------------
(***************************************************************************)
(* SessionFrameDispatcher (crates/velum-session/src/dispatcher.rs): one    *)
(* dispatcher per carrier turns decoded frames into operations of the      *)
(* session they all share.  Frames of different carriers interleave freely *)
(* with each other and with the local operations of the session's owner.   *)
(*                                                                         *)
(* A frame that is refused without touching the session is a stuttering    *)
(* step: any frame after ConnectionClose, an ATTACH that names another     *)
(* session, a frame kind only a client receives, and every frame of a      *)
(* carrier that is not attached.                                           *)
(***************************************************************************)
EXTENDS SessionTracer

VARIABLES
  closed,      \* SessionFrameDispatcher.closed of each carrier
  effect       \* history variable: the latest frame that changed the session

vars == <<tracerVars, closed, effect>>

FlowIds   == 0 .. FlowIdMax
Sequences == 0 .. SequenceMax

Init ==
  /\ TracerInit
  /\ closed = [c \in Carriers |-> FALSE]
  /\ effect = None

(* What a frame did, with the session's epoch when it did it. *)
Effect(kind, carrier, epoch) ==
  effect' = [kind |-> kind, carrier |-> carrier, epoch |-> epoch,
             during |-> current]

(* Frame::Attach.  The identity of an accepted attachment is answered      *)
(* again without a change, so a lost ATTACH_ACCEPTED can be retransmitted. *)
DispatchAttach(carrier, attachment) ==
  /\ ~closed[carrier]
  /\ attachment.carrier = carrier
  /\ Attach(attachment) \/ RejectAttachment(attachment)
  /\ UNCHANGED <<closed, effect>>

(* The two gates in front of the remaining frames. *)
Active(carrier)       == ~closed[carrier] /\ CarrierAttachmentIsActive(carrier)
Dispatchable(carrier) == ~closed[carrier] /\ CarrierAttachmentIsDispatchable(carrier)

(* Mutant: a retiring carrier may still open flows. *)
StreamOpenWhileRetiring(carrier, id) ==
  /\ Dispatchable(carrier)
  /\ Flows!OpenReliableFlow(id)
  /\ Effect("open", carrier, current)
  /\ UNCHANGED <<attachmentVars, closed>>

StreamOpen(carrier, id) ==
  /\ Active(carrier)
  /\ Flows!OpenReliableFlow(id)
  /\ Effect("open", carrier, current)
  /\ UNCHANGED <<attachmentVars, closed>>

StreamData(carrier, id, epoch, sequence) ==
  /\ Dispatchable(carrier)
  /\ \/ /\ Flows!ReceiveDelivered(id, epoch, sequence)
        /\ Effect("data", carrier, epoch)
     \/ /\ Flows!ReceiveIgnored(id, epoch, sequence)
        /\ UNCHANGED effect
  /\ UNCHANGED <<attachmentVars, closed>>

StreamAcknowledgement(carrier, id, epoch, through) ==
  /\ Dispatchable(carrier)
  /\ Flows!Acknowledge(id, epoch, through)
  /\ Effect("ack", carrier, epoch)
  /\ UNCHANGED <<attachmentVars, closed>>

StreamFinish(carrier, id, epoch, final_next) ==
  /\ Dispatchable(carrier)
  /\ Flows!FinishReceiving(id, epoch, final_next)
  /\ Effect("finish", carrier, epoch)
  /\ UNCHANGED <<attachmentVars, closed>>

StreamReset(carrier, id) ==
  /\ Dispatchable(carrier)
  /\ Flows!ResetReliableFlow(id)
  /\ Effect("reset", carrier, current)
  /\ UNCHANGED <<attachmentVars, closed>>

(* Closes this carrier's dispatcher and nothing else. *)
ConnectionClose(carrier) ==
  /\ Dispatchable(carrier)
  /\ closed' = [closed EXCEPT ![carrier] = TRUE]
  /\ UNCHANGED <<tracerVars, effect>>

(* What the owner of the session does between frames. *)
LocalOperation ==
  /\ \/ \E p \in Parameters : BindNegotiatedParameters(p)
     \/ \E n \in {0, 1} : BeginTransition(n)
     \/ CompleteTransition \/ RejectTransitionVersion
     \/ /\ \/ \E id \in FlowIds, len \in Lengths : Flows!Send(id, len)
           \/ \E id \in FlowIds : Flows!CloseReliableFlow(id)
           \/ \E ticks \in 1 .. TickMax : Flows!AdvanceTime(ticks)
        /\ UNCHANGED attachmentVars
  /\ UNCHANGED <<closed, effect>>

Dispatch(c) ==
  \/ \E a \in CarrierAttachment : DispatchAttach(c, a)
  \/ \E id \in FlowIds : StreamOpen(c, id)
  \/ \E id \in FlowIds, e \in Epochs, s \in Sequences : StreamData(c, id, e, s)
  \/ \E id \in FlowIds, e \in Epochs, s \in Sequences :
       StreamAcknowledgement(c, id, e, s)
  \/ \E id \in FlowIds, e \in Epochs, s \in Sequences : StreamFinish(c, id, e, s)
  \/ \E id \in FlowIds : StreamReset(c, id)
  \/ ConnectionClose(c)

Next == LocalOperation \/ \E c \in Carriers : Dispatch(c)

Spec == Init /\ [][Next]_vars

-----------------------------------------------------------------------------
(* Whatever the order of attachments, transitions and frames, a frame acts *)
(* only for a carrier that authenticated itself in the session's epoch at  *)
(* that time or in the one before it, and a flow is opened only by the     *)
(* carrier authenticated for the epoch it is opened in.                    *)
AuthorisedEffects ==
  effect # None =>
    \E a \in history :
      /\ a.carrier = effect.carrier
      /\ \/ a.epoch = effect.during
         \/ effect.kind # "open" /\ a.epoch + 1 = effect.during

(* A frame takes effect only in one of the two epochs open at that time.   *)
EffectsInWindow ==
  effect # None => effect.during \in {effect.epoch, effect.epoch + 1}

(* No frame acts without an authenticated carrier, or outside the window.  *)
FrameEffects == AuthorisedEffects /\ EffectsInWindow
=============================================================================
