---------------------------- MODULE SessionTracer ---------------------------
(***************************************************************************)
(* The complete velum_session::SessionTracer: the flows and epoch window   *)
(* of module SessionFlows plus the authenticated carrier attachments, the  *)
(* replay window (velum_crypto::ReplayWindow) and the negotiated           *)
(* parameters that every attachment proof is bound to.                     *)
(*                                                                         *)
(* The keyed proof is ideal: a proof is either the context it was computed *)
(* over, or Forged, which verifies for no context.  The session id is part *)
(* of that context and is fixed here, since one tracer serves one session. *)
(* The carrier is deliberately not part of it: `CarrierAttachment.carrier` *)
(* is local ownership and never authenticated.                             *)
(***************************************************************************)
EXTENDS Naturals, Sequences

CONSTANTS
  None, FlowIdMax, SequenceMax, EpochMax, TickMax,
  MaxFlows, MaxPendingSegments, MaxPendingBytes,
  MaxSessionPendingSegments, MaxSessionPendingBytes,
  MaxPendingAge, MaxEvents, InitialEpoch, Lengths,
  Carriers,          \* CarrierId values of this process
  AttachmentIds,     \* AttachmentId values peers choose
  Parameters,        \* NegotiatedParameters values
  Forged             \* a proof made without the session key

VARIABLES
  current, retiring, tick, next_flow, pending_segments, pending_bytes,
  flows, events,
  negotiated,            \* Option<NegotiatedParameters>
  attachment_replay,     \* ReplayWindow: the latest accepted epoch
  accepted_attachment,   \* Option<AcceptedCarrierAttachment>
  retiring_attachment,   \* Option<AcceptedCarrierAttachment>
  history                \* history variable: every attachment ever accepted

Flows == INSTANCE SessionFlows

flowVars       == <<current, retiring, tick, next_flow, pending_segments,
                    pending_bytes, flows, events>>
attachmentVars == <<negotiated, attachment_replay, accepted_attachment,
                    retiring_attachment, history>>
tracerVars     == <<flowVars, attachmentVars>>

Epochs == 0 .. EpochMax

AcceptedCarrierAttachment ==
  [carrier: Carriers, epoch: Epochs, attachment_id: AttachmentIds]

ProofContexts ==
  [epoch: Epochs, attachment_id: AttachmentIds, parameters: Parameters]
Proofs == ProofContexts \cup {Forged}

CarrierAttachment ==
  [carrier: Carriers, epoch: Epochs, attachment_id: AttachmentIds,
   parameters: Parameters, proof: Proofs]

ASSUME AttachmentsAssumption ==
  /\ \A e \in Epochs, i \in AttachmentIds, p \in Parameters :
       Forged # [epoch |-> e, attachment_id |-> i, parameters |-> p]
  /\ \A c \in Carriers, e \in Epochs, i \in AttachmentIds :
       None # [carrier |-> c, epoch |-> e, attachment_id |-> i]
  /\ None \notin Parameters

(* What SessionFlows assumes of the constants that are passed on to it. *)
ASSUME SessionAssumption == Flows!CountersAssumption /\ Flows!LimitsAssumption

-----------------------------------------------------------------------------
TracerInit ==
  /\ Flows!Init
  /\ negotiated = None
  /\ attachment_replay = None
  /\ accepted_attachment = None
  /\ retiring_attachment = None
  /\ history = {}

CarrierAttachmentIsActive(carrier) ==
  /\ accepted_attachment # None
  /\ accepted_attachment.carrier = carrier
  /\ accepted_attachment.epoch = current

CarrierAttachmentIsDispatchable(carrier) ==
  \/ CarrierAttachmentIsActive(carrier)
  \/ /\ retiring_attachment # None
     /\ retiring_attachment.carrier = carrier

BindNegotiatedParameters(parameters) ==
  /\ accepted_attachment = None
  /\ attachment_replay = None
  /\ negotiated = None
  /\ negotiated' = parameters
  /\ UNCHANGED <<flowVars, attachment_replay, accepted_attachment,
                 retiring_attachment, history>>

(* AttachmentAuthenticator::verify for the session's own parameters.       *)
Verifies(attachment) ==
  attachment.proof = [epoch         |-> attachment.epoch,
                      attachment_id |-> attachment.attachment_id,
                      parameters    |-> negotiated]

(* ReplayWindow::accept succeeds: only epochs beyond the latest.           *)
ReplayAccepts(epoch) == attachment_replay # None => epoch > attachment_replay

(* The checks of authenticate_carrier_attachment up to and including the   *)
(* proof.                                                                  *)
Authentic(attachment) ==
  /\ attachment.parameters = negotiated
  /\ attachment.epoch = current
  /\ Verifies(attachment)

Identity(attachment) ==
  [carrier |-> attachment.carrier, epoch |-> attachment.epoch,
   attachment_id |-> attachment.attachment_id]

(* Mutant: the window advances before the proof is verified. *)
AttachReplayFirst(attachment) ==
  /\ negotiated # None
  /\ attachment.parameters = negotiated
  /\ attachment.epoch = current
  /\ accepted_attachment # Identity(attachment)
  /\ ReplayAccepts(attachment.epoch)
  /\ attachment_replay' = attachment.epoch
  /\ accepted_attachment' = IF Verifies(attachment) THEN Identity(attachment)
                            ELSE accepted_attachment
  /\ history' = IF Verifies(attachment) THEN history \cup {attachment} ELSE history
  /\ UNCHANGED <<flowVars, negotiated, retiring_attachment>>

(* Mutant: the replay window is not consulted. *)
AttachWithoutReplayWindow(attachment) ==
  /\ negotiated # None
  /\ Authentic(attachment)
  /\ accepted_attachment # Identity(attachment)
  /\ attachment_replay' = attachment.epoch
  /\ accepted_attachment' = Identity(attachment)
  /\ history' = history \cup {attachment}
  /\ UNCHANGED <<flowVars, negotiated, retiring_attachment>>

(* authenticate_carrier_attachment returning Accepted.                     *)
Attach(attachment) ==
  /\ negotiated # None
  /\ Authentic(attachment)
  /\ accepted_attachment # Identity(attachment)
  /\ ReplayAccepts(attachment.epoch)
  /\ attachment_replay' = attachment.epoch
  /\ accepted_attachment' = Identity(attachment)
  /\ history' = history \cup {attachment}
  /\ UNCHANGED <<flowVars, negotiated, retiring_attachment>>

(* authenticate_carrier_attachment refusing with a recorded event.  The    *)
(* call that returns AlreadyAccepted, and the one made before negotiation, *)
(* leave the session as it was.                                            *)
RejectAttachment(attachment) ==
  /\ negotiated # None
  /\ Authentic(attachment)
       => /\ accepted_attachment # Identity(attachment)
          /\ ~ReplayAccepts(attachment.epoch)
  /\ Flows!RejectTransition
  /\ UNCHANGED attachmentVars

(* Mutant: the accepted attachment stays in place of the retiring one. *)
BeginTransitionKeepingAttachment(n) ==
  /\ Flows!BeginTransition(n)
  /\ retiring_attachment' = accepted_attachment
  /\ UNCHANGED <<negotiated, attachment_replay, accepted_attachment, history>>

(* Mutant: a transition may begin while another is in progress. *)
BeginTransitionAnyTime(n) ==
  /\ current < EpochMax
  /\ retiring' = current
  /\ current' = current + 1
  /\ Flows!RecordEvents(n)
  /\ retiring_attachment' = accepted_attachment
  /\ accepted_attachment' = None
  /\ UNCHANGED <<tick, next_flow, pending_segments, pending_bytes, flows,
                 negotiated, attachment_replay, history>>

BeginTransition(n) ==
  /\ Flows!BeginTransition(n)
  /\ retiring_attachment' = accepted_attachment
  /\ accepted_attachment' = None
  /\ UNCHANGED <<negotiated, attachment_replay, history>>

(* negotiate_transition_version without a shared version records an event. *)
RejectTransitionVersion ==
  /\ Flows!RejectTransition
  /\ UNCHANGED attachmentVars

CompleteTransition ==
  /\ Flows!CompleteTransition
  /\ retiring_attachment' = None
  /\ UNCHANGED <<negotiated, attachment_replay, accepted_attachment, history>>

(* Any operation on flows; attachments are not looked at. *)
FlowOperation ==
  /\ Flows!FlowNext
  /\ UNCHANGED attachmentVars

TracerNext ==
  \/ FlowOperation
  \/ \E p \in Parameters : BindNegotiatedParameters(p)
  \/ \E a \in CarrierAttachment : Attach(a)
  \/ \E a \in CarrierAttachment : RejectAttachment(a)
  \/ \E n \in {0, 1} : BeginTransition(n)
  \/ RejectTransitionVersion
  \/ CompleteTransition

TracerSpec == TracerInit /\ [][TracerNext]_tracerVars

-----------------------------------------------------------------------------
(* The state has the shape of the Rust struct.                             *)
TypeOK ==
  /\ Flows!TypeOK
  /\ negotiated \in Parameters \cup {None}
  /\ attachment_replay \in Epochs \cup {None}
  /\ accepted_attachment \in AcceptedCarrierAttachment \cup {None}
  /\ retiring_attachment \in AcceptedCarrierAttachment \cup {None}
  /\ history \subseteq CarrierAttachment

(* The attachments agree with the epoch window: the accepted one belongs   *)
(* to the current epoch and the retiring one to the retiring epoch, so a   *)
(* carrier never outlives the window its frames are valid in.              *)
AttachmentsMatchWindow ==
  /\ accepted_attachment # None
       => /\ accepted_attachment.epoch = current
          /\ attachment_replay = current
  /\ retiring_attachment # None
       => /\ retiring # None
          /\ retiring_attachment.epoch = retiring

(* Rejected proofs, mismatched parameters and replays never use up the     *)
(* epoch: while no carrier is attached the window still admits one.        *)
FreshEpochAttachable == accepted_attachment = None => ReplayAccepts(current)

(* Over the whole life of the session an epoch has one attachment          *)
(* identity, and all attachments authenticated the same parameters: a      *)
(* proof captured on one carrier is of no use on another.                  *)
OneIdentityPerEpoch ==
  /\ \A a, b \in history : a.epoch = b.epoch => a = b
  /\ \A a \in history : a.parameters = negotiated

(* Attachments over any mix of proofs, replays and transitions: they agree *)
(* with the epoch window, refusals use nothing up, identities are unique.  *)
AttachmentsSound == AttachmentsMatchWindow /\ FreshEpochAttachable /\ OneIdentityPerEpoch

(* Adding attachments leaves the behaviour of flows and epochs as          *)
(* SessionFlows specifies it.                                              *)
FlowsSpec == Flows!Spec
=============================================================================
