----------------------- MODULE SessionDispatcherProofs ----------------------
(***************************************************************************)
(* Proofs about modules SessionTracer and SessionDispatcher.  The          *)
(* dispatcher implements the tracer and the tracer implements the flows,   *)
(* so that what is proved of SessionFlows holds for a session that frames  *)
(* and transitions act on.  TracerInv adds to AttachmentsSound what makes  *)
(* it inductive: the epoch window is two epochs wide at most, the replay   *)
(* window is behind the session and ahead of every accepted attachment.    *)
(***************************************************************************)
EXTENDS SessionDispatcher, TLAPS

(* A step of a flow leaves the epochs alone. *)
LEMMA FlowsKeepEpochs == Flows!FlowNext => UNCHANGED <<current, retiring>>
BY DEF Flows!FlowNext, Flows!OpenReliableFlow, Flows!CloseReliableFlow, Flows!Send,
   Flows!SendRefused, Flows!Acknowledge, Flows!ReceiveDelivered, Flows!ReceiveIgnored,
   Flows!FinishReceiving, Flows!ResetReliableFlow, Flows!AdvanceTime, Flows!epochVars

(* Every step of the dispatcher is a step of the session, or none. *)
LEMMA DispatcherSteps == [Next]_vars => [TracerNext]_tracerVars
<1> SUFFICES ASSUME [Next]_vars
             PROVE  [TracerNext]_tracerVars
  OBVIOUS
<1>1. CASE UNCHANGED vars
  BY <1>1 DEF vars
<1>2. CASE LocalOperation
  <2>1. 1 .. TickMax \subseteq Flows!Ticks
    BY DEF Flows!Ticks
  <2> QED BY <1>2, <2>1 DEF LocalOperation, TracerNext, FlowOperation, Flows!FlowNext, FlowIds,
          Flows!FlowIds
<1>3. ASSUME NEW c \in Carriers, Dispatch(c)
      PROVE  [TracerNext]_tracerVars
  <2>1. FlowIds = Flows!FlowIds /\ Sequences = Flows!Sequences /\ Epochs = Flows!Epochs
    BY DEF FlowIds, Flows!FlowIds, Sequences, Flows!Sequences, Epochs, Flows!Epochs
  <2>2. CASE \E a \in CarrierAttachment : DispatchAttach(c, a)
    BY <2>2 DEF DispatchAttach, TracerNext
  <2>3. CASE \E id \in FlowIds : StreamOpen(c, id) \/ StreamReset(c, id)
    BY <2>1, <2>3 DEF StreamOpen, StreamReset, TracerNext, FlowOperation, Flows!FlowNext
  <2>4. CASE \E id \in FlowIds, e \in Epochs, s \in Sequences :
               \/ StreamData(c, id, e, s) \/ StreamAcknowledgement(c, id, e, s)
               \/ StreamFinish(c, id, e, s)
    BY <2>1, <2>4 DEF StreamData, StreamAcknowledgement, StreamFinish, TracerNext, FlowOperation,
       Flows!FlowNext
  <2>5. CASE ConnectionClose(c)
    BY <2>5 DEF ConnectionClose
  <2> QED BY <1>3, <2>2, <2>3, <2>4, <2>5 DEF Dispatch
<1> QED BY <1>1, <1>2, <1>3 DEF Next

(* Every step of the session is a step of its flows and epochs, or none. *)
LEMMA TracerSteps == [TracerNext]_tracerVars => [Flows!Next]_(Flows!flowVars)
<1> SUFFICES ASSUME [TracerNext]_tracerVars
             PROVE  [Flows!Next]_(Flows!flowVars)
  OBVIOUS
<1>1. UNCHANGED flowVars => UNCHANGED (Flows!flowVars)
  BY DEF flowVars, Flows!flowVars
<1>2. CASE FlowOperation \/ RejectTransitionVersion \/ CompleteTransition
  BY <1>2 DEF FlowOperation, RejectTransitionVersion, CompleteTransition, Flows!Next
<1>3. CASE \E n \in {0, 1} : BeginTransition(n)
  BY <1>3 DEF BeginTransition, Flows!Next
<1>4. CASE \E a \in CarrierAttachment : RejectAttachment(a)
  BY <1>4 DEF RejectAttachment, Flows!Next
<1>5. CASE \/ \E p \in Parameters : BindNegotiatedParameters(p)
           \/ \E a \in CarrierAttachment : Attach(a)
           \/ UNCHANGED tracerVars
  BY <1>1, <1>5 DEF BindNegotiatedParameters, Attach, tracerVars
<1> QED BY <1>2, <1>3, <1>4, <1>5 DEF TracerNext

-----------------------------------------------------------------------------
(* The epochs open at a time are adjacent, and what was accepted is never  *)
(* ahead of the replay window, nor that of the session.                    *)
Window ==
  /\ current \in Epochs /\ retiring \in Epochs \cup {None}
  /\ retiring # None => retiring + 1 = current
  /\ attachment_replay \in Epochs \cup {None}
  /\ attachment_replay # None => attachment_replay <= current
  /\ history \subseteq CarrierAttachment
  /\ \A a \in history : attachment_replay # None /\ a.epoch <= attachment_replay

(* The attachments of the session are ones it has accepted. *)
Accepted ==
  /\ accepted_attachment # None => \E a \in history : Identity(a) = accepted_attachment
  /\ retiring_attachment # None => \E a \in history : Identity(a) = retiring_attachment

TracerInv == Window /\ Accepted /\ AttachmentsSound

(* Epochs are naturals, and None is none of them.                          *)
LEMMA EpochsNat == Epochs \subseteq Nat /\ None \notin Epochs /\ InitialEpoch \in Epochs
BY SessionAssumption DEF Epochs, Flows!CountersAssumption

(* A new session has accepted nothing. *)
LEMMA TracerInitial == TracerInit => TracerInv
BY EpochsNat DEF TracerInit, Flows!Init, TracerInv, Window, Accepted, AttachmentsSound,
   AttachmentsMatchWindow, FreshEpochAttachable, ReplayAccepts, OneIdentityPerEpoch

(* Steps that leave epochs and attachments alone. *)
LEMMA TracerSame ==
  ASSUME TracerInv, UNCHANGED <<current, retiring>>, UNCHANGED attachmentVars
  PROVE  TracerInv'
BY DEF attachmentVars, TracerInv, Window, Accepted, AttachmentsSound, AttachmentsMatchWindow,
   FreshEpochAttachable, ReplayAccepts, OneIdentityPerEpoch

(* The accepted attachment is the first of its epoch. *)
LEMMA AttachKeeps ==
  ASSUME TracerInv, NEW a \in CarrierAttachment, Attach(a)
  PROVE  TracerInv'
<1>1. /\ a.epoch = current /\ a.parameters = negotiated /\ ReplayAccepts(current)
      /\ attachment_replay' = current /\ accepted_attachment' = Identity(a)
      /\ history' = history \cup {a}
      /\ UNCHANGED <<current, retiring, negotiated, retiring_attachment>>
  BY DEF Attach, Authentic, flowVars
<1>2. /\ current \in Nat /\ current # None /\ current \in Epochs
      /\ \A b \in history : b \in CarrierAttachment /\ b.epoch \in Nat
  BY EpochsNat DEF TracerInv, Window, CarrierAttachment
<1>3. \A b \in history : b.epoch < current /\ b.epoch <= current
  <2> SUFFICES ASSUME NEW b \in history
               PROVE  b.epoch < current /\ b.epoch <= current
    OBVIOUS
  <2>1. attachment_replay # None /\ attachment_replay \in Nat /\ b.epoch <= attachment_replay
    BY EpochsNat DEF TracerInv, Window
  <2>2. current > attachment_replay
    BY <1>1, <2>1 DEF ReplayAccepts
  <2> QED BY <1>2, <2>1, <2>2
<1>4. Window'
  BY <1>1, <1>2, <1>3 DEF TracerInv, Window
<1>5. Accepted'
  BY <1>1 DEF TracerInv, Accepted, Identity
<1>6. Identity(a).epoch = current /\ Identity(a) # None
  BY <1>1, AttachmentsAssumption DEF Identity, CarrierAttachment
<1>7. AttachmentsMatchWindow' /\ FreshEpochAttachable'
  BY <1>1, <1>6 DEF TracerInv, AttachmentsSound, AttachmentsMatchWindow, FreshEpochAttachable
<1>8. OneIdentityPerEpoch'
  BY <1>1, <1>2, <1>3 DEF TracerInv, AttachmentsSound, OneIdentityPerEpoch
<1> QED BY <1>4, <1>5, <1>7, <1>8 DEF TracerInv, AttachmentsSound

(* begin_transition moves the accepted attachment to the retiring epoch.   *)
LEMMA BeginKeeps ==
  ASSUME TracerInv, NEW n \in {0, 1}, BeginTransition(n)
  PROVE  TracerInv'
<1>1. /\ retiring = None /\ current < EpochMax /\ retiring' = current /\ current' = current + 1
      /\ retiring_attachment' = accepted_attachment /\ accepted_attachment' = None
      /\ UNCHANGED <<negotiated, attachment_replay, history>>
  BY DEF BeginTransition, Flows!BeginTransition, Flows!AdvanceEpoch
<1>2. current \in Nat /\ current # None /\ current + 1 \in Epochs
  BY <1>1, EpochsNat, SessionAssumption DEF TracerInv, Window, Epochs,
     Flows!CountersAssumption
<1>3. attachment_replay # None => attachment_replay \in Nat /\ attachment_replay <= current
  BY EpochsNat DEF TracerInv, Window
<1>4. Window'
  BY <1>1, <1>2, <1>3, EpochsNat DEF TracerInv, Window
<1>5. Accepted'
  BY <1>1 DEF TracerInv, Accepted
<1>6. AttachmentsMatchWindow'
  BY <1>1, <1>2 DEF TracerInv, AttachmentsSound, AttachmentsMatchWindow
<1>7. FreshEpochAttachable'
  BY <1>1, <1>2, <1>3 DEF FreshEpochAttachable, ReplayAccepts
<1>8. OneIdentityPerEpoch'
  BY <1>1 DEF TracerInv, AttachmentsSound, OneIdentityPerEpoch
<1> QED BY <1>4, <1>5, <1>6, <1>7, <1>8 DEF TracerInv, AttachmentsSound

(* Every step of the session preserves the invariant. *)
LEMMA TracerStep == TracerInv /\ [TracerNext]_tracerVars => TracerInv'
<1> SUFFICES ASSUME TracerInv, [TracerNext]_tracerVars
             PROVE  TracerInv'
  OBVIOUS
<1>1. CASE FlowOperation
  BY <1>1, FlowsKeepEpochs, TracerSame DEF FlowOperation
<1>2. ASSUME NEW p \in Parameters, BindNegotiatedParameters(p)
      PROVE  TracerInv'
  <2>1. /\ attachment_replay = None
        /\ UNCHANGED <<current, retiring, attachment_replay, accepted_attachment,
                       retiring_attachment, history>>
    BY <1>2 DEF BindNegotiatedParameters, flowVars
  <2>2. history = {}
    BY <2>1 DEF TracerInv, Window
  <2> QED BY <2>1, <2>2 DEF TracerInv, Window, Accepted, AttachmentsSound,
          AttachmentsMatchWindow, FreshEpochAttachable, ReplayAccepts, OneIdentityPerEpoch
<1>3. ASSUME NEW a \in CarrierAttachment, Attach(a)
      PROVE  TracerInv'
  BY <1>3, AttachKeeps
<1>4. ASSUME NEW a \in CarrierAttachment, RejectAttachment(a)
      PROVE  TracerInv'
  BY <1>4, TracerSame DEF RejectAttachment, Flows!RejectTransition, Flows!epochVars
<1>5. ASSUME NEW n \in {0, 1}, BeginTransition(n)
      PROVE  TracerInv'
  BY <1>5, BeginKeeps
<1>6. CASE RejectTransitionVersion
  BY <1>6, TracerSame DEF RejectTransitionVersion, Flows!RejectTransition, Flows!epochVars
<1>7. CASE CompleteTransition
  <2>1. /\ retiring' = None /\ retiring_attachment' = None
        /\ UNCHANGED <<current, negotiated, attachment_replay, accepted_attachment, history>>
    BY <1>7 DEF CompleteTransition, Flows!CompleteTransition
  <2> QED BY <2>1 DEF TracerInv, Window, Accepted, AttachmentsSound, AttachmentsMatchWindow,
          FreshEpochAttachable, ReplayAccepts, OneIdentityPerEpoch
<1>8. CASE UNCHANGED tracerVars
  BY <1>8, TracerSame DEF tracerVars, flowVars
<1> QED BY <1>1, <1>2, <1>3, <1>4, <1>5, <1>6, <1>7, <1>8 DEF TracerNext

-----------------------------------------------------------------------------
(* The carrier behind a frame that passes the gates was accepted in the    *)
(* epoch of the session, or in the one that is retiring.                   *)
LEMMA GatesHold ==
  ASSUME TracerInv, NEW c
  PROVE  /\ Active(c) => \E a \in history : a.carrier = c /\ a.epoch = current
         /\ Dispatchable(c) => \E a \in history :
                                 /\ a.carrier = c
                                 /\ a.epoch = current \/ a.epoch + 1 = current
<1>1. ASSUME Active(c)
      PROVE  \E a \in history : a.carrier = c /\ a.epoch = current
  <2>1. /\ accepted_attachment # None /\ accepted_attachment.carrier = c
        /\ accepted_attachment.epoch = current
    BY <1>1 DEF Active, CarrierAttachmentIsActive
  <2>2. PICK a \in history : Identity(a) = accepted_attachment
    BY <2>1 DEF TracerInv, Accepted
  <2>3. Identity(a).carrier = a.carrier /\ Identity(a).epoch = a.epoch
    BY DEF Identity
  <2> QED BY <2>1, <2>2, <2>3
<1>2. ASSUME Dispatchable(c), ~Active(c)
      PROVE  \E a \in history : a.carrier = c /\ a.epoch + 1 = current
  <2>1. retiring_attachment # None /\ retiring_attachment.carrier = c
    BY <1>2 DEF Dispatchable, Active, CarrierAttachmentIsDispatchable
  <2>2. retiring_attachment.epoch = retiring /\ retiring + 1 = current
    BY <2>1 DEF TracerInv, AttachmentsSound, AttachmentsMatchWindow, Window
  <2>3. PICK a \in history : Identity(a) = retiring_attachment
    BY <2>1 DEF TracerInv, Accepted
  <2>4. Identity(a).carrier = a.carrier /\ Identity(a).epoch = a.epoch
    BY DEF Identity
  <2> QED BY <2>1, <2>2, <2>3, <2>4
<1> QED BY <1>1, <1>2

(* A frame of an epoch that require_valid_epoch accepts is in the window.  *)
LEMMA WindowHolds ==
  ASSUME TracerInv, NEW e \in Epochs, Flows!ValidEpoch(e)
  PROVE  current \in {e, e + 1}
BY EpochsNat DEF TracerInv, Window, Flows!ValidEpoch

(* History only grows, so an effect that was authorised stays so.          *)
LEMMA EffectSame ==
  ASSUME FrameEffects, UNCHANGED effect, history \subseteq history'
  PROVE  FrameEffects'
BY DEF FrameEffects, AuthorisedEffects, EffectsInWindow

(* Accepted attachments are never forgotten by the history.                *)
LEMMA HistoryGrows == [TracerNext]_tracerVars => history \subseteq history'
BY DEF TracerNext, tracerVars, attachmentVars, FlowOperation, BindNegotiatedParameters, Attach,
   RejectAttachment, BeginTransition, RejectTransitionVersion, CompleteTransition

(* Every frame that changes the session passes its gate and the window.    *)
LEMMA EffectStep ==
  ASSUME TracerInv, FrameEffects, [Next]_vars
  PROVE  FrameEffects'
<1>1. history \subseteq history'
  BY DispatcherSteps, HistoryGrows
<1>2. CASE UNCHANGED effect
  BY <1>1, <1>2, EffectSame
<1>3. current \in Nat
  BY EpochsNat DEF TracerInv, Window
<1>4. ASSUME NEW c, NEW e, NEW kind, Effect(kind, c, e),
             kind = "open" => Active(c), Dispatchable(c), current \in {e, e + 1}
      PROVE  FrameEffects'
  <2>1. /\ effect'.kind = kind /\ effect'.carrier = c /\ effect'.epoch = e
        /\ effect'.during = current
    BY <1>4 DEF Effect
  <2>2. EffectsInWindow'
    BY <1>4, <2>1 DEF EffectsInWindow
  <2>3. AuthorisedEffects'
    BY <1>1, <1>4, <2>1, GatesHold DEF AuthorisedEffects
  <2> QED BY <2>2, <2>3 DEF FrameEffects
<1>5. \A c : Active(c) => Dispatchable(c)
  BY DEF Active, Dispatchable, CarrierAttachmentIsDispatchable
<1>6. ASSUME NEW c \in Carriers, NEW id \in FlowIds, StreamOpen(c, id)
      PROVE  FrameEffects'
  <2>1. Active(c) /\ Effect("open", c, current)
    BY <1>6 DEF StreamOpen
  <2> QED BY <1>4, <1>5, <2>1
<1>7. ASSUME NEW c \in Carriers, NEW id \in FlowIds, StreamReset(c, id)
      PROVE  FrameEffects'
  <2>1. Dispatchable(c) /\ Effect("reset", c, current)
    BY <1>7 DEF StreamReset
  <2> QED BY <1>4, <2>1
<1>8. ASSUME NEW c \in Carriers, NEW id \in FlowIds, NEW e \in Epochs, NEW s \in Sequences,
             \/ StreamData(c, id, e, s) \/ StreamAcknowledgement(c, id, e, s)
             \/ StreamFinish(c, id, e, s)
      PROVE  FrameEffects'
  <2>1. Dispatchable(c) /\ Flows!ValidEpoch(e)
    BY <1>8 DEF StreamData, StreamAcknowledgement, StreamFinish, Flows!ReceiveDelivered,
       Flows!ReceiveIgnored, Flows!Receivable, Flows!Acknowledge, Flows!FinishReceiving
  <2>2. \/ UNCHANGED effect
        \/ Effect("data", c, e) \/ Effect("ack", c, e) \/ Effect("finish", c, e)
    BY <1>8 DEF StreamData, StreamAcknowledgement, StreamFinish
  <2>3. current \in {e, e + 1}
    BY <2>1, WindowHolds
  <2> QED BY <1>2, <1>4, <2>1, <2>2, <2>3
<1>9. ASSUME \/ LocalOperation \/ UNCHANGED vars
             \/ \E c \in Carriers : ConnectionClose(c)
             \/ \E c \in Carriers, a \in CarrierAttachment : DispatchAttach(c, a)
      PROVE  UNCHANGED effect
  BY <1>9 DEF LocalOperation, vars, ConnectionClose, DispatchAttach
<1> QED BY <1>2, <1>6, <1>7, <1>8, <1>9 DEF Next, Dispatch

-----------------------------------------------------------------------------
(* Frames from any number of carriers, in any order, do to the session only *)
(* what its own operations allow.                                           *)
THEOREM DispatcherImplementsTracer == Spec => TracerSpec
BY DispatcherSteps, PTL DEF Spec, Init, TracerSpec

(* Adding attachments and frames leaves the flows and epochs behaving as    *)
(* SessionFlows specifies them.                                             *)
THEOREM DispatcherImplementsFlows == Spec => FlowsSpec
<1>1. Init => Flows!Init
  BY DEF Init, TracerInit
<1>2. [Next]_vars => [Flows!Next]_(Flows!flowVars)
  BY DispatcherSteps, TracerSteps
<1> QED BY <1>1, <1>2, PTL DEF Spec, FlowsSpec, Flows!Spec

(* Over any mix of proofs, replays, transitions and frames, attachments     *)
(* agree with the epoch window, refusals use no epoch up, and an epoch has  *)
(* one attachment identity over the whole life of the session.              *)
THEOREM AttachmentsAlwaysSound == Spec => []AttachmentsSound
<1>1. Init => TracerInv
  BY TracerInitial DEF Init
<1>2. TracerInv /\ [Next]_vars => TracerInv'
  BY TracerStep, DispatcherSteps
<1>3. TracerInv => AttachmentsSound
  BY DEF TracerInv
<1> QED BY <1>1, <1>2, <1>3, PTL DEF Spec

(* No frame takes effect for a carrier that did not authenticate itself in  *)
(* one of the two open epochs, or for an epoch outside that window.         *)
THEOREM FrameEffectsAuthorised == Spec => []FrameEffects
<1>1. Init => TracerInv /\ FrameEffects
  BY TracerInitial DEF Init, FrameEffects, AuthorisedEffects, EffectsInWindow
<1>2. TracerInv /\ FrameEffects /\ [Next]_vars => (TracerInv /\ FrameEffects)'
  BY TracerStep, DispatcherSteps, EffectStep
<1> QED BY <1>1, <1>2, PTL DEF Spec

-----------------------------------------------------------------------------
(* The flows of the dispatcher are the flows that SessionFlowsProofs is     *)
(* about: definition by definition, its instance says the same.             *)
Proved == INSTANCE SessionFlowsProofs

(* The constants are those of the flows' proofs.                           *)
LEMMA ProvedAssumptions == Proved!CountersAssumption /\ Proved!LimitsAssumption
BY SessionAssumption DEF Flows!CountersAssumption, Flows!LimitsAssumption,
   Proved!CountersAssumption, Proved!LimitsAssumption

(* Sums over queues and over the table.                                    *)
LEMMA SameSums ==
  /\ \A q, s : Flows!Released(q, s) = Proved!Released(q, s)
  /\ \A q : Flows!Bytes(q) = Proved!Bytes(q)
  /\ \A ids : Flows!SegmentsOf(ids) = Proved!SegmentsOf(ids)
  /\ \A ids : Flows!BytesOf(ids) = Proved!BytesOf(ids)
  /\ \A S : Flows!Cardinality(S) = Proved!Cardinality(S)
<1>1. \A q, s : Flows!Released(q, s) = Proved!Released(q, s)
  BY DEF Flows!Released, Proved!Released
<1>2. \A g, n : Flows!PartialTotals(g, n) = Proved!PartialTotals(g, n)
  BY DEF Flows!PartialTotals, Proved!PartialTotals
<1>3. \A g, n : Flows!Total(g, n) = Proved!Total(g, n)
  BY <1>2 DEF Flows!Total, Proved!Total
<1>4. \A q : Flows!Bytes(q) = Proved!Bytes(q)
  BY <1>3 DEF Flows!Bytes, Proved!Bytes
<1>5. \A ids : Flows!SegmentsOf(ids) = Proved!SegmentsOf(ids)
  BY <1>3 DEF Flows!SegmentsOf, Proved!SegmentsOf
<1>6. \A ids : Flows!BytesOf(ids) = Proved!BytesOf(ids)
  BY <1>3 DEF Flows!BytesOf, Proved!BytesOf
<1>7. \A S : Flows!Cardinality(S) = Proved!Cardinality(S)
  BY DEF Flows!Cardinality, Proved!Cardinality
<1> QED BY <1>1, <1>4, <1>5, <1>6, <1>7

(* Releasing, timing out and recording.                                    *)
LEMMA SameRelease ==
  /\ \A ids : Flows!ReleaseFlows(ids) => Proved!ReleaseFlows(ids)
  /\ \A now : Flows!TimedOut(now) = Proved!TimedOut(now)
  /\ \A n : Flows!RecordEvents(n) => Proved!RecordEvents(n)
BY SameSums DEF Flows!ReleaseFlows, Proved!ReleaseFlows, Flows!TimedOut, Proved!TimedOut,
   Flows!RecordEvents, Proved!RecordEvents, Flows!Restrict, Proved!Restrict

(* A step of the flows, action by action.                                  *)
LEMMA SameFlowNext == Flows!FlowNext => Proved!FlowNext
<1> SUFFICES ASSUME Flows!FlowNext
             PROVE  Proved!FlowNext
  OBVIOUS
<1> USE DEF Flows!epochVars, Proved!epochVars, Flows!counterVars, Proved!counterVars
<1>1. /\ Flows!FlowIds = Proved!FlowIds /\ Flows!Sequences = Proved!Sequences
      /\ Flows!Epochs = Proved!Epochs /\ Flows!Ticks = Proved!Ticks
  BY DEF Flows!FlowIds, Proved!FlowIds, Flows!Sequences, Proved!Sequences, Flows!Epochs,
     Proved!Epochs, Flows!Ticks, Proved!Ticks
<1>2. ASSUME NEW id
      PROVE  /\ Flows!OpenReliableFlow(id) => Proved!OpenReliableFlow(id)
             /\ Flows!CloseReliableFlow(id) => Proved!CloseReliableFlow(id)
             /\ Flows!ResetReliableFlow(id) => Proved!ResetReliableFlow(id)
  <2>1. Flows!OpenReliableFlow(id) => Proved!OpenReliableFlow(id)
    <3>1. Flows!NewFlow = Proved!NewFlow
      BY DEF Flows!NewFlow, Proved!NewFlow
    <3>2. Flows!RecordEvents(1) => Proved!RecordEvents(1)
      BY SameRelease
    <3> QED BY <3>1, <3>2, SameSums DEF Flows!OpenReliableFlow, Proved!OpenReliableFlow
  <2>2. Flows!CloseReliableFlow(id) => Proved!CloseReliableFlow(id)
    BY DEF Flows!CloseReliableFlow, Proved!CloseReliableFlow, Flows!Restrict, Proved!Restrict
  <2>3. Flows!ResetReliableFlow(id) => Proved!ResetReliableFlow(id)
    BY SameRelease DEF Flows!ResetReliableFlow, Proved!ResetReliableFlow
  <2> QED BY <2>1, <2>2, <2>3
<1>3. ASSUME NEW id, NEW len
      PROVE  /\ Flows!Send(id, len) => Proved!Send(id, len)
             /\ Flows!SendRefused(id, len) => Proved!SendRefused(id, len)
  BY SameRelease DEF Flows!Send, Proved!Send, Flows!SendRefused, Proved!SendRefused,
     Flows!OverBudget, Proved!OverBudget
<1>4. ASSUME NEW id, NEW e, NEW s, Flows!Acknowledge(id, e, s)
      PROVE  Proved!Acknowledge(id, e, s)
  BY <1>4, SameSums DEF Flows!Acknowledge, Proved!Acknowledge, Flows!ValidEpoch,
     Proved!ValidEpoch, Flows!InvalidAcknowledgement, Proved!InvalidAcknowledgement
<1>5. ASSUME NEW id, NEW e, NEW s
      PROVE  /\ Flows!ReceiveDelivered(id, e, s) => Proved!ReceiveDelivered(id, e, s)
             /\ Flows!ReceiveIgnored(id, e, s) => Proved!ReceiveIgnored(id, e, s)
             /\ Flows!FinishReceiving(id, e, s) => Proved!FinishReceiving(id, e, s)
  BY SameRelease DEF Flows!ReceiveDelivered, Proved!ReceiveDelivered, Flows!ReceiveIgnored,
     Proved!ReceiveIgnored, Flows!FinishReceiving, Proved!FinishReceiving, Flows!Receivable,
     Proved!Receivable, Flows!ValidEpoch, Proved!ValidEpoch
<1>6. ASSUME NEW ticks
      PROVE  Flows!AdvanceTime(ticks) => Proved!AdvanceTime(ticks)
  <2>1. PICK now : now = tick'
    OBVIOUS
  <2>2. /\ Flows!TimedOut(tick') = Flows!TimedOut(now)
        /\ Proved!TimedOut(tick') = Flows!TimedOut(now)
    BY <2>1 DEF Flows!TimedOut, Proved!TimedOut
  <2> QED BY <2>2, SameSums, SameRelease DEF Flows!AdvanceTime, Proved!AdvanceTime
<1> QED BY <1>1, <1>2, <1>3, <1>4, <1>5, <1>6 DEF Flows!FlowNext, Proved!FlowNext

(* A behaviour of the flows.                                               *)
LEMMA SameSpec == Flows!Spec => Proved!Spec
<1>1. Flows!Init => Proved!Init
  BY DEF Flows!Init, Proved!Init
<1>2. [Flows!Next]_(Flows!flowVars) => [Proved!Next]_(Proved!flowVars)
  <2>1. UNCHANGED (Flows!flowVars) => UNCHANGED (Proved!flowVars)
    BY DEF Flows!flowVars, Proved!flowVars
  <2>2. \A n \in {0, 1} : Flows!BeginTransition(n) => Proved!BeginTransition(n)
    BY SameRelease DEF Flows!BeginTransition, Proved!BeginTransition, Flows!AdvanceEpoch,
       Proved!AdvanceEpoch, Flows!counterVars, Proved!counterVars
  <2>3. /\ Flows!CompleteTransition => Proved!CompleteTransition
        /\ Flows!RejectTransition => Proved!RejectTransition
    BY SameRelease DEF Flows!CompleteTransition, Proved!CompleteTransition,
       Flows!RejectTransition, Proved!RejectTransition, Flows!counterVars, Proved!counterVars,
       Flows!epochVars, Proved!epochVars
  <2> QED BY <2>1, <2>2, <2>3, SameFlowNext DEF Flows!Next, Proved!Next
<1> QED BY <1>1, <1>2, PTL DEF Flows!Spec, Proved!Spec

(* A session driven by frames, attachments and transitions keeps exact      *)
(* books and sound queues, and its cursors only advance.                    *)
THEOREM SessionKeepsBooks ==
  Spec => /\ [](Proved!AccountingExact /\ Proved!QueuesSound)
          /\ Proved!CursorsOnlyAdvance
<1>1. /\ Proved!Spec => []Proved!AccountingExact
      /\ Proved!Spec => []Proved!QueuesSound
      /\ Proved!Spec => Proved!CursorsOnlyAdvance
  BY ProvedAssumptions, Proved!AccountingCorrect, Proved!QueuesAlwaysSound,
     Proved!CursorsNeverRetreat
<1>2. Spec => Flows!Spec
  BY DispatcherImplementsFlows DEF FlowsSpec
<1> QED BY <1>1, <1>2, SameSpec, PTL
=============================================================================
