---------------------------- MODULE SessionFlows ----------------------------
(***************************************************************************)
(* The reliable flows and the epoch window of one logical session: the     *)
(* part of velum_session::SessionTracer (crates/velum-session/src/lib.rs)  *)
(* that owns delivery cursors, the retransmission queue of every flow, its *)
(* budgets and lifetimes, together with TransitionState (transition.rs).   *)
(* Carrier attachments are added by module SessionTracer.                  *)
(*                                                                         *)
(* A payload is represented by its length.  The event log is represented   *)
(* by the number of entries it retains.  Calls that return an error and    *)
(* change nothing are stuttering steps; an error that records an event is  *)
(* an action.  A counter whose overflow panics (`checked_add().expect`) is *)
(* bounded by the largest value of its type: the code uses u64 for all of  *)
(* FlowIdMax, SequenceMax, EpochMax and TickMax.                           *)
(***************************************************************************)
EXTENDS Naturals, Sequences, FiniteSets, Functions, Totals

CONSTANTS
  None,                     \* Option::None
  FlowIdMax, SequenceMax, EpochMax, TickMax,      \* u64::MAX
  MaxFlows, MaxPendingSegments, MaxPendingBytes,  \* FlowLimits
  MaxSessionPendingSegments, MaxSessionPendingBytes,
  MaxPendingAge, MaxEvents,
  InitialEpoch,             \* the epoch SessionTracer::new is given
  Lengths                   \* payload lengths callers pass to send

ASSUME CountersAssumption ==
  /\ FlowIdMax \in Nat /\ SequenceMax \in Nat
  /\ EpochMax \in Nat /\ TickMax \in Nat
  /\ InitialEpoch \in 0 .. EpochMax
  /\ Lengths \subseteq Nat
  /\ None \notin Nat

\* The assertions of SessionTracer::new.
ASSUME LimitsAssumption ==
  /\ MaxFlows \in Nat \ {0}
  /\ MaxPendingSegments \in Nat \ {0} /\ MaxPendingBytes \in Nat \ {0}
  /\ MaxSessionPendingSegments \in Nat \ {0}
  /\ MaxSessionPendingBytes \in Nat \ {0}
  /\ MaxPendingAge \in Nat \ {0} /\ MaxEvents \in Nat \ {0}

VARIABLES
  current,           \* TransitionState.current
  retiring,          \* TransitionState.retiring
  tick,              \* deterministic session time
  next_flow,         \* least flow id never used
  pending_segments,  \* session-wide count of unacknowledged segments
  pending_bytes,     \* session-wide count of unacknowledged bytes
  flows,             \* BTreeMap<FlowId, ReliableFlow>
  events             \* number of retained SessionEvents

epochVars   == <<current, retiring>>
counterVars == <<pending_segments, pending_bytes>>
flowVars    == <<current, retiring, tick, next_flow, pending_segments,
                 pending_bytes, flows, events>>

FlowIds   == 0 .. FlowIdMax
Sequences == 0 .. SequenceMax
Epochs    == 0 .. EpochMax
Ticks     == 0 .. TickMax

PendingSegment == [sequence: Sequences, epoch: Epochs, len: Lengths,
                   expires_at: Ticks]

ReliableFlow == [next_send: Sequences, next_receive: Sequences,
                 receive_final_next: Sequences \cup {None},
                 pending: Seq(PendingSegment), pending_bytes: Nat]

NewFlow == [next_send |-> 0, next_receive |-> 0,
            receive_final_next |-> None, pending |-> <<>>,
            pending_bytes |-> 0]

(* Bytes held by a retransmission queue. *)
Bytes(queue) == Total([i \in 1 .. Len(queue) |-> queue[i].len], Len(queue))

(* record_event, n times: the oldest entry is dropped when the log is full. *)
RecordEvents(n) ==
  events' = IF events + n > MaxEvents THEN MaxEvents ELSE events + n

(* Mutant: every epoch up to the current one is accepted. *)
ValidEpochNotFuture(epoch) == epoch <= current

(* The epoch of a frame is accepted by require_valid_epoch. *)
ValidEpoch(epoch) == epoch = current \/ epoch = retiring

-----------------------------------------------------------------------------
Init ==
  /\ current = InitialEpoch
  /\ retiring = None
  /\ tick = 0
  /\ next_flow = 0
  /\ pending_segments = 0
  /\ pending_bytes = 0
  /\ flows = <<>>
  /\ events = 0

(* open_reliable_flow_with_id; open_reliable_flow passes id = next_flow. *)
OpenReliableFlow(id) ==
  /\ Cardinality(DOMAIN flows) < MaxFlows
  /\ id >= next_flow
  /\ id # FlowIdMax
  /\ next_flow' = id + 1
  /\ flows' = [f \in DOMAIN flows \cup {id} |->
                 IF f = id THEN NewFlow ELSE flows[f]]
  /\ RecordEvents(1)
  /\ UNCHANGED <<epochVars, tick, counterVars>>

CloseReliableFlow(id) ==
  /\ id \in DOMAIN flows
  /\ flows[id].pending = <<>>
  /\ flows' = Restrict(flows, DOMAIN flows \ {id})
  /\ UNCHANGED <<epochVars, tick, next_flow, counterVars, events>>

(* Mutant: the session-wide byte budget is not consulted. *)
OverBudgetWithoutSessionBytes(id, len) ==
  \/ pending_segments >= MaxSessionPendingSegments
  \/ Len(flows[id].pending) = MaxPendingSegments
  \/ flows[id].pending_bytes + len > MaxPendingBytes

(* One of the four budgets checked by send is exhausted; saturating_sub makes *)
(* the remaining budget zero when a counter has passed its limit.          *)
OverBudget(id, len) ==
  \/ pending_segments >= MaxSessionPendingSegments
  \/ pending_bytes + len > MaxSessionPendingBytes
  \/ Len(flows[id].pending) = MaxPendingSegments
  \/ flows[id].pending_bytes + len > MaxPendingBytes

Send(id, len) ==
  /\ id \in DOMAIN flows
  /\ ~OverBudget(id, len)
  /\ flows[id].next_send < SequenceMax
  /\ tick + MaxPendingAge <= TickMax
  /\ LET segment == [sequence |-> flows[id].next_send, epoch |-> current,
                     len |-> len, expires_at |-> tick + MaxPendingAge]
     IN  flows' = [flows EXCEPT ![id].next_send = @ + 1,
                                ![id].pending = Append(@, segment),
                                ![id].pending_bytes = @ + len]
  /\ pending_segments' = pending_segments + 1
  /\ pending_bytes' = pending_bytes + len
  /\ UNCHANGED <<epochVars, tick, next_flow, events>>

SendRefused(id, len) ==
  /\ id \in DOMAIN flows
  /\ OverBudget(id, len)
  /\ RecordEvents(1)
  /\ UNCHANGED <<epochVars, tick, next_flow, counterVars, flows>>

-----------------------------------------------------------------------------
(* Mutant: acknowledged segments must be of the acknowledgement's own epoch. *)
InvalidAcknowledgementSameEpoch(id, epoch, through) ==
  \/ through >= flows[id].next_send
  \/ \E i \in 1 .. Len(flows[id].pending) :
       /\ flows[id].pending[i].sequence <= through
       /\ flows[id].pending[i].epoch # epoch

(* A cumulative acknowledgement is refused when it covers a segment never  *)
(* sent, or one first sent in a later epoch than the acknowledgement's.    *)
InvalidAcknowledgement(id, epoch, through) ==
  \/ through >= flows[id].next_send
  \/ \E i \in 1 .. Len(flows[id].pending) :
       /\ flows[id].pending[i].sequence <= through
       /\ flows[id].pending[i].epoch > epoch

(* Mutant: entries are taken off the back of the queue. *)
AcknowledgeFromTheBack(id, epoch, through) ==
  /\ ValidEpoch(epoch)
  /\ id \in DOMAIN flows
  /\ ~InvalidAcknowledgement(id, epoch, through)
  /\ LET queue == flows[id].pending
         n     == Cardinality({i \in 1 .. Len(queue) : queue[i].sequence <= through})
         keep  == SubSeq(queue, 1, Len(queue) - n)
         bytes == Bytes(queue) - Bytes(keep)
     IN  /\ flows' = [flows EXCEPT ![id].pending = keep,
                                   ![id].pending_bytes = @ - bytes]
         /\ pending_segments' = pending_segments - n
         /\ pending_bytes' = pending_bytes - bytes
  /\ UNCHANGED <<epochVars, tick, next_flow, events>>

(* The number of entries the pop loop of acknowledge takes off the front.  *)
Released(queue, through) ==
  CHOOSE n \in 0 .. Len(queue) :
    /\ \A i \in 1 .. n : queue[i].sequence <= through
    /\ n < Len(queue) => queue[n + 1].sequence > through

Acknowledge(id, epoch, through) ==
  /\ ValidEpoch(epoch)
  /\ id \in DOMAIN flows
  /\ ~InvalidAcknowledgement(id, epoch, through)
  /\ LET queue == flows[id].pending
         n     == Released(queue, through)
         bytes == Bytes(SubSeq(queue, 1, n))
     IN  /\ flows' = [flows EXCEPT ![id].pending = SubSeq(queue, n + 1, Len(queue)),
                                   ![id].pending_bytes = @ - bytes]
         /\ pending_segments' = pending_segments - n
         /\ pending_bytes' = pending_bytes - bytes
  /\ UNCHANGED <<epochVars, tick, next_flow, events>>

(* The guards of receive before the cursor is consulted.                   *)
Receivable(id, epoch, sequence) ==
  /\ ValidEpoch(epoch)
  /\ id \in DOMAIN flows
  /\ flows[id].receive_final_next # None
       => sequence < flows[id].receive_final_next

(* Mutant: anything from the cursor on is delivered, gaps included. *)
ReceiveDeliveredPastGap(id, epoch, sequence) ==
  /\ Receivable(id, epoch, sequence)
  /\ sequence >= flows[id].next_receive
  /\ sequence < SequenceMax
  /\ flows' = [flows EXCEPT ![id].next_receive = sequence + 1]
  /\ UNCHANGED <<epochVars, tick, next_flow, counterVars, events>>

(* ReceiveResult::Delivered *)
ReceiveDelivered(id, epoch, sequence) ==
  /\ Receivable(id, epoch, sequence)
  /\ sequence = flows[id].next_receive
  /\ sequence < SequenceMax
  /\ flows' = [flows EXCEPT ![id].next_receive = @ + 1]
  /\ UNCHANGED <<epochVars, tick, next_flow, counterVars, events>>

(* ReceiveResult::Duplicate and ReceiveResult::OutOfOrder                  *)
ReceiveIgnored(id, epoch, sequence) ==
  /\ Receivable(id, epoch, sequence)
  /\ sequence # flows[id].next_receive
  /\ RecordEvents(1)
  /\ UNCHANGED <<epochVars, tick, next_flow, counterVars, flows>>

(* Mutant: a second announcement overwrites the first. *)
FinishReceivingAgain(id, epoch, final_next) ==
  /\ ValidEpoch(epoch)
  /\ id \in DOMAIN flows
  /\ final_next >= flows[id].next_receive
  /\ flows' = [flows EXCEPT ![id].receive_final_next = final_next]
  /\ UNCHANGED <<epochVars, tick, next_flow, counterVars, events>>

FinishReceiving(id, epoch, final_next) ==
  /\ ValidEpoch(epoch)
  /\ id \in DOMAIN flows
  /\ final_next >= flows[id].next_receive
  /\ flows[id].receive_final_next = None
  /\ flows' = [flows EXCEPT ![id].receive_final_next = final_next]
  /\ UNCHANGED <<epochVars, tick, next_flow, counterVars, events>>

-----------------------------------------------------------------------------
(* Sums over the flows in ids of the lengths and bytes of their queues.    *)
SegmentsOf(ids) ==
  Total([k \in 1 .. next_flow |->
           IF k - 1 \in ids THEN Len(flows[k - 1].pending) ELSE 0], next_flow)
BytesOf(ids) ==
  Total([k \in 1 .. next_flow |->
           IF k - 1 \in ids THEN flows[k - 1].pending_bytes ELSE 0], next_flow)

(* Mutant: the byte counter is not given back. *)
ReleaseFlowsKeepingBytes(ids) ==
  /\ flows' = Restrict(flows, DOMAIN flows \ ids)
  /\ pending_segments' = pending_segments - SegmentsOf(ids)
  /\ UNCHANGED pending_bytes

(* Mutant: the segment counter is given back twice. *)
ReleaseFlowsTwice(ids) ==
  /\ flows' = Restrict(flows, DOMAIN flows \ ids)
  /\ pending_segments' = pending_segments - 2 * SegmentsOf(ids)
  /\ pending_bytes' = pending_bytes - BytesOf(ids)

(* Removes flows and gives back what they held. *)
ReleaseFlows(ids) ==
  /\ flows' = Restrict(flows, DOMAIN flows \ ids)
  /\ pending_segments' = pending_segments - SegmentsOf(ids)
  /\ pending_bytes' = pending_bytes - BytesOf(ids)

ResetReliableFlow(id) ==
  /\ id \in DOMAIN flows
  /\ ReleaseFlows({id})
  /\ UNCHANGED <<epochVars, tick, next_flow, events>>

(* Mutant: a segment may outlive its lifetime by one tick. *)
TimedOutLate(now) ==
  {id \in DOMAIN flows : /\ flows[id].pending # <<>>
                         /\ Head(flows[id].pending).expires_at < now}

(* advance_time looks only at the front of each queue.                     *)
TimedOut(now) ==
  {id \in DOMAIN flows : /\ flows[id].pending # <<>>
                         /\ Head(flows[id].pending).expires_at <= now}

AdvanceTime(ticks) ==
  /\ tick + ticks <= TickMax
  /\ tick' = tick + ticks
  /\ ReleaseFlows(TimedOut(tick'))
  /\ RecordEvents(Cardinality(TimedOut(tick')))
  /\ UNCHANGED <<epochVars, next_flow>>

(* TransitionState::advance, called by begin_transition.                   *)
AdvanceEpoch ==
  /\ retiring = None
  /\ current < EpochMax
  /\ retiring' = current
  /\ current' = current + 1

(* begin_transition, and begin_explained_transition, which also records    *)
(* one event.                                                              *)
BeginTransition(n) ==
  /\ AdvanceEpoch
  /\ RecordEvents(n)
  /\ UNCHANGED <<tick, next_flow, counterVars, flows>>

(* complete_transition, also when no transition is in progress.            *)
CompleteTransition ==
  /\ retiring' = None
  /\ RecordEvents(1)
  /\ UNCHANGED <<current, tick, next_flow, counterVars, flows>>

(* A transition or an attachment was rejected: negotiate_transition_version *)
(* without a shared version, and reject_attachment, only record it.        *)
RejectTransition ==
  /\ RecordEvents(1)
  /\ UNCHANGED <<epochVars, tick, next_flow, counterVars, flows>>

(* The calls that only touch flows. *)
FlowNext ==
  \/ \E id \in FlowIds : OpenReliableFlow(id)
  \/ \E id \in FlowIds : CloseReliableFlow(id)
  \/ \E id \in FlowIds, len \in Lengths : Send(id, len)
  \/ \E id \in FlowIds, len \in Lengths : SendRefused(id, len)
  \/ \E id \in FlowIds, e \in Epochs, s \in Sequences : Acknowledge(id, e, s)
  \/ \E id \in FlowIds, e \in Epochs, s \in Sequences : ReceiveDelivered(id, e, s)
  \/ \E id \in FlowIds, e \in Epochs, s \in Sequences : ReceiveIgnored(id, e, s)
  \/ \E id \in FlowIds, e \in Epochs, s \in Sequences : FinishReceiving(id, e, s)
  \/ \E id \in FlowIds : ResetReliableFlow(id)
  \/ \E ticks \in Ticks : AdvanceTime(ticks)

Next ==
  \/ FlowNext
  \/ \E n \in {0, 1} : BeginTransition(n)
  \/ CompleteTransition
  \/ RejectTransition

Spec == Init /\ [][Next]_flowVars

-----------------------------------------------------------------------------
(* The state has the shape of the Rust structs, and the bounded event log  *)
(* never outgrows max_events.                                              *)
TypeOK ==
  /\ current \in Epochs
  /\ retiring \in Epochs \cup {None}
  /\ tick \in Ticks
  /\ next_flow \in FlowIds
  /\ pending_segments \in Nat
  /\ pending_bytes \in Nat
  /\ DOMAIN flows \subseteq 0 .. (next_flow - 1)
  /\ flows \in [DOMAIN flows -> ReliableFlow]
  /\ events \in 0 .. MaxEvents

(* The cached counters equal what the queues really hold after any mix of  *)
(* send, acknowledge, reset, close and timeout: the checked_sub calls with *)
(* `expect("session pending ... accounting")` can never panic, and no      *)
(* budget leaks when a flow disappears.                                    *)
AccountingExact ==
  /\ \A id \in DOMAIN flows : flows[id].pending_bytes = Bytes(flows[id].pending)
  /\ pending_segments = SegmentsOf(DOMAIN flows)
  /\ pending_bytes = BytesOf(DOMAIN flows)

(* Retained data stays within every limit of FlowLimits at all times.      *)
WithinBudget ==
  /\ Cardinality(DOMAIN flows) <= MaxFlows
  /\ pending_segments <= MaxSessionPendingSegments
  /\ pending_bytes <= MaxSessionPendingBytes
  /\ \A id \in DOMAIN flows :
       /\ Len(flows[id].pending) <= MaxPendingSegments
       /\ flows[id].pending_bytes <= MaxPendingBytes

(* A queue is the gap-free window of sequences that ends just before       *)
(* next_send; first-send epochs never decrease along it and none is ahead  *)
(* of the session.  acknowledge's pop loop and its epoch check rely on it. *)
PendingWindow ==
  \A id \in DOMAIN flows :
    LET queue == flows[id].pending
    IN  \A i \in 1 .. Len(queue) :
          /\ queue[i].sequence + Len(queue) + 1 = flows[id].next_send + i
          /\ queue[i].epoch <= current
          /\ \A j \in i .. Len(queue) : /\ queue[i].epoch <= queue[j].epoch
                                        /\ queue[i].expires_at <= queue[j].expires_at

(* advance_time inspects only the oldest segment of a flow; nevertheless   *)
(* no surviving flow keeps any segment past its lifetime.                  *)
NothingOverdue ==
  \A id \in DOMAIN flows :
    \A i \in 1 .. Len(flows[id].pending) : flows[id].pending[i].expires_at > tick

(* Whatever transitions happened since a segment was first sent, a         *)
(* cumulative acknowledgement in the current epoch for anything sent is    *)
(* accepted, so a resumed flow can always be drained.                      *)
ResumedFlowCanDrain ==
  \A id \in DOMAIN flows :
    flows[id].next_send > 0
      => ~InvalidAcknowledgement(id, current, flows[id].next_send - 1)

(* What a flow retains is within every budget, is the window the cumulative*)
(* acknowledgement expects, is not overdue and can always be drained.      *)
QueuesSound == WithinBudget /\ PendingWindow /\ NothingOverdue /\ ResumedFlowCanDrain

(* While a flow lives its cursors only advance, what was acknowledged is   *)
(* never queued again, and an announced final cursor is neither passed nor *)
(* replaced.  An identifier that was given up never names a flow again, so *)
(* a late frame of a closed, reset or timed-out flow finds nothing.        *)
CursorsOnlyAdvance ==
  [][/\ \A id \in 0 .. next_flow - 1 : id \notin DOMAIN flows => id \notin DOMAIN flows'
     /\ \A id \in DOMAIN flows \cap DOMAIN flows' :
          LET old == flows[id]
              new == flows'[id]
          IN  /\ new.next_send >= old.next_send
              /\ new.next_receive >= old.next_receive
              /\ new.next_send - Len(new.pending) >= old.next_send - Len(old.pending)
              /\ old.receive_final_next # None
                   => /\ new.receive_final_next = old.receive_final_next
                      /\ new.next_receive <= old.receive_final_next]_flowVars
=============================================================================
