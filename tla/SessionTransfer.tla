--------------------------- MODULE SessionTransfer --------------------------
(***************************************************************************)
(* Two sessions exchanging one direction of one reliable flow over         *)
(* carriers that lose, duplicate, delay and reorder: the scenario of       *)
(* crates/velum-session/src/campaign.rs and simulator.rs, with every       *)
(* schedule instead of seeded ones.  Both ends are SessionFlows; each      *)
(* moves between epochs and detaches old carriers on its own, so either    *)
(* may be ahead of the other.                                              *)
(*                                                                         *)
(* The wire is the set of frames ever transmitted: a frame in it may be    *)
(* delivered never, once or repeatedly, at any later time.                 *)
(***************************************************************************)
EXTENDS Naturals, Sequences

CONSTANTS
  None, FlowIdMax, SequenceMax, EpochMax, TickMax,
  MaxFlows, MaxPendingSegments, MaxPendingBytes,
  MaxSessionPendingSegments, MaxSessionPendingBytes,
  MaxPendingAge, MaxEvents, InitialEpoch, Lengths

VARIABLES
  sndCurrent, sndRetiring, sndTick, sndNextFlow, sndSegments, sndBytes,
  sndFlows, sndEvents,
  rcvCurrent, rcvRetiring, rcvTick, rcvNextFlow, rcvSegments, rcvBytes,
  rcvFlows, rcvEvents,
  wire,        \* frames transmitted in either direction
  sent,        \* history: payloads accepted by the sender's send
  delivered,   \* history: payloads of ReceiveResult::Delivered
  confirmed,   \* history: payloads released by acknowledgements
  status       \* history: how the sending side ended

Snd == INSTANCE SessionFlows WITH
  current <- sndCurrent, retiring <- sndRetiring, tick <- sndTick,
  next_flow <- sndNextFlow, pending_segments <- sndSegments,
  pending_bytes <- sndBytes, flows <- sndFlows, events <- sndEvents
Rcv == INSTANCE SessionFlows WITH
  current <- rcvCurrent, retiring <- rcvRetiring, tick <- rcvTick,
  next_flow <- rcvNextFlow, pending_segments <- rcvSegments,
  pending_bytes <- rcvBytes, flows <- rcvFlows, events <- rcvEvents

(* The assertions of SessionTracer::new, which both ends pass. *)
ASSUME TransferAssumption == Snd!CountersAssumption /\ Snd!LimitsAssumption

sndVars == <<sndCurrent, sndRetiring, sndTick, sndNextFlow, sndSegments,
             sndBytes, sndFlows, sndEvents>>
rcvVars == <<rcvCurrent, rcvRetiring, rcvTick, rcvNextFlow, rcvSegments,
             rcvBytes, rcvFlows, rcvEvents>>
users == <<sent, delivered, confirmed, status>>
vars == <<sndVars, rcvVars, wire, users>>

Flow == 0      \* the flow both ends opened first

Data(epoch, sequence, len) ==
  [kind |-> "data", epoch |-> epoch, sequence |-> sequence, len |-> len]
Ack(epoch, through) == [kind |-> "ack", epoch |-> epoch, through |-> through]
Finish(epoch, final) == [kind |-> "finish", epoch |-> epoch, final |-> final]

Frames(kind) == {f \in wire : f.kind = kind}

SenderOpen   == Flow \in DOMAIN sndFlows
ReceiverOpen == Flow \in DOMAIN rcvFlows

(* Both ends have just opened flow 0, which recorded one event. *)
Opened(c, r, t, n, s, b, f, e) ==
  /\ c = InitialEpoch /\ r = None /\ t = 0 /\ n = 1 /\ s = 0 /\ b = 0
  /\ f = [id \in {Flow} |-> Snd!NewFlow]
  /\ e = 1

Init ==
  /\ Opened(sndCurrent, sndRetiring, sndTick, sndNextFlow, sndSegments,
            sndBytes, sndFlows, sndEvents)
  /\ Opened(rcvCurrent, rcvRetiring, rcvTick, rcvNextFlow, rcvSegments,
            rcvBytes, rcvFlows, rcvEvents)
  /\ wire = {} /\ sent = <<>> /\ delivered = <<>>
  /\ confirmed = 0 /\ status = "open"

-----------------------------------------------------------------------------
(* The sending user hands over a payload and it is transmitted once.  A    *)
(* sender that announced the end of its stream sends no more.              *)
SenderSend(len) ==
  /\ Frames("finish") = {}
  /\ Snd!Send(Flow, len)
  /\ wire' = wire \cup {Data(sndCurrent, sndFlows[Flow].next_send, len)}
  /\ sent' = Append(sent, len)
  /\ UNCHANGED <<rcvVars, delivered, confirmed, status>>

(* Mutant: reissued segments keep the epoch of their first transmission. *)
ResumedInOldEpoch ==
  {Data(sndFlows[Flow].pending[i].epoch, sndFlows[Flow].pending[i].sequence,
        sndFlows[Flow].pending[i].len) : i \in 1 .. Len(sndFlows[Flow].pending)}

(* resume_unacknowledged: what is retained, restamped with the current     *)
(* epoch under its original sequence.                                      *)
Resumed ==
  {Data(sndCurrent, sndFlows[Flow].pending[i].sequence,
        sndFlows[Flow].pending[i].len) : i \in 1 .. Len(sndFlows[Flow].pending)}

SenderResume ==
  /\ SenderOpen
  /\ wire' = wire \cup Resumed
  /\ UNCHANGED <<sndVars, rcvVars, users>>

SenderFinish ==
  /\ SenderOpen
  /\ \A f \in Frames("finish") : f.final = sndFlows[Flow].next_send
  /\ wire' = wire \cup {Finish(sndCurrent, sndFlows[Flow].next_send)}
  /\ UNCHANGED <<sndVars, rcvVars, users>>

SenderAcknowledged(ack) ==
  /\ ack \in Frames("ack")
  /\ Snd!Acknowledge(Flow, ack.epoch, ack.through)
  /\ confirmed' = sndFlows[Flow].next_send - Len(sndFlows'[Flow].pending)
  /\ UNCHANGED <<rcvVars, wire, sent, delivered, status>>

SenderClose ==
  /\ Snd!CloseReliableFlow(Flow)
  /\ status' = "closed"
  /\ UNCHANGED <<rcvVars, wire, sent, delivered, confirmed>>

(* The flow is reset, or its oldest segment outlived max_pending_age.      *)
SenderReset ==
  /\ Snd!ResetReliableFlow(Flow)
  /\ status' = "failed"
  /\ UNCHANGED <<rcvVars, wire, sent, delivered, confirmed>>

SenderAdvanceTime(ticks) ==
  /\ Snd!AdvanceTime(ticks)
  /\ status' = IF SenderOpen /\ Flow \notin DOMAIN sndFlows' THEN "failed" ELSE status
  /\ UNCHANGED <<rcvVars, wire, sent, delivered, confirmed>>

SenderTransition ==
  /\ Snd!BeginTransition(0) \/ (sndRetiring # None /\ Snd!CompleteTransition)
  /\ UNCHANGED <<rcvVars, wire, users>>

-----------------------------------------------------------------------------
ReceiverDeliver(data) ==
  /\ data \in Frames("data")
  /\ Rcv!ReceiveDelivered(Flow, data.epoch, data.sequence)
  /\ delivered' = Append(delivered, data.len)
  /\ UNCHANGED <<sndVars, wire, sent, confirmed, status>>

ReceiverIgnore(data) ==
  /\ data \in Frames("data")
  /\ Rcv!ReceiveIgnored(Flow, data.epoch, data.sequence)
  /\ UNCHANGED <<sndVars, wire, users>>

ReceiverFinish(finish) ==
  /\ finish \in Frames("finish")
  /\ Rcv!FinishReceiving(Flow, finish.epoch, finish.final)
  /\ UNCHANGED <<sndVars, wire, users>>

(* Mutant: the acknowledgement is sent in the epoch that is ending. *)
ReceiverAcknowledgeRetiring ==
  /\ ReceiverOpen
  /\ rcvFlows[Flow].next_receive > 0
  /\ wire' = wire \cup {Ack(IF rcvRetiring = None THEN rcvCurrent ELSE rcvRetiring,
                            rcvFlows[Flow].next_receive - 1)}
  /\ UNCHANGED <<sndVars, rcvVars, users>>

(* The receiver acknowledges everything below its cursor, in its epoch.    *)
ReceiverAcknowledge ==
  /\ ReceiverOpen
  /\ rcvFlows[Flow].next_receive > 0
  /\ wire' = wire \cup {Ack(rcvCurrent, rcvFlows[Flow].next_receive - 1)}
  /\ UNCHANGED <<sndVars, rcvVars, users>>

ReceiverTransition ==
  /\ Rcv!BeginTransition(0) \/ (rcvRetiring # None /\ Rcv!CompleteTransition)
  /\ UNCHANGED <<sndVars, wire, users>>

Next ==
  \/ \E len \in Lengths : SenderSend(len)
  \/ SenderResume
  \/ SenderFinish
  \/ \E a \in Frames("ack") : SenderAcknowledged(a)
  \/ SenderClose
  \/ SenderReset
  \/ \E ticks \in 1 .. TickMax : SenderAdvanceTime(ticks)
  \/ SenderTransition
  \/ \E d \in Frames("data") : ReceiverDeliver(d)
  \/ \E d \in Frames("data") : ReceiverIgnore(d)
  \/ \E f \in Frames("finish") : ReceiverFinish(f)
  \/ ReceiverAcknowledge
  \/ ReceiverTransition

Spec == Init /\ [][Next]_vars

(* Nothing obliges a user to send, time to pass or a transition to start.  *)
(* The owner of a session does reissue, acknowledge and finish the         *)
(* transitions it began, the receiving end follows the sender's epoch when *)
(* the replacement carrier attaches, and a carrier that keeps being used   *)
(* eventually gets a frame through.                                        *)
Fairness ==
  /\ WF_vars(SenderResume)
  /\ WF_vars(ReceiverAcknowledge)
  /\ WF_vars(\E d \in Frames("data") : ReceiverDeliver(d))
  /\ WF_vars(\E a \in Frames("ack") : SenderAcknowledged(a))
  /\ WF_vars(sndRetiring # None /\ SenderTransition)
  /\ WF_vars(rcvRetiring # None /\ ReceiverTransition)
  /\ WF_vars(rcvCurrent < sndCurrent /\ ReceiverTransition)
  /\ WF_vars(sndCurrent < rcvCurrent /\ SenderTransition)

FairSpec == Spec /\ Fairness

-----------------------------------------------------------------------------
Channel == INSTANCE ReliableChannel WITH Payloads <- Lengths

(* What the receiver got is always a prefix of what was sent, confirmed    *)
(* payloads were delivered and an orderly close means all were: the two    *)
(* sessions implement the abstract channel whatever the carriers and the   *)
(* transitions do.                                                         *)
ChannelSpec == Channel!Spec

(* An acknowledgement of a correct receiver is never taken for an invalid  *)
(* one: it may be too old to matter, but is no FLOW_STATE error.           *)
HonestAckAccepted ==
  SenderOpen =>
    \A a \in Frames("ack") :
      Snd!ValidEpoch(a.epoch) => ~Snd!InvalidAcknowledgement(Flow, a.epoch, a.through)

(* The sender drains: once it stops sending, everything it retains is      *)
(* eventually acknowledged, unless it timed the flow out.                  *)
EventuallyDrained ==
  <>[](SenderOpen => sndFlows[Flow].pending = <<>>)
=============================================================================
