----------------------- MODULE SessionTransferProofs ------------------------
(***************************************************************************)
(* Proofs about module SessionTransfer: the two ends of a reliable flow    *)
(* implement ReliableChannel over any wire.  TransferInv says what every   *)
(* frame ever transmitted, however late it arrives, tells the truth about. *)
(* Its centre is EpochsCovered: a segment that the sender still holds was  *)
(* first sent in an epoch no later than that of any frame that carried it, *)
(* of the receiver once it has it, and of any acknowledgement that covers  *)
(* it.                                                                     *)
(*                                                                         *)
(* And about module Wire: what the peers negotiate and what they read of   *)
(* each other's records.  The reader of the code, which takes slices from  *)
(* a moving offset, is shown to be one that reads at fixed offsets; what   *)
(* it returns, written out again, is all the bytes there were.  So it is   *)
(* of the two decoders, however a stream is cut: StreamInv says that what  *)
(* they delivered and what they hold back are all the bytes they were      *)
(* given.                                                                  *)
(***************************************************************************)
EXTENDS SessionTransfer, Wire, SequenceTheorems, WellFoundedInduction, TLAPS

Queue == sndFlows[Flow].pending
Cursor == rcvFlows[Flow].next_receive

Segment == [sequence : Nat, epoch : Nat, len : Lengths, expires_at : Nat]

FlowFields == {"next_send", "next_receive", "receive_final_next", "pending", "pending_bytes"}

(* The epochs of both ends, and the histories.                             *)
EndsTyped ==
  /\ sndCurrent \in Nat /\ sndTick \in Nat
  /\ rcvCurrent \in Nat /\ rcvRetiring \in Nat \cup {None}
  /\ rcvRetiring # None => rcvRetiring <= rcvCurrent
  /\ sent \in Seq(Lengths) /\ delivered \in Seq(Lengths)

(* The sender's flow is open until it is closed or fails; its queue is the *)
(* end of what was sent, and what left the queue is confirmed.             *)
SenderSound ==
  /\ status \in {"open", "closed", "failed"}
  /\ SenderOpen <=> status = "open"
  /\ SenderOpen =>
       /\ DOMAIN sndFlows[Flow] = FlowFields
       /\ Queue \in Seq(Segment)
       /\ sndFlows[Flow].next_send = Len(sent)
       /\ confirmed + Len(Queue) = Len(sent)
       /\ \A i \in 1 .. Len(Queue) :
            /\ Queue[i].sequence = confirmed + i - 1
            /\ Queue[i].len = sent[Queue[i].sequence + 1]
            /\ Queue[i].epoch <= sndCurrent
  /\ confirmed \in Nat /\ confirmed <= Len(delivered)

(* The receiver has a prefix of what was sent.                             *)
ReceiverSound ==
  /\ ReceiverOpen
  /\ DOMAIN rcvFlows[Flow] = FlowFields
  /\ Cursor = Len(delivered)
  /\ Len(delivered) <= Len(sent)
  /\ \A i \in 1 .. Len(delivered) : delivered[i] = sent[i]

(* Every data frame repeats what was sent under its sequence, and every    *)
(* acknowledgement is of something delivered.                              *)
WireSound ==
  /\ \A d \in Frames("data") :
       /\ d.epoch \in Nat /\ d.sequence \in Nat /\ d.sequence < Len(sent)
       /\ d.len = sent[d.sequence + 1]
  /\ \A a \in Frames("ack") :
       a.epoch \in Nat /\ a.through \in Nat /\ a.through < Len(delivered)

(* First-send epochs of what is retained.                                  *)
EpochsCovered ==
  SenderOpen =>
    \A i \in 1 .. Len(Queue) :
      /\ \A d \in Frames("data") :
           d.sequence = Queue[i].sequence => Queue[i].epoch <= d.epoch
      /\ Queue[i].sequence < Len(delivered) => Queue[i].epoch <= rcvCurrent
      /\ \A a \in Frames("ack") :
           Queue[i].sequence <= a.through => Queue[i].epoch <= a.epoch

TransferInv == EndsTyped /\ SenderSound /\ ReceiverSound /\ WireSound /\ EpochsCovered

-----------------------------------------------------------------------------
(* What the proofs use of the constants.                                   *)
LEMMA ConstantsTyped ==
  /\ None \notin Nat /\ InitialEpoch \in Nat /\ Lengths \subseteq Nat
  /\ MaxPendingAge \in Nat /\ TickMax \in Nat
BY TransferAssumption DEF Snd!CountersAssumption, Snd!LimitsAssumption

(* The frames on a wire after some are added, by kind.                     *)
LEMMA FramesAdded ==
  ASSUME NEW F, wire' = wire \cup F
  PROVE  /\ Frames("data")' = Frames("data") \cup {f \in F : f.kind = "data"}
         /\ Frames("ack")' = Frames("ack") \cup {f \in F : f.kind = "ack"}
BY DEF Frames

(* The fields of frames. *)
LEMMA FrameFields ==
  ASSUME NEW e, NEW x, NEW y
  PROVE  /\ Data(e, x, y).kind = "data" /\ Data(e, x, y).epoch = e
         /\ Data(e, x, y).sequence = x /\ Data(e, x, y).len = y
         /\ Ack(e, x).kind = "ack" /\ Ack(e, x).epoch = e /\ Ack(e, x).through = x
         /\ Finish(e, x).kind = "finish"
BY DEF Data, Ack, Finish

(* Both ends have opened their flow and nothing was sent.                  *)
LEMMA TransferInitial == Init => TransferInv /\ Channel!Init
<1> SUFFICES ASSUME Init PROVE TransferInv /\ Channel!Init
  OBVIOUS
<1>1. /\ sndFlows = [id \in {Flow} |-> Snd!NewFlow] /\ rcvFlows = [id \in {Flow} |-> Snd!NewFlow]
      /\ sndCurrent = InitialEpoch /\ rcvCurrent = InitialEpoch /\ rcvRetiring = None
      /\ sndTick = 0 /\ wire = {} /\ sent = << >> /\ delivered = << >>
      /\ confirmed = 0 /\ status = "open"
  BY DEF Init, Opened
<1>2. /\ << >> \in Seq(Lengths) /\ << >> \in Seq(Segment) /\ Len(<< >>) = 0
  OBVIOUS
<1>3. /\ SenderOpen /\ ReceiverOpen
      /\ sndFlows[Flow] = Snd!NewFlow /\ rcvFlows[Flow] = Snd!NewFlow
  BY <1>1 DEF SenderOpen, ReceiverOpen
<1>4. /\ DOMAIN Snd!NewFlow = FlowFields
      /\ Snd!NewFlow.pending = << >> /\ Snd!NewFlow.next_send = 0 /\ Snd!NewFlow.next_receive = 0
  BY DEF Snd!NewFlow, FlowFields
<1>5. EndsTyped
  BY <1>1, <1>2, ConstantsTyped DEF EndsTyped
<1>6. Queue = << >> /\ Cursor = 0
  BY <1>3, <1>4 DEF Queue, Cursor
<1>7. SenderSound
  BY <1>1, <1>2, <1>3, <1>4, <1>6 DEF SenderSound
<1>8. ReceiverSound
  BY <1>1, <1>2, <1>3, <1>4, <1>6 DEF ReceiverSound
<1>9. WireSound /\ EpochsCovered
  BY <1>1, <1>2, <1>6 DEF WireSound, EpochsCovered, Frames
<1>10. Channel!Init
  BY <1>1 DEF Channel!Init
<1> QED BY <1>5, <1>7, <1>8, <1>9, <1>10 DEF TransferInv

-----------------------------------------------------------------------------
(* What the steps use of the queue and of the histories.                   *)
LEMMA TransferTyped ==
  ASSUME TransferInv
  PROVE  /\ Len(sent) \in Nat /\ Len(delivered) \in Nat /\ confirmed \in Nat
         /\ sndCurrent \in Nat /\ rcvCurrent \in Nat
         /\ SenderOpen => /\ Queue \in Seq(Segment) /\ Len(Queue) \in Nat
                          /\ \A i \in 1 .. Len(Queue) :
                               /\ Queue[i] \in Segment
                               /\ Queue[i].sequence \in Nat /\ Queue[i].epoch \in Nat
<1>1. /\ sent \in Seq(Lengths) /\ delivered \in Seq(Lengths) /\ confirmed \in Nat
      /\ sndCurrent \in Nat /\ rcvCurrent \in Nat
      /\ SenderOpen => Queue \in Seq(Segment)
  BY DEF TransferInv, EndsTyped, SenderSound
<1>2. SenderOpen => \A i \in 1 .. Len(Queue) : Queue[i] \in Segment
  BY <1>1
<1> QED BY <1>1, <1>2 DEF Segment

(* Steps that leave the sender's queue, the receiver's cursor, the wire    *)
(* and the histories alone: epochs move forward, time passes, a frame is   *)
(* ignored, an end is announced.                                           *)
LEMMA QuietStep ==
  ASSUME TransferInv, UNCHANGED <<wire, sent, delivered, confirmed, status>>,
         sndCurrent' \in Nat, sndCurrent <= sndCurrent', sndTick' \in Nat,
         rcvCurrent' \in Nat, rcvCurrent <= rcvCurrent', rcvRetiring' \in Nat \cup {None},
         rcvRetiring' # None => rcvRetiring' <= rcvCurrent',
         (Flow \in DOMAIN sndFlows') <=> SenderOpen,
         SenderOpen => sndFlows'[Flow] = sndFlows[Flow],
         Flow \in DOMAIN rcvFlows', DOMAIN rcvFlows'[Flow] = FlowFields,
         rcvFlows'[Flow].next_receive = rcvFlows[Flow].next_receive
  PROVE  TransferInv'
<1>0. /\ EndsTyped /\ SenderSound /\ ReceiverSound /\ WireSound /\ EpochsCovered
  BY DEF TransferInv
<1>1. /\ SenderOpen' <=> SenderOpen
      /\ SenderOpen => Queue' = Queue /\ (sndFlows[Flow])' = sndFlows[Flow]
      /\ ReceiverOpen' /\ Cursor' = Cursor
  BY DEF SenderOpen, ReceiverOpen, Queue, Cursor
<1>2. Frames("data")' = Frames("data") /\ Frames("ack")' = Frames("ack")
  BY DEF Frames
<1>3. EndsTyped'
  BY <1>0 DEF EndsTyped
<1>4. SenderSound'
  <2>1. SenderOpen => \A i \in 1 .. Len(Queue) : Queue[i].epoch <= sndCurrent'
    BY <1>0, TransferTyped, SMTT(30) DEF SenderSound
  <2> QED BY <1>0, <1>1, <2>1 DEF SenderSound
<1>5. ReceiverSound'
  BY <1>0, <1>1 DEF ReceiverSound
<1>6. WireSound'
  BY <1>0, <1>2 DEF WireSound
<1>7. EpochsCovered'
  <2>1. SenderOpen => \A i \in 1 .. Len(Queue) :
          Queue[i].sequence < Len(delivered) => Queue[i].epoch <= rcvCurrent'
    BY <1>0, TransferTyped, SMTT(30) DEF EpochsCovered
  <2> QED BY <1>0, <1>1, <1>2, <2>1 DEF EpochsCovered
<1> QED BY <1>3, <1>4, <1>5, <1>6, <1>7 DEF TransferInv

(* The sender's flow goes: what was promised about its queue goes with it. *)
LEMMA SenderGone ==
  ASSUME TransferInv, UNCHANGED <<wire, sent, delivered, confirmed>>, UNCHANGED rcvVars,
         sndCurrent' \in Nat, sndTick' \in Nat,
         Flow \notin DOMAIN sndFlows', status' \in {"closed", "failed"}
  PROVE  TransferInv'
<1>0. /\ EndsTyped /\ SenderSound /\ ReceiverSound /\ WireSound
  BY DEF TransferInv
<1>1. ~SenderOpen' /\ ReceiverOpen' = ReceiverOpen /\ Cursor' = Cursor
  BY DEF SenderOpen, ReceiverOpen, Cursor, rcvVars
<1>2. Frames("data")' = Frames("data") /\ Frames("ack")' = Frames("ack")
  BY DEF Frames
<1>3. EndsTyped'
  BY <1>0 DEF EndsTyped, rcvVars
<1>4. SenderSound'
  BY <1>0, <1>1 DEF SenderSound
<1>5. ReceiverSound'
  BY <1>0, <1>1 DEF ReceiverSound, rcvVars
<1>6. WireSound' /\ EpochsCovered'
  BY <1>0, <1>1, <1>2 DEF WireSound, EpochsCovered
<1> QED BY <1>3, <1>4, <1>5, <1>6 DEF TransferInv

(* Frames are added that repeat what the queue holds in the current epoch, *)
(* or acknowledge what was delivered in the receiver's.                    *)
LEMMA WireStep ==
  ASSUME TransferInv, NEW F, wire' = wire \cup F, UNCHANGED <<sndVars, rcvVars, users>>,
         \A f \in F : f.kind \in {"data", "ack", "finish"},
         \A f \in F : f.kind = "data" =>
           SenderOpen /\ \E i \in 1 .. Len(Queue) : f = Data(sndCurrent, Queue[i].sequence, Queue[i].len),
         \A f \in F : f.kind = "ack" =>
           Len(delivered) > 0 /\ f = Ack(rcvCurrent, Len(delivered) - 1)
  PROVE  TransferInv'
<1>0. /\ EndsTyped /\ SenderSound /\ ReceiverSound /\ WireSound /\ EpochsCovered
  BY DEF TransferInv
<1> USE DEF sndVars, rcvVars, users
<1>1. /\ SenderOpen' <=> SenderOpen
      /\ Queue' = Queue /\ Cursor' = Cursor
      /\ ReceiverOpen' <=> ReceiverOpen
  BY DEF SenderOpen, ReceiverOpen, Queue, Cursor
<1>2. /\ Frames("data")' = Frames("data") \cup {f \in F : f.kind = "data"}
      /\ Frames("ack")' = Frames("ack") \cup {f \in F : f.kind = "ack"}
  BY FramesAdded
<1>3. EndsTyped' /\ SenderSound' /\ ReceiverSound'
  BY <1>0, <1>1 DEF EndsTyped, SenderSound, ReceiverSound
<1>4. ASSUME NEW f \in F, f.kind = "data"
      PROVE  /\ SenderOpen /\ f.epoch = sndCurrent /\ f.epoch \in Nat
             /\ f.sequence \in Nat /\ f.sequence < Len(sent) /\ f.len = sent[f.sequence + 1]
  <2>1. PICK i \in 1 .. Len(Queue) : f = Data(sndCurrent, Queue[i].sequence, Queue[i].len)
    BY <1>4
  <2>2. f.epoch = sndCurrent /\ f.sequence = Queue[i].sequence /\ f.len = Queue[i].len
    BY <2>1, FrameFields
  <2>3. SenderOpen
    BY <1>4
  <2>4. /\ Queue[i].sequence = confirmed + i - 1 /\ confirmed + Len(Queue) = Len(sent)
        /\ Queue[i].len = sent[Queue[i].sequence + 1]
    BY <1>0, <2>3 DEF SenderSound
  <2>5. Queue[i].sequence \in Nat /\ Len(Queue) \in Nat /\ confirmed \in Nat /\ sndCurrent \in Nat
    BY <2>3, TransferTyped
  <2>6. Queue[i].sequence < Len(sent)
    BY <2>4, <2>5
  <2> QED BY <2>2, <2>3, <2>4, <2>5, <2>6
<1>5. ASSUME NEW f \in F, f.kind = "ack"
      PROVE  /\ f.epoch = rcvCurrent /\ f.epoch \in Nat /\ f.through \in Nat
             /\ f.through = Len(delivered) - 1 /\ f.through < Len(delivered)
  <2>1. Len(delivered) > 0 /\ f = Ack(rcvCurrent, Len(delivered) - 1)
    BY <1>5
  <2>2. f.epoch = rcvCurrent /\ f.through = Len(delivered) - 1
    BY <2>1, FrameFields
  <2> QED BY <2>1, <2>2, TransferTyped
<1>6. WireSound'
  BY <1>0, <1>2, <1>4, <1>5 DEF WireSound
<1>7. EpochsCovered'
  <2> SUFFICES ASSUME SenderOpen, NEW i \in 1 .. Len(Queue)
               PROVE  /\ \A d \in Frames("data")' :
                           d.sequence = Queue[i].sequence => Queue[i].epoch <= d.epoch
                      /\ Queue[i].sequence < Len(delivered) => Queue[i].epoch <= rcvCurrent
                      /\ \A a \in Frames("ack")' :
                           Queue[i].sequence <= a.through => Queue[i].epoch <= a.epoch
    BY <1>1 DEF EpochsCovered
  <2>1. /\ \A d \in Frames("data") : d.sequence = Queue[i].sequence => Queue[i].epoch <= d.epoch
        /\ Queue[i].sequence < Len(delivered) => Queue[i].epoch <= rcvCurrent
        /\ \A a \in Frames("ack") : Queue[i].sequence <= a.through => Queue[i].epoch <= a.epoch
    BY <1>0 DEF EpochsCovered
  <2>2. Queue[i].epoch <= sndCurrent
    BY <1>0 DEF SenderSound
  <2>3. \A f \in F : f.kind = "data" => Queue[i].epoch <= f.epoch
    BY <1>4, <2>2
  <2>4. \A f \in F : f.kind = "ack" /\ Queue[i].sequence <= f.through => Queue[i].epoch <= f.epoch
    <3> SUFFICES ASSUME NEW f \in F, f.kind = "ack", Queue[i].sequence <= f.through
                 PROVE  Queue[i].epoch <= f.epoch
      OBVIOUS
    <3>1. Queue[i].sequence < Len(delivered)
      BY <1>5, TransferTyped
    <3> QED BY <1>5, <2>1, <3>1
  <2> QED BY <1>2, <2>1, <2>3, <2>4
<1> QED BY <1>3, <1>6, <1>7 DEF TransferInv

-----------------------------------------------------------------------------
(* send retains the payload under the next sequence, which no frame and no *)
(* acknowledgement carries yet.                                            *)
LEMMA SendKeeps ==
  ASSUME TransferInv, NEW len \in Lengths, SenderSend(len)
  PROVE  TransferInv' /\ Channel!Send(len)
<1>0. /\ EndsTyped /\ SenderSound /\ ReceiverSound /\ WireSound /\ EpochsCovered
  BY DEF TransferInv
<1> DEFINE f == sndFlows[Flow]
           segment == [sequence |-> f.next_send, epoch |-> sndCurrent,
                       len |-> len, expires_at |-> sndTick + MaxPendingAge]
           r == [f EXCEPT !.next_send = @ + 1, !.pending = Append(@, segment),
                          !.pending_bytes = @ + len]
           n == Len(sent)
<1>1. /\ Flow \in DOMAIN sndFlows
      /\ sndFlows' = [sndFlows EXCEPT ![Flow] = r]
      /\ UNCHANGED <<sndCurrent, sndTick>>
  BY DEF SenderSend, Snd!Send, Snd!epochVars
<1>2. /\ wire' = wire \cup {Data(sndCurrent, f.next_send, len)}
      /\ sent' = Append(sent, len) /\ UNCHANGED <<delivered, confirmed, status>>
      /\ UNCHANGED <<rcvCurrent, rcvRetiring, rcvFlows>>
  BY DEF SenderSend, rcvVars
<1>3. SenderOpen /\ SenderOpen' /\ sndFlows'[Flow] = r
  BY <1>1 DEF SenderOpen
<1>4. /\ DOMAIN f = FlowFields /\ Queue \in Seq(Segment) /\ f.next_send = n /\ f.pending = Queue
      /\ confirmed + Len(Queue) = n
      /\ \A i \in 1 .. Len(Queue) :
            /\ Queue[i].sequence = confirmed + i - 1
            /\ Queue[i].len = sent[Queue[i].sequence + 1]
            /\ Queue[i].epoch <= sndCurrent
  BY <1>0, <1>3 DEF SenderSound, Queue
<1>5. /\ n \in Nat /\ sndCurrent \in Nat /\ confirmed \in Nat /\ Len(Queue) \in Nat
      /\ Len(delivered) \in Nat /\ Len(delivered) <= n
      /\ \A i \in 1 .. Len(Queue) : Queue[i].sequence \in Nat /\ Queue[i].epoch \in Nat
  BY <1>0, <1>3, TransferTyped DEF ReceiverSound
<1>6. /\ segment \in Segment /\ segment.sequence = n /\ segment.epoch = sndCurrent
      /\ segment.len = len
  <2>1. sndTick + MaxPendingAge \in Nat
    BY <1>0, ConstantsTyped DEF EndsTyped
  <2> QED BY <1>4, <1>5, <2>1 DEF Segment
<1> HIDE DEF segment
<1>7. DOMAIN r = FlowFields /\ r.pending = Append(Queue, segment) /\ r.next_send = n + 1
  BY <1>4 DEF FlowFields
<1>8. Queue' = Append(Queue, segment) /\ (sndFlows[Flow])' = r
  BY <1>3, <1>7 DEF Queue
<1> HIDE DEF r, f
<1>9. /\ Append(Queue, segment) \in Seq(Segment)
      /\ Len(Append(Queue, segment)) = Len(Queue) + 1
      /\ \A i \in 1 .. Len(Queue) : Append(Queue, segment)[i] = Queue[i]
      /\ Append(Queue, segment)[Len(Queue) + 1] = segment
  BY <1>4, <1>6
<1>10. /\ sent' \in Seq(Lengths) /\ Len(sent') = n + 1 /\ sent'[n + 1] = len
       /\ \A i \in 1 .. n : sent'[i] = sent[i]
  BY <1>0, <1>2 DEF EndsTyped
<1> HIDE DEF n
<1>11. /\ Frames("data")' = Frames("data") \cup {Data(sndCurrent, n, len)}
       /\ Frames("ack")' = Frames("ack")
  <2>1. PICK g : g = Data(sndCurrent, n, len)
    OBVIOUS
  <2>2. g.kind = "data"
    BY <2>1, FrameFields
  <2>3. wire' = wire \cup {g}
    BY <1>2, <1>4, <2>1
  <2>4. Frames("data")' = Frames("data") \cup {g} /\ Frames("ack")' = Frames("ack")
    BY <2>2, <2>3 DEF Frames
  <2> QED BY <2>1, <2>4
<1>12. EndsTyped'
  BY <1>0, <1>1, <1>2, <1>10 DEF EndsTyped
<1>13. \A i \in 1 .. (Len(Queue) + 1) :
         /\ Queue'[i].sequence = confirmed + i - 1
         /\ Queue'[i].len = sent'[Queue'[i].sequence + 1]
         /\ Queue'[i].epoch <= sndCurrent
  <2> SUFFICES ASSUME NEW i \in 1 .. (Len(Queue) + 1)
               PROVE  /\ Queue'[i].sequence = confirmed + i - 1
                      /\ Queue'[i].len = sent'[Queue'[i].sequence + 1]
                      /\ Queue'[i].epoch <= sndCurrent
    OBVIOUS
  <2>1. CASE i = Len(Queue) + 1
    <3>1. Queue'[i] = segment
      BY <1>8, <1>9, <2>1
    <3>2. n = confirmed + i - 1
      BY <1>4, <1>5, <2>1
    <3> QED BY <1>5, <1>6, <1>10, <3>1, <3>2
  <2>2. CASE i \in 1 .. Len(Queue)
    <3>1. Queue'[i] = Queue[i]
      BY <1>8, <1>9, <2>2
    <3>2. Queue[i].sequence = confirmed + i - 1 /\ Queue[i].sequence + 1 \in 1 .. n
      BY <1>4, <1>5, <2>2
    <3> QED BY <1>4, <1>10, <2>2, <3>1, <3>2
  <2> QED BY <1>5, <2>1, <2>2
<1>14. SenderSound'
  <2>1. confirmed + (Len(Queue) + 1) = n + 1
    BY <1>4, <1>5
  <2>2. /\ Len(Queue') = Len(Queue) + 1 /\ Queue' \in Seq(Segment)
        /\ DOMAIN (sndFlows[Flow])' = FlowFields /\ (sndFlows[Flow])'.next_send = n + 1
    BY <1>7, <1>8, <1>9
  <2> QED BY <1>0, <1>1, <1>2, <1>3, <1>10, <1>13, <2>1, <2>2 DEF SenderSound
<1>15. ReceiverSound'
  <2>1. ReceiverOpen' /\ Cursor' = Cursor
    BY <1>0, <1>2 DEF ReceiverSound, ReceiverOpen, Cursor
  <2>2. Len(delivered) <= n + 1 /\ \A i \in 1 .. Len(delivered) : i \in 1 .. n
    BY <1>5
  <2> QED BY <1>0, <1>2, <1>10, <2>1, <2>2 DEF ReceiverSound
<1>16. WireSound'
  <2>1. \A d \in Frames("data") :
          /\ d.epoch \in Nat /\ d.sequence \in Nat /\ d.sequence < n + 1
          /\ d.len = sent'[d.sequence + 1]
    <3> SUFFICES ASSUME NEW d \in Frames("data")
                 PROVE  /\ d.epoch \in Nat /\ d.sequence \in Nat /\ d.sequence < n + 1
                        /\ d.len = sent'[d.sequence + 1]
      OBVIOUS
    <3>1. /\ d.epoch \in Nat /\ d.sequence \in Nat /\ d.sequence < n
          /\ d.len = sent[d.sequence + 1]
      BY <1>0 DEF WireSound, n
    <3>2. d.sequence + 1 \in 1 .. n
      BY <1>5, <3>1
    <3> QED BY <1>5, <1>10, <3>1, <3>2
  <2>2. /\ Data(sndCurrent, n, len).epoch \in Nat /\ Data(sndCurrent, n, len).sequence = n
        /\ Data(sndCurrent, n, len).len = len
    BY <1>5, FrameFields
  <2> QED BY <1>0, <1>2, <1>5, <1>10, <1>11, <2>1, <2>2 DEF WireSound
<1>17. EpochsCovered'
  <2> SUFFICES ASSUME NEW i \in 1 .. (Len(Queue) + 1)
               PROVE  /\ \A d \in Frames("data")' :
                           d.sequence = Queue'[i].sequence => Queue'[i].epoch <= d.epoch
                      /\ Queue'[i].sequence < Len(delivered) => Queue'[i].epoch <= rcvCurrent
                      /\ \A a \in Frames("ack")' :
                           Queue'[i].sequence <= a.through => Queue'[i].epoch <= a.epoch
    BY <1>2, <1>8, <1>9 DEF EpochsCovered
  <2>0. /\ Data(sndCurrent, n, len).epoch = sndCurrent /\ Queue'[i].epoch <= sndCurrent
    BY <1>13, FrameFields
  <2>1. CASE i = Len(Queue) + 1
    <3>1. Queue'[i].sequence = n
      BY <1>6, <1>8, <1>9, <2>1
    <3>2. \A d \in Frames("data") : d.sequence # n
      BY <1>0, <1>5 DEF WireSound, n
    <3>3. ~(n < Len(delivered)) /\ \A a \in Frames("ack") : ~(n <= a.through)
      BY <1>0, <1>5 DEF WireSound
    <3> QED BY <1>11, <2>0, <3>1, <3>2, <3>3
  <2>2. CASE i \in 1 .. Len(Queue)
    <3>1. Queue'[i] = Queue[i]
      BY <1>8, <1>9, <2>2
    <3>2. /\ \A d \in Frames("data") : d.sequence = Queue[i].sequence => Queue[i].epoch <= d.epoch
          /\ Queue[i].sequence < Len(delivered) => Queue[i].epoch <= rcvCurrent
          /\ \A a \in Frames("ack") : Queue[i].sequence <= a.through => Queue[i].epoch <= a.epoch
      BY <1>0, <1>3, <2>2 DEF EpochsCovered
    <3> QED BY <1>11, <2>0, <3>1, <3>2
  <2> QED BY <1>5, <2>1, <2>2
<1>18. Channel!Send(len)
  BY <1>0, <1>2, <1>3 DEF Channel!Send, SenderSound
<1> QED BY <1>12, <1>14, <1>15, <1>16, <1>17, <1>18 DEF TransferInv

(* What the pop loop takes off a queue of consecutive sequences: those up  *)
(* to the acknowledged one.                                                *)
LEMMA ReleasedCount ==
  ASSUME NEW q \in Seq(Segment), NEW c \in Nat, NEW s \in Nat, s < c + Len(q),
         \A i \in 1 .. Len(q) : q[i].sequence = c + i - 1
  PROVE  /\ Snd!Released(q, s) \in 0 .. Len(q)
         /\ Snd!Released(q, s) # 0 => c + Snd!Released(q, s) - 1 <= s
<1> DEFINE Good(n) == /\ \A i \in 1 .. n : q[i].sequence <= s
                      /\ n < Len(q) => q[n + 1].sequence > s
           m == IF s < c THEN 0 ELSE s - c + 1
<1>0. Len(q) \in Nat
  OBVIOUS
<1>1. m \in 0 .. Len(q)
  BY <1>0
<1>2. Good(m)
  <2>1. \A i \in 1 .. m : i \in 1 .. Len(q) /\ c + i - 1 <= s
    BY <1>0, <1>1
  <2>2. m < Len(q) => m + 1 \in 1 .. Len(q) /\ c + (m + 1) - 1 > s
    BY <1>0, <1>1
  <2> HIDE DEF m
  <2> QED BY <2>1, <2>2
<1>3. Snd!Released(q, s) = CHOOSE n \in 0 .. Len(q) : Good(n)
  BY DEF Snd!Released
<1>4. Snd!Released(q, s) \in 0 .. Len(q) /\ Good(Snd!Released(q, s))
  <2> HIDE DEF Good, m
  <2> QED BY <1>1, <1>2, <1>3
<1>5. ASSUME Snd!Released(q, s) # 0
      PROVE  c + Snd!Released(q, s) - 1 <= s
  <2>1. Snd!Released(q, s) \in 1 .. Snd!Released(q, s) /\ Snd!Released(q, s) \in 1 .. Len(q)
    BY <1>0, <1>4, <1>5
  <2> QED BY <1>4, <2>1
<1> QED BY <1>4, <1>5

(* What is left of a queue when its first n entries are gone.              *)
LEMMA RestOfQueue ==
  ASSUME NEW q \in Seq(Segment), NEW n \in 0 .. Len(q)
  PROVE  /\ SubSeq(q, n + 1, Len(q)) \in Seq(Segment)
         /\ Len(SubSeq(q, n + 1, Len(q))) = Len(q) - n
         /\ \A i \in 1 .. (Len(q) - n) : SubSeq(q, n + 1, Len(q))[i] = q[n + i]
<1> DEFINE b == SubSeq(q, n + 1, Len(q))
<1>1. Len(q) \in Nat /\ n \in Nat /\ n <= Len(q)
  OBVIOUS
<1>2. \A i \in (n + 1) .. Len(q) : q[i] \in Segment
  OBVIOUS
<1>3. /\ b \in Seq(Segment)
      /\ Len(b) = IF n + 1 <= Len(q) THEN Len(q) - (n + 1) + 1 ELSE 0
      /\ \A i \in 1 .. Len(q) - (n + 1) + 1 : b[i] = q[(n + 1) + i - 1]
  <2> HIDE DEF b
  <2>1. n + 1 \in Int /\ Len(q) \in Int
    BY <1>1
  <2> QED BY <1>2, <2>1, SubSeqProperties DEF b
<1>4. Len(q) - (n + 1) + 1 = Len(q) - n /\ \A i \in Nat : (n + 1) + i - 1 = n + i
  BY <1>1
<1> HIDE DEF b
<1>5. Len(b) = Len(q) - n
  BY <1>1, <1>3
<1>6. \A i \in 1 .. (Len(q) - n) : b[i] = q[n + i]
  <2> SUFFICES ASSUME NEW i \in 1 .. (Len(q) - n) PROVE b[i] = q[n + i]
    OBVIOUS
  <2>1. i \in 1 .. Len(q) - (n + 1) + 1 /\ (n + 1) + i - 1 = n + i
    BY <1>1, <1>4
  <2> QED BY <1>3, <2>1
<1> QED BY <1>3, <1>5, <1>6 DEF b

(* An acknowledgement confirms the front of the queue, all of it delivered. *)
LEMMA AcknowledgedKeeps ==
  ASSUME TransferInv, NEW a \in Frames("ack"), SenderAcknowledged(a)
  PROVE  TransferInv' /\ [Channel!Next]_(Channel!vars)
<1>0. /\ EndsTyped /\ SenderSound /\ ReceiverSound /\ WireSound /\ EpochsCovered
  BY DEF TransferInv
<1> DEFINE f == sndFlows[Flow]
           n == Snd!Released(f.pending, a.through)
           bytes == Snd!Bytes(SubSeq(f.pending, 1, n))
           rest == SubSeq(f.pending, n + 1, Len(f.pending))
           r == [f EXCEPT !.pending = rest, !.pending_bytes = @ - bytes]
<1>1. /\ Flow \in DOMAIN sndFlows /\ ~Snd!InvalidAcknowledgement(Flow, a.epoch, a.through)
      /\ sndFlows' = [sndFlows EXCEPT ![Flow] = r]
      /\ UNCHANGED <<sndCurrent, sndTick>>
  BY DEF SenderAcknowledged, Snd!Acknowledge, Snd!epochVars
<1>2. /\ confirmed' = sndFlows[Flow].next_send - Len(sndFlows'[Flow].pending)
      /\ UNCHANGED <<rcvCurrent, rcvRetiring, rcvFlows, wire, sent, delivered, status>>
  BY DEF SenderAcknowledged, rcvVars
<1>3. SenderOpen /\ SenderOpen' /\ sndFlows'[Flow] = r
  BY <1>1 DEF SenderOpen
<1>4. /\ DOMAIN f = FlowFields /\ Queue \in Seq(Segment) /\ f.next_send = Len(sent)
      /\ f.pending = Queue /\ confirmed + Len(Queue) = Len(sent)
      /\ \A i \in 1 .. Len(Queue) :
            /\ Queue[i].sequence = confirmed + i - 1
            /\ Queue[i].len = sent[Queue[i].sequence + 1]
            /\ Queue[i].epoch <= sndCurrent
  BY <1>0, <1>3 DEF SenderSound, Queue
<1>5. /\ Len(sent) \in Nat /\ confirmed \in Nat /\ Len(Queue) \in Nat /\ Len(delivered) \in Nat
  BY <1>3, TransferTyped
<1>6. a.through \in Nat /\ a.through < Len(delivered) /\ a.through < Len(sent)
  <2>1. a.through \in Nat /\ a.through < Len(delivered)
    BY <1>0 DEF WireSound
  <2>2. Len(delivered) <= Len(sent)
    BY <1>0 DEF ReceiverSound
  <2> QED BY <1>5, <2>1, <2>2
<1>7. n \in 0 .. Len(Queue) /\ (n # 0 => confirmed + n - 1 <= a.through)
  BY <1>4, <1>5, <1>6, ReleasedCount, ZenonT(30)
<1>8. DOMAIN r = FlowFields /\ r.pending = rest /\ r.next_send = f.next_send
  BY <1>4 DEF FlowFields
<1>9. Queue' = rest /\ (sndFlows[Flow])' = r /\ rest = SubSeq(Queue, n + 1, Len(Queue))
  BY <1>3, <1>4, <1>8 DEF Queue
<1> HIDE DEF r, f, n
<1>10. /\ Queue' \in Seq(Segment) /\ Len(Queue') = Len(Queue) - n
       /\ \A i \in 1 .. (Len(Queue) - n) : Queue'[i] = Queue[n + i]
  BY <1>4, <1>7, <1>9, RestOfQueue
<1> HIDE DEF rest
<1>11. confirmed' = confirmed + n /\ confirmed' \in Nat /\ confirmed' <= Len(delivered)
  <2>1. confirmed' = Len(sent) - Len(Queue')
    BY <1>2, <1>4 DEF Queue, f
  <2>2. confirmed' = confirmed + n
    <3>1. PICK l \in Nat, k \in Nat, c \in Nat : l = Len(Queue) /\ k = n /\ c = confirmed
      BY <1>5, <1>7
    <3>2. (c + l) - (l - k) = c + k
      BY ONLY l \in Nat, k \in Nat, c \in Nat
    <3> QED BY <1>4, <1>10, <2>1, <3>1, <3>2
  <2>3. confirmed <= Len(delivered)
    BY <1>0 DEF SenderSound
  <2> QED BY <1>5, <1>6, <1>7, <2>2, <2>3
<1>12. ASSUME NEW i \in 1 .. Len(Queue')
       PROVE  n + i \in 1 .. Len(Queue) /\ Queue'[i] = Queue[n + i]
  BY <1>5, <1>7, <1>10
<1>13. Frames("data")' = Frames("data") /\ Frames("ack")' = Frames("ack")
  BY <1>2 DEF Frames
<1>14. EndsTyped'
  BY <1>0, <1>1, <1>2 DEF EndsTyped
<1>15. SenderSound'
  <2>1. \A i \in 1 .. Len(Queue') :
          /\ Queue'[i].sequence = confirmed' + i - 1
          /\ Queue'[i].len = sent[Queue'[i].sequence + 1]
          /\ Queue'[i].epoch <= sndCurrent
    <3> SUFFICES ASSUME NEW i \in 1 .. Len(Queue')
                 PROVE  /\ Queue'[i].sequence = confirmed' + i - 1
                        /\ Queue'[i].len = sent[Queue'[i].sequence + 1]
                        /\ Queue'[i].epoch <= sndCurrent
      OBVIOUS
    <3>1. n + i \in 1 .. Len(Queue) /\ Queue'[i] = Queue[n + i]
      BY <1>12
    <3>2. confirmed + (n + i) - 1 = confirmed' + i - 1
      BY <1>5, <1>7, <1>11, <3>1, i \in Nat
    <3> QED BY <1>4, <3>1, <3>2
  <2>2. confirmed' + Len(Queue') = Len(sent)
    <3>1. PICK l \in Nat, k \in Nat, c \in Nat : l = Len(Queue) /\ k = n /\ c = confirmed
      BY <1>5, <1>7
    <3>2. (c + k) + (l - k) = c + l
      BY ONLY l \in Nat, k \in Nat, c \in Nat
    <3> QED BY <1>4, <1>10, <1>11, <3>1, <3>2
  <2>3. DOMAIN (sndFlows[Flow])' = FlowFields /\ (sndFlows[Flow])'.next_send = Len(sent)
    BY <1>4, <1>8, <1>9
  <2> QED BY <1>0, <1>1, <1>2, <1>3, <1>10, <1>11, <2>1, <2>2, <2>3 DEF SenderSound
<1>16. ReceiverSound'
  <2>1. ReceiverOpen' /\ Cursor' = Cursor
    BY <1>0, <1>2 DEF ReceiverSound, ReceiverOpen, Cursor
  <2> QED BY <1>0, <1>2, <2>1 DEF ReceiverSound
<1>17. WireSound'
  BY <1>0, <1>2, <1>13 DEF WireSound
<1>18. EpochsCovered'
  <2> SUFFICES ASSUME NEW i \in 1 .. Len(Queue')
               PROVE  /\ \A d \in Frames("data") :
                           d.sequence = Queue'[i].sequence => Queue'[i].epoch <= d.epoch
                      /\ Queue'[i].sequence < Len(delivered) => Queue'[i].epoch <= rcvCurrent
                      /\ \A b \in Frames("ack") :
                           Queue'[i].sequence <= b.through => Queue'[i].epoch <= b.epoch
    BY <1>2, <1>13 DEF EpochsCovered
  <2>1. n + i \in 1 .. Len(Queue) /\ Queue'[i] = Queue[n + i]
    BY <1>12
  <2> QED BY <1>0, <1>3, <2>1 DEF EpochsCovered
<1>19. [Channel!Next]_(Channel!vars)
  <2>1. CASE n = 0
    <3>1. confirmed' = confirmed
      BY <1>5, <1>11, <2>1
    <3> QED BY <1>2, <3>1 DEF Channel!vars
  <2>2. CASE n # 0
    <3>1. confirmed' \in confirmed + 1 .. Len(delivered)
      BY <1>5, <1>7, <1>11, <2>2
    <3>2. status = "open"
      BY <1>0, <1>3 DEF SenderSound
    <3> QED BY <1>2, <3>1, <3>2 DEF Channel!Next, Channel!Confirm
  <2> QED BY <2>1, <2>2
<1> QED BY <1>14, <1>15, <1>16, <1>17, <1>18, <1>19 DEF TransferInv

(* The receiver takes exactly the next payload: a frame that carries the   *)
(* cursor's sequence carries what was sent under it, in an epoch that the  *)
(* receiver has reached.                                                   *)
LEMMA DeliverKeeps ==
  ASSUME TransferInv, NEW d \in Frames("data"), ReceiverDeliver(d)
  PROVE  TransferInv' /\ Channel!Deliver
<1>0. /\ EndsTyped /\ SenderSound /\ ReceiverSound /\ WireSound /\ EpochsCovered
  BY DEF TransferInv
<1> DEFINE f == rcvFlows[Flow]
           r == [f EXCEPT !.next_receive = @ + 1]
           n == Len(delivered)
<1>1. /\ Flow \in DOMAIN rcvFlows /\ d.sequence = f.next_receive
      /\ d.epoch = rcvCurrent \/ d.epoch = rcvRetiring
      /\ rcvFlows' = [rcvFlows EXCEPT ![Flow] = r]
      /\ UNCHANGED <<rcvCurrent, rcvRetiring>>
  BY DEF ReceiverDeliver, Rcv!ReceiveDelivered, Rcv!Receivable, Rcv!ValidEpoch, Rcv!epochVars
<1>2. /\ delivered' = Append(delivered, d.len)
      /\ UNCHANGED <<sndCurrent, sndTick, sndFlows, wire, sent, confirmed, status>>
  BY DEF ReceiverDeliver, sndVars
<1>3. DOMAIN f = FlowFields /\ f.next_receive = n /\ n <= Len(sent)
  BY <1>0 DEF ReceiverSound, Cursor
<1>4. n \in Nat /\ Len(sent) \in Nat /\ rcvCurrent \in Nat
  BY TransferTyped
<1>5. d.epoch \in Nat /\ n < Len(sent) /\ d.len = sent[n + 1] /\ d.sequence = n
  BY <1>0, <1>1, <1>3 DEF WireSound
<1>6. d.epoch <= rcvCurrent
  <2>1. d.epoch # None
    BY <1>5, ConstantsTyped
  <2> QED BY <1>0, <1>1, <1>4, <2>1 DEF EndsTyped
<1>7. d.len \in Lengths
  <2>1. n + 1 \in 1 .. Len(sent) /\ sent \in Seq(Lengths)
    BY <1>0, <1>4, <1>5 DEF EndsTyped
  <2> QED BY <1>5, <2>1
<1>8. ReceiverOpen' /\ Cursor' = n + 1 /\ DOMAIN (rcvFlows[Flow])' = FlowFields
  BY <1>1, <1>3 DEF ReceiverOpen, Cursor, FlowFields
<1>9. /\ delivered' \in Seq(Lengths) /\ Len(delivered') = n + 1 /\ delivered'[n + 1] = d.len
      /\ \A i \in 1 .. n : delivered'[i] = delivered[i]
  BY <1>0, <1>2, <1>7 DEF EndsTyped
<1> HIDE DEF f, r
<1>10. /\ SenderOpen' <=> SenderOpen
       /\ Queue' = Queue /\ (sndFlows[Flow])' = sndFlows[Flow]
       /\ Frames("data")' = Frames("data") /\ Frames("ack")' = Frames("ack")
  BY <1>2 DEF SenderOpen, Queue, Frames
<1>11. EndsTyped'
  BY <1>0, <1>1, <1>2, <1>9 DEF EndsTyped
<1>12. SenderSound'
  <2>1. confirmed <= n + 1
    BY <1>0, <1>4, TransferTyped DEF SenderSound
  <2> QED BY <1>0, <1>2, <1>9, <1>10, <2>1 DEF SenderSound
<1>13. ReceiverSound'
  <2>1. \A i \in 1 .. (n + 1) : delivered'[i] = sent[i]
    <3> SUFFICES ASSUME NEW i \in 1 .. (n + 1) PROVE delivered'[i] = sent[i]
      OBVIOUS
    <3>1. CASE i = n + 1
      BY <1>5, <1>9, <3>1
    <3>2. CASE i \in 1 .. n
      BY <1>0, <1>9, <3>2 DEF ReceiverSound
    <3> QED BY <1>4, <3>1, <3>2
  <2>2. n + 1 <= Len(sent)
    BY <1>4, <1>5
  <2> QED BY <1>2, <1>8, <1>9, <2>1, <2>2 DEF ReceiverSound
<1>14. WireSound'
  <2>1. \A a \in Frames("ack") : a.through \in Nat /\ a.through < n => a.through < n + 1
    BY <1>4
  <2> QED BY <1>0, <1>2, <1>9, <1>10, <2>1 DEF WireSound
<1>15. EpochsCovered'
  <2> SUFFICES ASSUME SenderOpen, NEW i \in 1 .. Len(Queue), Queue[i].sequence < n + 1
               PROVE  Queue[i].epoch <= rcvCurrent
    BY <1>0, <1>1, <1>9, <1>10 DEF EpochsCovered
  <2>1. Queue[i].sequence \in Nat /\ Queue[i].epoch \in Nat
    BY TransferTyped
  <2>2. CASE Queue[i].sequence < n
    BY <1>0, <2>2 DEF EpochsCovered
  <2>3. CASE Queue[i].sequence = n
    <3>1. Queue[i].epoch <= d.epoch
      BY <1>0, <1>5, <2>3 DEF EpochsCovered
    <3> QED BY <1>4, <1>5, <1>6, <2>1, <3>1
  <2> QED BY <1>4, <2>1, <2>2, <2>3
<1>16. Channel!Deliver
  BY <1>2, <1>5 DEF Channel!Deliver
<1> QED BY <1>11, <1>12, <1>13, <1>14, <1>15, <1>16 DEF TransferInv

-----------------------------------------------------------------------------
(* Every step keeps the invariant, and is a step of the channel or none.   *)
LEMMA TransferStep ==
  ASSUME TransferInv, [Next]_vars
  PROVE  TransferInv' /\ [Channel!Next]_(Channel!vars)
<1>0. /\ EndsTyped /\ SenderSound /\ ReceiverSound
  BY DEF TransferInv
<1>a. /\ sndCurrent \in Nat /\ sndTick \in Nat /\ rcvCurrent \in Nat
      /\ sndCurrent <= sndCurrent /\ rcvCurrent <= rcvCurrent
      /\ rcvRetiring \in Nat \cup {None}
      /\ rcvRetiring # None => rcvRetiring <= rcvCurrent
      /\ Flow \in DOMAIN rcvFlows /\ DOMAIN rcvFlows[Flow] = FlowFields
      /\ rcvFlows[Flow].next_receive = Len(delivered) /\ Len(delivered) \in Nat
      /\ SenderOpen <=> status = "open"
  BY <1>0, TransferTyped DEF EndsTyped, ReceiverSound, ReceiverOpen, Cursor, SenderSound
<1>1. ASSUME NEW len \in Lengths, SenderSend(len)
      PROVE  TransferInv' /\ [Channel!Next]_(Channel!vars)
  BY <1>1, SendKeeps DEF Channel!Next
<1>2. CASE SenderResume
  <2>1. wire' = wire \cup Resumed /\ UNCHANGED <<sndVars, rcvVars, users>> /\ SenderOpen
    BY <1>2 DEF SenderResume
  <2>2. \A g \in Resumed : g.kind = "data" /\ \E i \in 1 .. Len(Queue) :
          g = Data(sndCurrent, Queue[i].sequence, Queue[i].len)
    BY FrameFields DEF Resumed, Queue
  <2>3. TransferInv'
    BY <2>1, <2>2, WireStep
  <2> QED BY <2>1, <2>3 DEF users, Channel!vars
<1>3. CASE SenderFinish
  <2> DEFINE g == Finish(sndCurrent, sndFlows[Flow].next_send)
  <2>1. wire' = wire \cup {g} /\ UNCHANGED <<sndVars, rcvVars, users>>
    BY <1>3 DEF SenderFinish
  <2>2. g.kind = "finish"
    BY FrameFields
  <2> HIDE DEF g
  <2>3. PICK F : F = {g}
    OBVIOUS
  <2>4. /\ wire' = wire \cup F
        /\ \A h \in F : h.kind \in {"data", "ack", "finish"}
        /\ \A h \in F : h.kind # "data" /\ h.kind # "ack"
    BY <2>1, <2>2, <2>3
  <2>5. TransferInv'
    BY <2>1, <2>4, WireStep
  <2> QED BY <2>1, <2>5 DEF users, Channel!vars
<1>4. ASSUME NEW a \in Frames("ack"), SenderAcknowledged(a)
      PROVE  TransferInv' /\ [Channel!Next]_(Channel!vars)
  BY <1>4, AcknowledgedKeeps
<1>5. CASE SenderClose
  <2>1. /\ Flow \in DOMAIN sndFlows /\ Queue = << >>
        /\ sndFlows' = Snd!Restrict(sndFlows, DOMAIN sndFlows \ {Flow})
        /\ UNCHANGED <<sndCurrent, sndTick>> /\ status' = "closed"
        /\ UNCHANGED <<rcvVars, wire, sent, delivered, confirmed>>
    BY <1>5 DEF SenderClose, Snd!CloseReliableFlow, Snd!epochVars, Queue
  <2>2. Flow \notin DOMAIN sndFlows'
    BY <2>1 DEF Snd!Restrict
  <2>3. TransferInv'
    BY <1>a, <2>1, <2>2, SenderGone
  <2>4. confirmed + Len(Queue) = Len(sent) /\ status = "open" /\ confirmed \in Nat /\ Len(Queue) = 0
    BY <1>0, <2>1 DEF SenderSound, SenderOpen
  <2>5. confirmed = Len(sent)
    BY <2>4
  <2> QED BY <2>1, <2>3, <2>4, <2>5 DEF Channel!Next, Channel!Close
<1>6. ASSUME Flow \in DOMAIN sndFlows, Flow \notin DOMAIN sndFlows', status' = "failed",
             sndCurrent' = sndCurrent, sndTick' \in Nat,
             UNCHANGED <<rcvVars, wire, sent, delivered, confirmed>>
      PROVE  TransferInv' /\ [Channel!Next]_(Channel!vars)
  <2>1. TransferInv'
    BY <1>a, <1>6, SenderGone
  <2>2. status = "open"
    BY <1>a, <1>6 DEF SenderOpen
  <2> QED BY <1>6, <2>1, <2>2 DEF Channel!Next, Channel!Fail
<1>7. CASE SenderReset
  <2>1. /\ Flow \in DOMAIN sndFlows
        /\ sndFlows' = Snd!Restrict(sndFlows, DOMAIN sndFlows \ {Flow})
        /\ UNCHANGED <<sndCurrent, sndTick>> /\ status' = "failed"
        /\ UNCHANGED <<rcvVars, wire, sent, delivered, confirmed>>
    BY <1>7 DEF SenderReset, Snd!ResetReliableFlow, Snd!ReleaseFlows, Snd!epochVars
  <2>2. Flow \notin DOMAIN sndFlows'
    BY <2>1 DEF Snd!Restrict
  <2> QED BY <1>6, <1>a, <2>1, <2>2
<1>8. ASSUME NEW ticks \in 1 .. TickMax, SenderAdvanceTime(ticks)
      PROVE  TransferInv' /\ [Channel!Next]_(Channel!vars)
  <2>1. /\ sndTick' = sndTick + ticks /\ UNCHANGED sndCurrent
        /\ \E ids : sndFlows' = Snd!Restrict(sndFlows, DOMAIN sndFlows \ ids)
        /\ status' = IF SenderOpen /\ Flow \notin DOMAIN sndFlows' THEN "failed" ELSE status
        /\ UNCHANGED <<rcvVars, wire, sent, delivered, confirmed>>
    BY <1>8 DEF SenderAdvanceTime, Snd!AdvanceTime, Snd!ReleaseFlows, Snd!epochVars
  <2>2. sndTick' \in Nat
    BY <1>a, <2>1, ConstantsTyped
  <2>3. PICK ids : sndFlows' = Snd!Restrict(sndFlows, DOMAIN sndFlows \ ids)
    BY <2>1
  <2>4. /\ DOMAIN sndFlows' = DOMAIN sndFlows \ ids
        /\ \A x \in DOMAIN sndFlows \ ids : sndFlows'[x] = sndFlows[x]
    BY <2>3 DEF Snd!Restrict
  <2>5. CASE SenderOpen /\ Flow \notin DOMAIN sndFlows'
    BY <1>6, <2>1, <2>2, <2>5 DEF SenderOpen
  <2>6. CASE ~(SenderOpen /\ Flow \notin DOMAIN sndFlows')
    <3>1. /\ (Flow \in DOMAIN sndFlows') <=> SenderOpen
          /\ SenderOpen => sndFlows'[Flow] = sndFlows[Flow]
      BY <2>4, <2>6 DEF SenderOpen
    <3>2. status' = status
      BY <2>1, <2>6
    <3>3. UNCHANGED <<rcvCurrent, rcvRetiring, rcvFlows>>
      BY <2>1 DEF rcvVars
    <3>4. TransferInv'
      BY <1>a, <2>1, <2>2, <3>1, <3>2, <3>3, QuietStep
    <3> QED BY <2>1, <3>2, <3>4 DEF Channel!vars
  <2> QED BY <2>5, <2>6
<1>9. CASE SenderTransition
  <2>1. /\ UNCHANGED <<sndTick, sndFlows>> /\ sndCurrent' \in {sndCurrent, sndCurrent + 1}
        /\ UNCHANGED <<rcvVars, wire, users>>
    BY <1>9 DEF SenderTransition, Snd!BeginTransition, Snd!AdvanceEpoch, Snd!CompleteTransition
  <2>2. sndCurrent' \in Nat /\ sndCurrent <= sndCurrent'
    BY <1>a, <2>1
  <2>3. /\ (Flow \in DOMAIN sndFlows') <=> SenderOpen
        /\ SenderOpen => sndFlows'[Flow] = sndFlows[Flow]
        /\ UNCHANGED <<rcvCurrent, rcvRetiring, rcvFlows>>
        /\ UNCHANGED <<wire, sent, delivered, confirmed, status>>
    BY <2>1 DEF SenderOpen, rcvVars, users
  <2>4. TransferInv'
    BY <1>a, <2>1, <2>2, <2>3, QuietStep
  <2> QED BY <2>3, <2>4 DEF Channel!vars
<1>10. ASSUME NEW d \in Frames("data"), ReceiverDeliver(d)
       PROVE  TransferInv' /\ [Channel!Next]_(Channel!vars)
  BY <1>10, DeliverKeeps DEF Channel!Next
<1>11. ASSUME UNCHANGED <<sndCurrent, sndTick, sndFlows>>, UNCHANGED <<wire, sent, delivered, confirmed, status>>,
              rcvCurrent' \in Nat, rcvCurrent <= rcvCurrent', rcvRetiring' \in Nat \cup {None},
              rcvRetiring' # None => rcvRetiring' <= rcvCurrent',
              Flow \in DOMAIN rcvFlows', DOMAIN rcvFlows'[Flow] = FlowFields,
              rcvFlows'[Flow].next_receive = rcvFlows[Flow].next_receive
       PROVE  TransferInv' /\ [Channel!Next]_(Channel!vars)
  <2>1. /\ (Flow \in DOMAIN sndFlows') <=> SenderOpen
        /\ SenderOpen => sndFlows'[Flow] = sndFlows[Flow]
    BY <1>11 DEF SenderOpen
  <2>2. TransferInv'
    BY <1>a, <1>11, <2>1, QuietStep
  <2> QED BY <1>11, <2>2 DEF Channel!vars
<1>12. ASSUME NEW d \in Frames("data"), ReceiverIgnore(d)
       PROVE  TransferInv' /\ [Channel!Next]_(Channel!vars)
  <2>1. UNCHANGED <<sndVars, wire, users, rcvCurrent, rcvRetiring, rcvFlows>>
    BY <1>12 DEF ReceiverIgnore, Rcv!ReceiveIgnored, Rcv!epochVars
  <2> QED BY <1>a, <1>11, <2>1 DEF sndVars, users
<1>13. ASSUME NEW g \in Frames("finish"), ReceiverFinish(g)
       PROVE  TransferInv' /\ [Channel!Next]_(Channel!vars)
  <2> DEFINE f == rcvFlows[Flow]
             r == [f EXCEPT !.receive_final_next = g.final]
  <2>1. /\ UNCHANGED <<sndVars, wire, users, rcvCurrent, rcvRetiring>>
        /\ rcvFlows' = [rcvFlows EXCEPT ![Flow] = r]
    BY <1>13 DEF ReceiverFinish, Rcv!FinishReceiving, Rcv!epochVars
  <2>2. DOMAIN r = FlowFields /\ r.next_receive = f.next_receive
    BY <1>a DEF FlowFields
  <2>3. Flow \in DOMAIN rcvFlows' /\ rcvFlows'[Flow] = r
    BY <1>a, <2>1
  <2> HIDE DEF r
  <2> QED BY <1>a, <1>11, <2>1, <2>2, <2>3 DEF sndVars, users
<1>14. CASE ReceiverAcknowledge
  <2> DEFINE g == Ack(rcvCurrent, rcvFlows[Flow].next_receive - 1)
  <2>1. /\ wire' = wire \cup {g} /\ UNCHANGED <<sndVars, rcvVars, users>>
        /\ rcvFlows[Flow].next_receive > 0
    BY <1>14 DEF ReceiverAcknowledge
  <2>2. /\ g.kind = "ack" /\ g = Ack(rcvCurrent, Len(delivered) - 1) /\ Len(delivered) > 0
    BY <1>a, <2>1, FrameFields
  <2> HIDE DEF g
  <2>3. PICK F : F = {g}
    OBVIOUS
  <2>4. /\ wire' = wire \cup F
        /\ \A h \in F : h.kind \in {"data", "ack", "finish"}
        /\ \A h \in F : h.kind # "data"
        /\ \A h \in F : Len(delivered) > 0 /\ h = Ack(rcvCurrent, Len(delivered) - 1)
    BY <2>1, <2>2, <2>3
  <2>5. TransferInv'
    BY <2>1, <2>4, WireStep
  <2> QED BY <2>1, <2>5 DEF users, Channel!vars
<1>15. CASE ReceiverTransition
  <2>1. /\ UNCHANGED <<sndVars, wire, users, rcvFlows>>
        /\ \/ rcvRetiring' = rcvCurrent /\ rcvCurrent' = rcvCurrent + 1
           \/ rcvRetiring' = None /\ rcvCurrent' = rcvCurrent
    BY <1>15 DEF ReceiverTransition, Rcv!BeginTransition, Rcv!AdvanceEpoch, Rcv!CompleteTransition
  <2>2. /\ rcvCurrent' \in Nat /\ rcvCurrent <= rcvCurrent' /\ rcvRetiring' \in Nat \cup {None}
        /\ rcvRetiring' # None => rcvRetiring' <= rcvCurrent'
    BY <1>a, <2>1
  <2> QED BY <1>a, <1>11, <2>1, <2>2 DEF sndVars, users
<1>16. CASE UNCHANGED vars
  BY <1>a, <1>11, <1>16 DEF vars, sndVars, rcvVars, users
<1> QED BY <1>1, <1>2, <1>3, <1>4, <1>5, <1>7, <1>8, <1>9, <1>10, <1>12, <1>13, <1>14, <1>15, <1>16
    DEF Next

(* The acknowledgements that a receiver sent, however old, cover only what *)
(* was sent, in an epoch no earlier than the first transmission of what    *)
(* the sender still holds.                                                 *)
LEMMA InvHonest == TransferInv => HonestAckAccepted
<1> SUFFICES ASSUME TransferInv, SenderOpen, NEW a \in Frames("ack")
             PROVE  ~Snd!InvalidAcknowledgement(Flow, a.epoch, a.through)
  BY DEF HonestAckAccepted
<1>0. /\ SenderSound /\ ReceiverSound /\ WireSound /\ EpochsCovered
  BY DEF TransferInv
<1>1. Len(sent) \in Nat /\ Len(delivered) \in Nat /\ sndFlows[Flow].next_send = Len(sent)
  BY <1>0, TransferTyped DEF SenderSound
<1>2. a.through \in Nat /\ a.through < Len(delivered) /\ Len(delivered) <= Len(sent) /\ a.epoch \in Nat
  BY <1>0 DEF WireSound, ReceiverSound
<1>3. ~(a.through >= sndFlows[Flow].next_send)
  BY <1>1, <1>2
<1>4. ASSUME NEW i \in 1 .. Len(Queue), Queue[i].sequence <= a.through
      PROVE  ~(Queue[i].epoch > a.epoch)
  <2>1. Queue[i].epoch \in Nat /\ Queue[i].epoch <= a.epoch
    BY <1>0, <1>4, TransferTyped DEF EpochsCovered
  <2> QED BY <1>2, <2>1
<1> QED BY <1>3, <1>4 DEF Snd!InvalidAcknowledgement, Queue

(* For every payload, limit and number of epochs, and whatever the carriers
   lose, repeat, delay or reorder while either end moves between epochs: an
   acknowledgement of a correct receiver is never taken for an invalid one. *)
THEOREM HonestAcksAccepted == Spec => []HonestAckAccepted
<1>1. Init => TransferInv
  BY TransferInitial
<1>2. TransferInv /\ [Next]_vars => TransferInv'
  BY TransferStep
<1> QED BY <1>1, <1>2, InvHonest, PTL DEF Spec

(* Under the same conditions the two sessions implement the abstract channel:
   delivery is in order, without gap or duplicate, only what was delivered is
   confirmed, and an orderly close confirms everything. *)
THEOREM ImplementsChannel == Spec => ChannelSpec
<1>1. Init => TransferInv /\ Channel!Init
  BY TransferInitial
<1>2. TransferInv /\ [Next]_vars => TransferInv' /\ [Channel!Next]_(Channel!vars)
  BY TransferStep
<1> QED BY <1>1, <1>2, PTL DEF Spec, ChannelSpec, Channel!Spec

-----------------------------------------------------------------------------

(* A string that is continued: what was in it, and what was added.         *)
LEMMA Continued ==
  ASSUME NEW s \in Seq(Byte), NEW t \in Seq(Byte)
  PROVE  /\ s \o t \in Seq(Byte) /\ Len(s \o t) = Len(s) + Len(t)
         /\ Len(s) \in Nat /\ Len(t) \in Nat
         /\ \A i \in 1..Len(s) : (s \o t)[i] = s[i]
         /\ SubSeq(s \o t, Len(s) + 1, Len(s) + Len(t)) = t
<1>1. /\ s \o t \in Seq(Byte) /\ Len(s \o t) = Len(s) + Len(t)
      /\ Len(s) \in Nat /\ Len(t) \in Nat
      /\ \A i \in 1..Len(s) : (s \o t)[i] = s[i]
  OBVIOUS
<1>2. SubSeq(s \o t, Len(s) + 1, Len(s) + Len(t)) = t
  <2> DEFINE u == SubSeq(s \o t, Len(s) + 1, Len(s) + Len(t))
  <2>1. u \in Seq(Byte) /\ Len(u) = Len(t) /\ \A i \in 1..Len(t) : u[i] = t[i]
    BY <1>1
  <2> HIDE DEF u
  <2>2. u = t
    BY <2>1
  <2> QED BY <2>2 DEF u
<1> QED BY <1>1, <1>2

(* The elements of a byte string.                                          *)
LEMMA BytesAreNumbers ==
  ASSUME NEW s \in Seq(Byte)
  PROVE  /\ Len(s) \in Nat /\ \A i \in 1..Len(s) : s[i] \in Byte /\ s[i] \in Nat
         /\ s # << >> => 1 <= Len(s)
<1>1. Len(s) \in Nat /\ \A i \in 1..Len(s) : s[i] \in Byte
  OBVIOUS
<1>2. Byte \subseteq Nat
  BY DEF Byte
<1>3. s # << >> => 1 <= Len(s)
  OBVIOUS
<1> QED BY <1>1, <1>2, <1>3

(* The limits of an envelope.                                              *)
LEMMA LimitsTyped ==
  /\ MaxDatagramCredential \in Nat /\ MaxDatagramCredential <= 255 /\ MaxDatagramPayload \in Nat
  /\ MaxEnvelope \in Nat /\ MaxEnvelope = MaxDatagramPayload + 29 + MaxDatagramCredential
<1>1. MaxDatagramCredential \in Byte /\ MaxDatagramPayload \in Nat
  BY WireAssumption
<1> QED BY <1>1 DEF MaxEnvelope, Byte

(* A string that another begins with, its elements and its slices.         *)
Begins(s, u) ==
  s \in Seq(Byte) /\ u \in Seq(Byte) /\ Len(s) <= Len(u) /\ \A i \in 1..Len(s) : u[i] = s[i]
(* The form of it that a caller has.                                       *)
LEMMA BeginsAgain ==
  ASSUME NEW s, NEW t, NEW u, Begins(s, t), Begins(t, u)
  PROVE  Begins(s, u)
BY DEF Begins

(* A string begins what it is continued to.                                *)
LEMMA Extended ==
  ASSUME NEW s \in Seq(Byte), NEW t \in Seq(Byte), NEW u, u = s \o t
  PROVE  /\ u \in Seq(Byte) /\ Len(u) = Len(s) + Len(t) /\ Begins(s, u)
         /\ SubSeq(u, Len(s) + 1, Len(s) + Len(t)) = t
<1>1. /\ s \o t \in Seq(Byte) /\ Len(s \o t) = Len(s) + Len(t)
      /\ \A i \in 1..Len(s) : (s \o t)[i] = s[i]
      /\ SubSeq(s \o t, Len(s) + 1, Len(s) + Len(t)) = t
  BY Continued
<1>2. Len(s) <= Len(s) + Len(t)
  BY Continued
<1> QED BY ONLY <1>1, <1>2, u = s \o t, s \in Seq(Byte) DEF Begins

(* A slice of the beginning is a slice of the whole.                       *)
LEMMA SliceStays ==
  ASSUME NEW s, NEW u, Begins(s, u), NEW a \in Nat, NEW b \in Nat, 1 <= a, b <= Len(s)
  PROVE  SubSeq(u, a, b) = SubSeq(s, a, b)
<1> DEFINE v == SubSeq(u, a, b)
           w == SubSeq(s, a, b)
<1>1. /\ v \in Seq(Byte) /\ w \in Seq(Byte) /\ Len(v) = Len(w) /\ Len(v) \in Nat
      /\ \A i \in 1..Len(v) : v[i] = w[i]
  BY DEF Begins
<1> HIDE DEF v, w
<1>2. v = w
  BY <1>1
<1> QED BY <1>2 DEF v, w

(* An element of the beginning is an element of the whole.                 *)
LEMMA ElementStays ==
  ASSUME NEW s, NEW u, Begins(s, u), NEW i \in 1..Len(s)
  PROVE  u[i] = s[i]
BY DEF Begins

(* Two one after the other are a pair.                                     *)
LEMMA PairOf == ASSUME NEW a \in Byte, NEW b \in Byte PROVE <<a>> \o <<b>> = <<a, b>>
<1> DEFINE u == <<a>> \o <<b>>
           v == <<a, b>>
<1>1. <<a>> \in Seq(Byte) /\ <<b>> \in Seq(Byte) /\ Len(<<a>>) = 1 /\ Len(<<b>>) = 1
  OBVIOUS
<1>2. u \in Seq(Byte) /\ Len(u) = Len(<<a>>) + Len(<<b>>)
  BY <1>1, Extended
<1>3. u[1] = a /\ u[2] = b
  BY <1>1
<1>4. v \in Seq(Byte) /\ Len(v) = 2 /\ v[1] = a /\ v[2] = b
  OBVIOUS
<1>5. Len(u) = 2
  BY <1>1, <1>2
<1>6. \A i \in 1..2 : u[i] = v[i]
  BY <1>3, <1>4
<1> HIDE DEF u, v
<1>7. u = v
  BY <1>2, <1>4, <1>5, <1>6
<1> QED BY <1>7 DEF u, v

(* The numbers that are bytes.                                             *)
LEMMA SmallNumbers == \A n \in Nat : n \in Byte <=> n <= 255
BY DEF Byte

(* Two slices, one after the other.                                        *)
LEMMA SlicesJoin ==
  ASSUME NEW s \in Seq(Byte), NEW a \in Nat, NEW b \in Nat, NEW c \in Nat,
         1 <= a, a <= b + 1, b <= c, c <= Len(s)
  PROVE  SubSeq(s, a, b) \o SubSeq(s, b + 1, c) = SubSeq(s, a, c)
<1> DEFINE u == SubSeq(s, a, b) \o SubSeq(s, b + 1, c)
           v == SubSeq(s, a, c)
<1>1. /\ u \in Seq(Byte) /\ v \in Seq(Byte) /\ Len(u) = Len(v) /\ Len(u) \in Nat
      /\ \A i \in 1..Len(u) : u[i] = v[i]
  OBVIOUS
<1> HIDE DEF u, v
<1>2. u = v
  BY <1>1
<1> QED BY <1>2 DEF u, v

(* The slice of one byte, and the whole.                                   *)
LEMMA SliceOfOne ==
  ASSUME NEW s \in Seq(Byte), NEW i \in 1..Len(s)
  PROVE  <<s[i]>> = SubSeq(s, i, i) /\ SubSeq(s, 1, Len(s)) = s
OBVIOUS

-----------------------------------------------------------------------------
(* DecodeDatagram by its offsets: where the credential ends, where the     *)
(* address does.                                                           *)
ReadBefore(bytes) == IF bytes[1] = ClientToServer THEN 2 + bytes[2] ELSE 1
FamilyOf(bytes) == bytes[ReadBefore(bytes) + 9]
HeadEnd(bytes) == ReadBefore(bytes) + 9 + AddressWidth(FamilyOf(bytes)) + 2
Decodes(bytes) ==
  /\ Len(bytes) <= MaxEnvelope /\ bytes # << >>
  /\ bytes[1] = ClientToServer => Len(bytes) >= 2 /\ bytes[2] \in 1..MaxDatagramCredential
  /\ Len(bytes) >= ReadBefore(bytes) + 9
  /\ FamilyOf(bytes) \in {4, 6} /\ Len(bytes) >= HeadEnd(bytes)
  /\ NonZero(SubSeq(bytes, ReadBefore(bytes) + 1, ReadBefore(bytes) + 8))
  /\ Len(bytes) - HeadEnd(bytes) <= MaxDatagramPayload /\ bytes[1] \in {1, 2}
Decoded(bytes) ==
  [direction |-> bytes[1],
   credential |-> IF bytes[1] = ClientToServer THEN SubSeq(bytes, 3, ReadBefore(bytes)) ELSE << >>,
   session |-> SubSeq(bytes, ReadBefore(bytes) + 1, ReadBefore(bytes) + 8),
   family |-> FamilyOf(bytes),
   ip |-> SubSeq(bytes, ReadBefore(bytes) + 10, HeadEnd(bytes) - 2),
   port |-> SubSeq(bytes, HeadEnd(bytes) - 1, HeadEnd(bytes)),
   payload |-> SubSeq(bytes, HeadEnd(bytes) + 1, Len(bytes))]

(* The reader of the code is that one.                                     *)
LEMMA DecodeByOffsets ==
  ASSUME NEW bytes \in Seq(Byte)
  PROVE  DecodeDatagram(bytes) = IF Decodes(bytes) THEN Decoded(bytes) ELSE Unset
<1> DEFINE client == bytes[1] = ClientToServer
           credential == IF client THEN bytes[2] ELSE 0
           at == IF client THEN 2 + credential ELSE 1
           family == bytes[at + 9]
           end == at + 9 + AddressWidth(family) + 2
           Slice(from, length) == SubSeq(bytes, from + 1, from + length)
           d == [direction |-> bytes[1], credential |-> IF client THEN Slice(2, credential) ELSE << >>,
                 session |-> Slice(at, 8), family |-> family, ip |-> Slice(at + 9, AddressWidth(family)),
                 port |-> Slice(end - 2, 2), payload |-> Slice(end, Len(bytes) - end)]
<1>1. at = ReadBefore(bytes) /\ family = FamilyOf(bytes) /\ end = HeadEnd(bytes)
  BY DEF ReadBefore, FamilyOf, HeadEnd
<1>2. DecodeDatagram(bytes) =
        IF \/ Len(bytes) > MaxEnvelope \/ bytes = << >>
           \/ client /\ (Len(bytes) < 2 \/ credential \notin 1..MaxDatagramCredential)
        THEN Unset
        ELSE IF Len(bytes) < at + 9 THEN Unset
        ELSE IF family \notin {4, 6} \/ Len(bytes) < end \/ ~NonZero(Slice(at, 8)) THEN Unset
        ELSE IF Len(bytes) - end > MaxDatagramPayload \/ bytes[1] \notin {1, 2} THEN Unset
        ELSE d
  BY DEF DecodeDatagram
<1>3. /\ Len(bytes) \in Nat /\ \A i \in 1..Len(bytes) : bytes[i] \in Byte /\ bytes[i] \in Nat
      /\ MaxEnvelope \in Nat /\ MaxDatagramPayload \in Nat /\ (bytes # << >> => 1 <= Len(bytes))
  BY BytesAreNumbers, LimitsTyped
<1>4. CASE bytes = << >>
  BY <1>2, <1>4 DEF Decodes
<1>5. CASE bytes # << >> /\ client /\ (Len(bytes) < 2 \/ bytes[2] \notin 1..MaxDatagramCredential)
  <2>1. DecodeDatagram(bytes) = Unset
    BY <1>2, <1>5
  <2>2. ~Decodes(bytes)
    BY <1>3, <1>5 DEF Decodes
  <2> QED BY <2>1, <2>2
<1>6. CASE bytes # << >> /\ ~(client /\ (Len(bytes) < 2 \/ bytes[2] \notin 1..MaxDatagramCredential))
  <2>1. at \in Nat /\ (client => credential = bytes[2] /\ at = 2 + credential) /\ credential \in Nat
    BY <1>3, <1>6 DEF Byte
  <2>2. AddressWidth(family) \in Nat /\ end \in Nat
    BY <2>1, SMTT(30) DEF AddressWidth
  <2> HIDE DEF at, end, family, credential, client
  <2>3. Decodes(bytes) <=>
          /\ Len(bytes) <= MaxEnvelope /\ Len(bytes) >= at + 9 /\ family \in {4, 6}
          /\ Len(bytes) >= end /\ NonZero(Slice(at, 8))
          /\ Len(bytes) - end <= MaxDatagramPayload /\ bytes[1] \in {1, 2}
    BY <1>1, <1>3, <1>6, <2>1, <2>2, SMTT(30) DEF Decodes, client
  <2>4. DecodeDatagram(bytes) = IF Decodes(bytes) THEN d ELSE Unset
    <3> HIDE DEF d, Slice
    <3> QED BY <1>2, <1>3, <1>6, <2>1, <2>2, <2>3, SMTT(30)
  <2>5. d = Decoded(bytes)
    <3>1. Slice(2, credential) = SubSeq(bytes, 3, 2 + credential)
      BY <2>1
    <3>2. /\ Slice(at + 9, AddressWidth(family)) = SubSeq(bytes, at + 10, end - 2)
      <4>1. at + 9 + 1 = at + 10 /\ at + 9 + AddressWidth(family) = end - 2
        BY <2>1, <2>2 DEF end
      <4> QED BY <4>1
    <3>3. Slice(end - 2, 2) = SubSeq(bytes, end - 1, end)
      <4>1. end - 2 + 1 = end - 1 /\ end - 2 + 2 = end
        BY <2>2
      <4> QED BY <4>1
    <3>4. Slice(end, Len(bytes) - end) = SubSeq(bytes, end + 1, Len(bytes))
      <4>1. end + (Len(bytes) - end) = Len(bytes)
        BY <1>3, <2>2
      <4> QED BY <4>1
    <3>5. (IF client THEN Slice(2, credential) ELSE << >>) =
            IF client THEN SubSeq(bytes, 3, at) ELSE << >>
      BY <2>1, <3>1
    <3> QED BY <1>1, <3>2, <3>3, <3>4, <3>5 DEF Decoded, client
  <2> QED BY <2>4, <2>5
<1> QED BY <1>4, <1>5, <1>6

(* What is read of anything is within the limits and is all of it.         *)
LEMMA DecodedIsAll ==
  ASSUME NEW bytes \in Seq(Byte), Decodes(bytes)
  PROVE  EncodableDatagram(Decoded(bytes)) /\ EncodeDatagram(Decoded(bytes)) = bytes
<1> DEFINE at == ReadBefore(bytes)
           end == HeadEnd(bytes)
           d == Decoded(bytes)
           client == bytes[1] = ClientToServer
<1>1. Len(bytes) \in Nat /\ 1 <= Len(bytes) /\ \A i \in 1..Len(bytes) : bytes[i] \in Nat
  BY BytesAreNumbers DEF Decodes
<1>2. client => /\ Len(bytes) >= 2 /\ bytes[2] \in 1..MaxDatagramCredential /\ bytes[2] \in Nat
                /\ at = 2 + bytes[2]
  BY <1>1 DEF Decodes, ReadBefore
<1>3. at \in Nat /\ 1 <= at /\ (~client => at = 1)
  BY <1>1, <1>2 DEF ReadBefore
<1>4. end \in Nat /\ at + 11 <= end - 2 /\ end <= Len(bytes) /\ at + 9 <= Len(bytes)
      /\ Len(bytes) - end <= MaxDatagramPayload
  BY <1>1, <1>3, SMTT(30) DEF Decodes, HeadEnd, AddressWidth
<1>5. /\ d.direction = bytes[1] /\ d.session = SubSeq(bytes, at + 1, at + 8)
      /\ d.family = bytes[at + 9] /\ d.ip = SubSeq(bytes, at + 10, end - 2)
      /\ d.port = SubSeq(bytes, end - 1, end) /\ d.payload = SubSeq(bytes, end + 1, Len(bytes))
      /\ d.credential = IF client THEN SubSeq(bytes, 3, at) ELSE << >>
  BY DEF Decoded, FamilyOf
<1> HIDE DEF at, end, d
<1>6. client => Len(d.credential) = bytes[2]
  <2> SUFFICES ASSUME client PROVE Len(SubSeq(bytes, 3, at)) = bytes[2]
    BY <1>5
  <2>1. at = 2 + bytes[2] /\ bytes[2] \in Nat /\ at <= Len(bytes) /\ at \in Nat
    BY <1>1, <1>2, <1>3, <1>4
  <2> QED BY <1>1, <2>1
<1>7. EncodableDatagram(d)
  <2>1. client => Len(d.credential) \in 1..MaxDatagramCredential
    BY <1>2, <1>6
  <2>2. Len(d.payload) <= MaxDatagramPayload
    BY <1>1, <1>4, <1>5, LimitsTyped
  <2> QED BY <1>5, <2>1, <2>2 DEF EncodableDatagram
<1>8. <<d.direction>> \o (IF client THEN <<Len(d.credential)>> \o d.credential ELSE << >>)
        = SubSeq(bytes, 1, at)
  <2>1. <<d.direction>> = SubSeq(bytes, 1, 1)
    BY <1>1, <1>5, SliceOfOne
  <2>2. CASE client
    <3>1. <<Len(d.credential)>> = SubSeq(bytes, 2, 2) /\ d.credential = SubSeq(bytes, 3, at)
      BY <1>1, <1>2, <1>5, <1>6, <2>2, SliceOfOne
    <3>2. SubSeq(bytes, 2, 2) \o SubSeq(bytes, 3, at) = SubSeq(bytes, 2, at)
      BY <1>1, <1>2, <1>3, <1>4, <2>2, SlicesJoin
    <3>3. SubSeq(bytes, 1, 1) \o SubSeq(bytes, 2, at) = SubSeq(bytes, 1, at)
      BY <1>1, <1>2, <1>3, <1>4, <2>2, SlicesJoin
    <3> QED BY <2>1, <2>2, <3>1, <3>2, <3>3
  <2>3. CASE ~client
    BY <1>1, <1>3, <2>1, <2>3
  <2> QED BY <2>2, <2>3
<1>9. SubSeq(bytes, 1, at) \o d.session = SubSeq(bytes, 1, at + 8)
  BY <1>1, <1>3, <1>4, <1>5, SlicesJoin
<1>10. SubSeq(bytes, 1, at + 8) \o <<d.family>> = SubSeq(bytes, 1, at + 9)
  <2>1. <<d.family>> = SubSeq(bytes, at + 9, at + 9)
    BY <1>1, <1>3, <1>4, <1>5, SliceOfOne
  <2>2. SubSeq(bytes, 1, at + 8) \o SubSeq(bytes, at + 8 + 1, at + 9) = SubSeq(bytes, 1, at + 9)
    BY <1>1, <1>3, <1>4, SlicesJoin
  <2>3. at + 8 + 1 = at + 9
    BY <1>3
  <2> QED BY <2>1, <2>2, <2>3
<1>11. SubSeq(bytes, 1, at + 9) \o d.ip = SubSeq(bytes, 1, end - 2)
  <2>1. SubSeq(bytes, 1, at + 9) \o SubSeq(bytes, at + 9 + 1, end - 2) = SubSeq(bytes, 1, end - 2)
    BY <1>1, <1>3, <1>4, SlicesJoin
  <2>2. at + 9 + 1 = at + 10
    BY <1>3
  <2> QED BY <1>5, <2>1, <2>2
<1>12. SubSeq(bytes, 1, end - 2) \o d.port = SubSeq(bytes, 1, end)
  <2>1. SubSeq(bytes, 1, end - 2) \o SubSeq(bytes, end - 2 + 1, end) = SubSeq(bytes, 1, end)
    BY <1>1, <1>3, <1>4, SlicesJoin
  <2>2. end - 2 + 1 = end - 1
    BY <1>4
  <2> QED BY <1>5, <2>1, <2>2
<1>13. SubSeq(bytes, 1, end) \o d.payload = bytes
  <2>1. SubSeq(bytes, 1, end) \o SubSeq(bytes, end + 1, Len(bytes)) = SubSeq(bytes, 1, Len(bytes))
    <3>1. /\ 1 \in Nat /\ 1 <= 1 /\ 1 <= end + 1 /\ end <= Len(bytes) /\ Len(bytes) <= Len(bytes)
          /\ end \in Nat /\ Len(bytes) \in Nat
      BY <1>1, <1>4
    <3> QED BY <3>1, SlicesJoin, Zenon
  <2>2. SubSeq(bytes, 1, Len(bytes)) = bytes
    BY <1>1, SliceOfOne
  <2> QED BY <1>5, <2>1, <2>2
<1>14. EncodeDatagram(d) = <<d.direction>>
         \o (IF client THEN <<Len(d.credential)>> \o d.credential ELSE << >>)
         \o d.session \o <<d.family>> \o d.ip \o d.port \o d.payload
  BY <1>5 DEF EncodeDatagram
<1>15. EncodeDatagram(d) = bytes
  BY <1>8, <1>9, <1>10, <1>11, <1>12, <1>13, <1>14
<1> QED BY <1>7, <1>15 DEF d

-----------------------------------------------------------------------------
(* A datagram that may be sent reads as itself, at the largest credential  *)
(* and payload too.                                                        *)
LEMMA DatagramsReadBack ==
  ASSUME NEW d \in Datagrams, EncodableDatagram(d)
  PROVE  /\ EncodeDatagram(d) \in Seq(Byte)
         /\ Decodes(EncodeDatagram(d)) /\ Decoded(EncodeDatagram(d)) = d
<1> DEFINE client == d.direction = ClientToServer
           p1 == <<d.direction>>
           x == IF client THEN <<Len(d.credential)>> \o d.credential ELSE << >>
           p2 == p1 \o x
           p3 == p2 \o d.session
           p4 == p3 \o <<d.family>>
           p5 == p4 \o d.ip
           p6 == p5 \o d.port
           bytes == p6 \o d.payload
           at == IF client THEN 2 + Len(d.credential) ELSE 1
           w == AddressWidth(d.family)
<1>0. bytes = EncodeDatagram(d)
  BY DEF EncodeDatagram
<1>1. WellFormedDatagram(d)
  BY WireAssumption
<1>2. /\ d.direction \in {1, 2} /\ d.family \in {4, 6}
      /\ d.session \in Seq(Byte) /\ d.ip \in Seq(Byte) /\ d.port \in Seq(Byte) /\ d.payload \in Seq(Byte)
      /\ d.credential \in Seq(Byte)
      /\ Len(d.session) = 8 /\ Len(d.port) = 2 /\ (~client => d.credential = << >>)
      /\ Len(d.ip) = w /\ w \in {4, 16}
      /\ \E i \in 1..8 : d.session[i] # 0
  BY <1>1 DEF WellFormedDatagram, AddressWidth, ClientToServer
<1>3. /\ client => Len(d.credential) \in 1..MaxDatagramCredential
      /\ Len(d.payload) <= MaxDatagramPayload
  BY DEF EncodableDatagram
<1>4. 1 \in Byte /\ 2 \in Byte /\ 4 \in Byte /\ 6 \in Byte
  BY DEF Byte
<1> DEFINE c == Len(d.credential)
           n == Len(d.payload)
<1>5. client => c \in Byte /\ c \in Nat
  <2>1. client => c \in Nat /\ c <= MaxDatagramCredential
    BY <1>3, LimitsTyped
  <2> HIDE DEF c
  <2> QED BY <2>1, LimitsTyped, SmallNumbers
<1>6. /\ at \in Nat /\ 1 <= at /\ (client => at = 2 + c) /\ (~client => at = 1)
      /\ w \in Nat /\ n \in Nat
  BY <1>2, <1>5, SMTT(30)
<1> HIDE DEF p1, x, p2, p3, p4, p5, p6, bytes, at, w, c, n
<1>7. p1 \in Seq(Byte) /\ Len(p1) = 1 /\ p1[1] = d.direction
  BY <1>2, <1>4, SMTT(30) DEF p1
<1>8. /\ client => /\ p2 \in Seq(Byte) /\ Len(p2) = at /\ p2[1] = d.direction /\ p2[2] = c
                   /\ SubSeq(p2, 3, at) = d.credential
      /\ ~client => p2 = p1 /\ at = 1
  <2>1. ASSUME client
        PROVE  /\ p2 \in Seq(Byte) /\ Len(p2) = at /\ p2[1] = d.direction /\ p2[2] = c
               /\ SubSeq(p2, 3, at) = d.credential
    <3> DEFINE two == <<d.direction, c>>
    <3>1. two \in Seq(Byte) /\ Len(two) = 2 /\ two[1] = d.direction /\ two[2] = c
      BY <1>2, <1>4, <1>5, <2>1
    <3>2. p2 = two \o d.credential
      <4>1. p2 = <<d.direction>> \o (<<c>> \o d.credential)
        BY <2>1 DEF p1, p2, x, c
      <4>2. <<d.direction>> \o (<<c>> \o d.credential) = (<<d.direction>> \o <<c>>) \o d.credential
        <5>1. <<d.direction>> \in Seq(Byte) /\ <<c>> \in Seq(Byte) /\ d.credential \in Seq(Byte)
          BY <1>2, <1>4, <1>5, <2>1
        <5> QED BY <5>1, ConcatAssociative
      <4>3. <<d.direction>> \o <<c>> = two
        BY <1>2, <1>4, <1>5, <2>1, PairOf DEF two
      <4> QED BY <4>1, <4>2, <4>3
    <3> HIDE DEF two
    <3>3. c \in Nat /\ Len(d.credential) = c /\ d.credential \in Seq(Byte) /\ at = 2 + c
      BY <1>2, <1>5, <1>6, <2>1 DEF c
    <3>4. /\ p2 \in Seq(Byte) /\ Len(p2) = Len(two) + Len(d.credential) /\ Begins(two, p2)
          /\ SubSeq(p2, Len(two) + 1, Len(two) + Len(d.credential)) = d.credential
      <4>1. two \in Seq(Byte) /\ d.credential \in Seq(Byte)
        BY <3>1, <3>3
      <4> QED BY <3>2, <4>1, Extended
    <3>5. 2 + 1 = 3 /\ 1 \in 1..Len(two) /\ 2 \in 1..Len(two)
      BY <3>1
    <3>6. Len(p2) = at /\ SubSeq(p2, 3, at) = d.credential
      BY <3>1, <3>3, <3>4, <3>5, Zenon
    <3>7. p2[1] = two[1] /\ p2[2] = two[2]
      BY <3>4, <3>5, ElementStays
    <3> QED BY <3>1, <3>4, <3>6, <3>7
  <2>2. ASSUME ~client PROVE p2 = p1 /\ at = 1
    <3>1. x = << >>
      BY <2>2 DEF x
    <3>2. p1 \o << >> = p1
      BY <1>7
    <3> QED BY <1>6, <2>2, <3>1, <3>2 DEF p2
  <2> QED BY <2>1, <2>2
<1>9. p2 \in Seq(Byte) /\ Len(p2) = at /\ p2[1] = d.direction
  BY <1>7, <1>8
<1>10. /\ p3 \in Seq(Byte) /\ Len(p3) = at + 8 /\ Begins(p2, p3)
       /\ SubSeq(p3, at + 1, at + 8) = d.session
  <2>1. p3 = p2 \o d.session /\ p2 \in Seq(Byte) /\ d.session \in Seq(Byte)
    BY <1>2, <1>9 DEF p3
  <2>2. /\ p3 \in Seq(Byte) /\ Len(p3) = Len(p2) + Len(d.session) /\ Begins(p2, p3)
        /\ SubSeq(p3, Len(p2) + 1, Len(p2) + Len(d.session)) = d.session
    BY <2>1, Extended
  <2>3. Len(p2) = at /\ Len(d.session) = 8
    BY <1>2, <1>9 DEF n
  <2> QED BY <2>2, <2>3, Zenon
<1>11. p4 \in Seq(Byte) /\ Len(p4) = at + 9 /\ Begins(p3, p4) /\ p4[at + 9] = d.family
  <2> DEFINE l == <<d.family>>
  <2>1. l \in Seq(Byte) /\ Len(l) = 1 /\ l[1] = d.family
    BY <1>2, <1>4
  <2>2. p4 = p3 \o l
    BY DEF p4
  <2> HIDE DEF l
  <2>3. p3 \in Seq(Byte) /\ l \in Seq(Byte)
    BY <1>10, <2>1
  <2>4. /\ p4 \in Seq(Byte) /\ Len(p4) = Len(p3) + Len(l) /\ Begins(p3, p4)
        /\ SubSeq(p4, Len(p3) + 1, Len(p3) + Len(l)) = l
    BY <2>2, <2>3, Extended
  <2>5. Len(p3) + 1 = at + 9 /\ Len(p3) + Len(l) = at + 9
    BY <1>6, <1>10, <2>1
  <2>6. SubSeq(p4, at + 9, at + 9)[1] = p4[at + 9]
    <3>1. at + 9 \in 1..Len(p4)
      BY <1>6, <2>4, <2>5
    <3> QED BY <2>4, <3>1
  <2>7. SubSeq(p4, at + 9, at + 9) = l /\ Len(p4) = at + 9
    BY <2>4, <2>5, Zenon
  <2>8. p4[at + 9] = d.family
    BY <2>1, <2>6, <2>7, Zenon
  <2> QED BY <2>4, <2>7, <2>8
<1>12. /\ p5 \in Seq(Byte) /\ Len(p5) = at + 9 + w /\ Begins(p4, p5)
       /\ SubSeq(p5, at + 9 + 1, at + 9 + w) = d.ip
  <2>1. p5 = p4 \o d.ip /\ p4 \in Seq(Byte) /\ d.ip \in Seq(Byte)
    BY <1>2, <1>11 DEF p5
  <2>2. /\ p5 \in Seq(Byte) /\ Len(p5) = Len(p4) + Len(d.ip) /\ Begins(p4, p5)
        /\ SubSeq(p5, Len(p4) + 1, Len(p4) + Len(d.ip)) = d.ip
    BY <2>1, Extended
  <2>3. Len(p4) = at + 9 /\ Len(d.ip) = w
    BY <1>2, <1>11 DEF n
  <2> QED BY <2>2, <2>3, Zenon
<1>13. /\ p6 \in Seq(Byte) /\ Len(p6) = at + 9 + w + 2 /\ Begins(p5, p6)
       /\ SubSeq(p6, at + 9 + w + 1, at + 9 + w + 2) = d.port
  <2>1. p6 = p5 \o d.port /\ p5 \in Seq(Byte) /\ d.port \in Seq(Byte)
    BY <1>2, <1>12 DEF p6
  <2>2. /\ p6 \in Seq(Byte) /\ Len(p6) = Len(p5) + Len(d.port) /\ Begins(p5, p6)
        /\ SubSeq(p6, Len(p5) + 1, Len(p5) + Len(d.port)) = d.port
    BY <2>1, Extended
  <2>3. Len(p5) = at + 9 + w /\ Len(d.port) = 2
    BY <1>2, <1>12 DEF n
  <2> QED BY <2>2, <2>3, Zenon
<1>14. /\ bytes \in Seq(Byte) /\ Len(bytes) = at + 9 + w + 2 + n /\ Begins(p6, bytes)
       /\ SubSeq(bytes, at + 9 + w + 2 + 1, at + 9 + w + 2 + n) = d.payload
  <2>1. bytes = p6 \o d.payload /\ p6 \in Seq(Byte) /\ d.payload \in Seq(Byte)
    BY <1>2, <1>13 DEF bytes
  <2>2. /\ bytes \in Seq(Byte) /\ Len(bytes) = Len(p6) + Len(d.payload) /\ Begins(p6, bytes)
        /\ SubSeq(bytes, Len(p6) + 1, Len(p6) + Len(d.payload)) = d.payload
    BY <2>1, Extended
  <2>3. Len(p6) = at + 9 + w + 2 /\ Len(d.payload) = n
    BY <1>2, <1>13 DEF n
  <2> QED BY <2>2, <2>3, Zenon
<1>15. Begins(p5, bytes) /\ Begins(p4, bytes) /\ Begins(p3, bytes) /\ Begins(p2, bytes)
  BY <1>10, <1>11, <1>12, <1>13, <1>14, BeginsAgain
<1>16. bytes[1] = d.direction /\ (client => bytes[2] = c) /\ bytes[at + 9] = d.family
  <2>1. 1 \in 1..Len(p2) /\ (client => 2 \in 1..Len(p2)) /\ at + 9 \in 1..Len(p4)
    BY <1>5, <1>6, <1>9, <1>11
  <2>2. bytes[1] = p2[1] /\ (client => bytes[2] = p2[2])
    BY <1>15, <2>1, ElementStays
  <2>3. bytes[at + 9] = p4[at + 9]
    BY <1>15, <2>1, ElementStays
  <2> QED BY <1>8, <1>9, <1>11, <2>2, <2>3
<1>17. ReadBefore(bytes) = at /\ FamilyOf(bytes) = d.family /\ HeadEnd(bytes) = at + 9 + w + 2
  <2>1. ReadBefore(bytes) = at
    BY <1>6, <1>16 DEF ReadBefore
  <2>2. FamilyOf(bytes) = d.family
    BY <1>16, <2>1 DEF FamilyOf
  <2> QED BY <2>1, <2>2 DEF HeadEnd, w
<1>18. /\ client => SubSeq(bytes, 3, at) = d.credential
       /\ SubSeq(bytes, at + 1, at + 8) = d.session
       /\ SubSeq(bytes, at + 9 + 1, at + 9 + w) = d.ip
       /\ SubSeq(bytes, at + 9 + w + 1, at + 9 + w + 2) = d.port
  <2>1. SubSeq(bytes, 3, at) = SubSeq(p2, 3, at)
    <3>1. 3 \in Nat /\ at \in Nat /\ 1 <= 3 /\ at <= Len(p2)
      BY <1>6, <1>9
    <3> QED BY <1>15, <3>1, SliceStays
  <2>2. SubSeq(bytes, at + 1, at + 8) = SubSeq(p3, at + 1, at + 8)
    <3>1. at + 1 \in Nat /\ at + 8 \in Nat /\ 1 <= at + 1 /\ at + 8 <= Len(p3)
      BY <1>6, <1>10
    <3> QED BY <1>15, <3>1, SliceStays, ZenonT(30)
  <2>3. SubSeq(bytes, at + 9 + 1, at + 9 + w) = SubSeq(p5, at + 9 + 1, at + 9 + w)
    <3>1. at + 9 + 1 \in Nat /\ at + 9 + w \in Nat /\ 1 <= at + 9 + 1 /\ at + 9 + w <= Len(p5)
      BY <1>6, <1>12
    <3> QED BY <1>15, <3>1, SliceStays, ZenonT(30)
  <2>4. SubSeq(bytes, at + 9 + w + 1, at + 9 + w + 2) = SubSeq(p6, at + 9 + w + 1, at + 9 + w + 2)
    <3>1. /\ at + 9 + w + 1 \in Nat /\ at + 9 + w + 2 \in Nat /\ 1 <= at + 9 + w + 1
          /\ at + 9 + w + 2 <= Len(p6)
      BY <1>6, <1>13
    <3> QED BY <1>14, <3>1, SliceStays, ZenonT(30)
  <2> QED BY <1>8, <1>10, <1>12, <1>13, <2>1, <2>2, <2>3, <2>4
<1> DEFINE len == Len(bytes)
<1>19. Decodes(bytes)
  <2>0. len = at + 9 + w + 2 + n /\ n <= MaxDatagramPayload
    BY <1>3, <1>14 DEF n
  <2>1. w <= 16 /\ at <= 2 + MaxDatagramCredential /\ 4 <= w
    <3>1. client => c <= MaxDatagramCredential /\ c \in Nat
      BY <1>3, LimitsTyped DEF c
    <3> QED BY <1>2, <1>6, <3>1, LimitsTyped, SMTT(30)
  <2> HIDE DEF len
  <2>2. len <= MaxEnvelope
    BY <1>6, <2>0, <2>1, LimitsTyped
  <2>3. NonZero(SubSeq(bytes, at + 1, at + 8))
    <3>1. DOMAIN d.session = 1..8
      BY <1>2
    <3> QED BY <1>2, <1>18, <3>1 DEF NonZero
  <2>4. len >= 2 /\ len >= at + 9 /\ len >= at + 9 + w + 2 /\ len - (at + 9 + w + 2) <= MaxDatagramPayload
    BY <1>6, <2>0, LimitsTyped
  <2>5. bytes[1] = ClientToServer => bytes[2] \in 1..MaxDatagramCredential
    BY <1>3, <1>16 DEF c
  <2>6. bytes # << >>
    BY <2>4 DEF len
  <2> QED BY <1>2, <1>16, <1>17, <2>2, <2>3, <2>4, <2>5, <2>6 DEF Decodes, len
<1>20. Decoded(bytes) = d
  <2>1. (IF bytes[1] = ClientToServer THEN SubSeq(bytes, 3, at) ELSE << >>) = d.credential
    BY <1>2, <1>16, <1>18
  <2>2. Decoded(bytes) =
          [direction |-> d.direction, credential |-> d.credential, session |-> d.session,
           family |-> d.family, ip |-> d.ip, port |-> d.port, payload |-> d.payload]
    <3> DEFINE r == ReadBefore(bytes)
               f == FamilyOf(bytes)
               h == HeadEnd(bytes)
               given == IF bytes[1] = ClientToServer THEN SubSeq(bytes, 3, r) ELSE << >>
    <3>1. Decoded(bytes) =
            [direction |-> bytes[1], credential |-> given, session |-> SubSeq(bytes, r + 1, r + 8),
             family |-> f, ip |-> SubSeq(bytes, r + 10, h - 2),
             port |-> SubSeq(bytes, h - 1, h), payload |-> SubSeq(bytes, h + 1, Len(bytes))]
      BY DEF Decoded
    <3>2. r = at /\ f = d.family /\ h = at + 9 + w + 2
      BY <1>17
    <3> HIDE DEF r, f, h
    <3>3. /\ SubSeq(bytes, r + 1, r + 8) = d.session /\ SubSeq(bytes, r + 10, h - 2) = d.ip
          /\ SubSeq(bytes, h - 1, h) = d.port /\ SubSeq(bytes, h + 1, Len(bytes)) = d.payload
          /\ given = d.credential
      <4>1. h - 2 = at + 9 + w /\ h - 1 = at + 9 + w + 1 /\ r + 10 = at + 9 + 1
        BY <1>6, <3>2
      <4>2. SubSeq(bytes, r + 1, r + 8) = d.session
        BY <1>18, <3>2, Zenon
      <4>3. SubSeq(bytes, r + 10, h - 2) = d.ip
        BY <1>18, <4>1, Zenon
      <4>4. SubSeq(bytes, h - 1, h) = d.port
        BY <1>18, <3>2, <4>1, Zenon
      <4>5. SubSeq(bytes, h + 1, Len(bytes)) = d.payload
        BY <1>14, <3>2, Zenon
      <4>6. given = d.credential
        BY <2>1, <3>2, Zenon
      <4> QED BY <4>2, <4>3, <4>4, <4>5, <4>6
    <3> HIDE DEF given
    <3> QED BY <1>16, <3>1, <3>2, <3>3, Zenon
  <2>3. d = [direction |-> d.direction, credential |-> d.credential, session |-> d.session,
             family |-> d.family, ip |-> d.ip, port |-> d.port, payload |-> d.payload]
    BY <1>1 DEF WellFormedDatagram
  <2> QED BY <2>2, <2>3
<1> QED BY <1>0, <1>14, <1>19, <1>20

(* The two bytes of a small number give it back.                           *)
LEMMA NumberOfTwoBytes ==
  ASSUME NEW n \in Nat, n <= 65535
  PROVE  /\ BigEndian(n, 2) \in Seq(Byte) /\ Len(BigEndian(n, 2)) = 2
         /\ Number(BigEndian(n, 2)) = n
<1> DEFINE high == (n \div 256) % 256
           low == n % 256
           b == BigEndian(n, 2)
<1>1. n \div 256 \in Nat /\ n \div 256 <= 255 /\ n \div 1 = n
  OBVIOUS
<1>2. high = n \div 256 /\ high \in Byte /\ low \in Byte
  BY <1>1 DEF Byte
<1>3. n = 256 * high + low
  BY <1>1, <1>2
<1>4. b = [i \in 1..2 |-> (n \div <<1, 256, 65536, 16777216>>[2 - i + 1]) % 256]
  BY DEF BigEndian
<1>5. b[1] = high /\ b[2] = low
  BY <1>1, <1>4
<1>6. b \in Seq(Byte) /\ Len(b) = 2
  <2>1. DOMAIN b = 1..2 /\ \A i \in 1..2 : b[i] \in Byte
    BY <1>2, <1>4, <1>5
  <2>2. b = [i \in 1..2 |-> b[i]]
    BY <1>4
  <2> HIDE DEF b
  <2> QED BY <2>1, <2>2
<1>7. Number(b) = n
  <2> HIDE DEF b, high, low
  <2> QED BY <1>3, <1>5 DEF Number
<1> QED BY <1>6, <1>7

(* The end of a string is a suffix of it.                                  *)
LEMMA EndIsSuffix ==
  ASSUME NEW s \in Seq(Byte), NEW k \in Nat, k <= Len(s)
  PROVE  IsSuffix(SubSeq(s, k + 1, Len(s)), s)
<1> DEFINE t == SubSeq(s, k + 1, Len(s))
           n == Len(s)
<1>1. n \in Nat /\ t \in Seq(Byte) /\ Len(t) = n - k /\ \A i \in 1..n - k : t[i] = s[k + i]
  OBVIOUS
<1>2. /\ Reverse(t) = [i \in 1..Len(t) |-> t[(Len(t) - i) + 1]]
      /\ Reverse(s) = [i \in 1..Len(s) |-> s[(Len(s) - i) + 1]]
  BY DEF Reverse
<1> HIDE DEF t
<1>3. Reverse(s) \in Seq(Byte) /\ Len(Reverse(s)) = n /\ \A i \in 1..n : Reverse(s)[i] = s[(n - i) + 1]
  BY <1>1, <1>2
<1>4. /\ Reverse(t) \in Seq(Byte) /\ Len(Reverse(t)) = n - k
      /\ \A i \in 1..n - k : Reverse(t)[i] = t[(n - k - i) + 1]
  BY <1>1, <1>2
<1>5. \A i \in 1..n - k : Reverse(t)[i] = Reverse(s)[i]
  <2> SUFFICES ASSUME NEW i \in 1..n - k PROVE Reverse(t)[i] = Reverse(s)[i]
    OBVIOUS
  <2>1. Reverse(t)[i] = t[(n - k - i) + 1] /\ Reverse(s)[i] = s[(n - i) + 1]
    BY <1>1, <1>3, <1>4
  <2>2. (n - k - i) + 1 \in 1..n - k /\ k + ((n - k - i) + 1) = (n - i) + 1
    BY <1>1
  <2> QED BY <1>1, <2>1, <2>2
<1>6. IsPrefix(Reverse(t), Reverse(s))
  <2> DEFINE a == Reverse(t)
             b == Reverse(s)
  <2>1. a \in Seq(Byte) /\ b \in Seq(Byte) /\ Len(a) <= Len(b) /\ \A i \in 1..Len(a) : a[i] = b[i]
    BY <1>1, <1>3, <1>4, <1>5
  <2> HIDE DEF a, b
  <2>2. Begins(a, b)
    BY <2>1 DEF Begins
  <2>3. SubSeq(b, 1, Len(a)) = SubSeq(a, 1, Len(a))
    <3>1. 1 \in Nat /\ Len(a) \in Nat /\ 1 <= 1 /\ Len(a) <= Len(a)
      BY <2>1
    <3> QED BY <2>2, <3>1, SliceStays
  <2>4. IsPrefix(a, b)
    BY <2>1, <2>3 DEF IsPrefix
  <2> QED BY <2>4 DEF a, b
<1> QED BY <1>6 DEF IsSuffix, t

(* The lengths of a credential.                                            *)
LEMMA SecretLengths == \A n \in 1..MaxSecretBytes : n \in Nat /\ 1 <= n /\ n <= 128
BY DEF MaxSecretBytes

(* A request to open a stream reads as itself, and the stream begins after *)
(* it.                                                                     *)
LEMMA OpensReadBack ==
  ASSUME NEW r \in OpenRequests, EncodableOpen(r)
  PROVE  /\ EncodeOpen(r) \o <<7>> \in Seq(Byte)
         /\ DecodeOpen(EncodeOpen(r) \o <<7>>) =
              [secret |-> r.secret, target |-> r.target, stream |-> <<7>>]
<1> DEFINE key == r.secret
           text == TextOf[r.target]
           n == Len(key)
           m == Len(text)
           h1 == BigEndian(n, 2)
           h2 == BigEndian(m, 2)
           q2 == h1 \o h2
           q3 == q2 \o key
           q4 == q3 \o text
           one == <<7>>
           bytes == q4 \o one
<1>1. /\ key \in Seq(Byte) /\ text \in Seq(Byte) /\ text \in DOMAIN AddressTexts
      /\ AddressTexts[text] = r.target /\ m <= 64 /\ 4 + n + m <= MaxControlBytes
      /\ MaxControlBytes \in Nat
  BY WireAssumption
<1>2. n \in 1..MaxSecretBytes
  BY DEF EncodableOpen
<1>3. n \in Nat /\ m \in Nat /\ 1 <= n /\ n <= 128
  BY <1>1, <1>2, SecretLengths
<1>4. bytes = EncodeOpen(r) \o <<7>>
  BY DEF EncodeOpen
<1>5. one \in Seq(Byte) /\ Len(one) = 1
  <2>1. 7 \in Byte
    BY DEF Byte
  <2> QED BY <2>1
<1>6. Len(key) = n /\ Len(text) = m
  OBVIOUS
<1> HIDE DEF key, text, n, m, h1, h2, q2, q3, q4, one, bytes
<1>7. /\ h1 \in Seq(Byte) /\ Len(h1) = 2 /\ Number(h1) = n
      /\ h2 \in Seq(Byte) /\ Len(h2) = 2 /\ Number(h2) = m
  BY <1>1, <1>3, NumberOfTwoBytes DEF h1, h2
<1>8. /\ q2 \in Seq(Byte) /\ Len(q2) = 2 + 2 /\ Begins(h1, q2)
       /\ SubSeq(q2, 2 + 1, 2 + 2) = h2
  <2>1. q2 = h1 \o h2 /\ h1 \in Seq(Byte) /\ h2 \in Seq(Byte)
    BY <1>7 DEF q2
  <2>2. /\ q2 \in Seq(Byte) /\ Len(q2) = Len(h1) + Len(h2) /\ Begins(h1, q2)
        /\ SubSeq(q2, Len(h1) + 1, Len(h1) + Len(h2)) = h2
    BY <2>1, Extended
  <2>3. Len(h1) = 2 /\ Len(h2) = 2
    BY <1>7
  <2> QED BY <2>2, <2>3, Zenon
<1>9. /\ q3 \in Seq(Byte) /\ Len(q3) = (2 + 2) + n /\ Begins(q2, q3)
       /\ SubSeq(q3, (2 + 2) + 1, (2 + 2) + n) = key
  <2>1. q3 = q2 \o key /\ q2 \in Seq(Byte) /\ key \in Seq(Byte)
    BY <1>1, <1>6, <1>8 DEF q3
  <2>2. /\ q3 \in Seq(Byte) /\ Len(q3) = Len(q2) + Len(key) /\ Begins(q2, q3)
        /\ SubSeq(q3, Len(q2) + 1, Len(q2) + Len(key)) = key
    BY <2>1, Extended
  <2>3. Len(q2) = (2 + 2) /\ Len(key) = n
    BY <1>1, <1>6, <1>8
  <2> QED BY <2>2, <2>3, Zenon
<1>10. /\ q4 \in Seq(Byte) /\ Len(q4) = (2 + 2 + n) + m /\ Begins(q3, q4)
       /\ SubSeq(q4, (2 + 2 + n) + 1, (2 + 2 + n) + m) = text
  <2>1. q4 = q3 \o text /\ q3 \in Seq(Byte) /\ text \in Seq(Byte)
    BY <1>1, <1>6, <1>9 DEF q4
  <2>2. /\ q4 \in Seq(Byte) /\ Len(q4) = Len(q3) + Len(text) /\ Begins(q3, q4)
        /\ SubSeq(q4, Len(q3) + 1, Len(q3) + Len(text)) = text
    BY <2>1, Extended
  <2>3. Len(q3) = (2 + 2 + n) /\ Len(text) = m
    BY <1>1, <1>6, <1>9
  <2> QED BY <2>2, <2>3, Zenon
<1>11. /\ bytes \in Seq(Byte) /\ Len(bytes) = (2 + 2 + n + m) + 1 /\ Begins(q4, bytes)
       /\ SubSeq(bytes, (2 + 2 + n + m) + 1, (2 + 2 + n + m) + 1) = one
  <2>1. bytes = q4 \o one /\ q4 \in Seq(Byte) /\ one \in Seq(Byte)
    BY <1>5, <1>10 DEF bytes
  <2>2. /\ bytes \in Seq(Byte) /\ Len(bytes) = Len(q4) + Len(one) /\ Begins(q4, bytes)
        /\ SubSeq(bytes, Len(q4) + 1, Len(q4) + Len(one)) = one
    BY <2>1, Extended
  <2>3. Len(q4) = (2 + 2 + n + m) /\ Len(one) = 1
    BY <1>5, <1>10
  <2> QED BY <2>2, <2>3, Zenon
<1>12. Begins(q4, bytes) /\ Begins(q3, bytes) /\ Begins(q2, bytes) /\ Begins(h1, bytes)
  BY <1>8, <1>9, <1>10, <1>11, BeginsAgain
<1>13. SubSeq(bytes, 1, 2) = h1 /\ SubSeq(bytes, 3, 4) = h2
  <2>1. /\ 1 \in Nat /\ 2 \in Nat /\ 3 \in Nat /\ 4 \in Nat /\ 1 <= 1 /\ 1 <= 3
        /\ 2 <= Len(h1) /\ 4 <= Len(q2) /\ 2 + 1 = 3 /\ 2 + 2 = 4
    BY <1>7, <1>8
  <2>2. SubSeq(bytes, 1, 2) = SubSeq(h1, 1, 2) /\ SubSeq(bytes, 3, 4) = SubSeq(q2, 3, 4)
    BY <1>12, <2>1, SliceStays
  <2>3. SubSeq(q2, 3, 4) = h2
    BY <1>8, <2>1, Zenon
  <2>4. SubSeq(h1, 1, 2) = h1
    <3>1. 1 \in 1..Len(h1)
      BY <1>7
    <3>2. SubSeq(h1, 1, Len(h1)) = h1
      BY <1>7, <3>1, SliceOfOne
    <3> QED BY <1>7, <3>2, Zenon
  <2> QED BY <2>2, <2>3, <2>4
<1>14. SubSeq(bytes, 5, 4 + n) = key /\ SubSeq(bytes, 5 + n, 4 + n + m) = text
  <2>1. SubSeq(bytes, 5, 4 + n) = SubSeq(q3, 5, 4 + n)
    <3>1. 5 \in Nat /\ 4 + n \in Nat /\ 1 <= 5 /\ 4 + n <= Len(q3)
      BY <1>3, <1>9
    <3>2. Begins(q3, bytes)
      BY <1>12
    <3> QED BY <3>1, <3>2, SliceStays, SMTT(30)
  <2>2. SubSeq(bytes, 5 + n, 4 + n + m) = SubSeq(q4, 5 + n, 4 + n + m)
    <3>1. 5 + n \in Nat /\ 4 + n + m \in Nat /\ 1 <= 5 + n /\ 4 + n + m <= Len(q4)
      BY <1>3, <1>10
    <3>2. Begins(q4, bytes)
      BY <1>12
    <3> QED BY <3>1, <3>2, SliceStays, ZenonT(30)
  <2>3. 2 + 2 + 1 = 5 /\ 2 + 2 + n = 4 + n /\ 2 + 2 + n + 1 = 5 + n /\ 2 + 2 + n + m = 4 + n + m
    BY <1>3
  <2>4. SubSeq(q3, 5, 4 + n) = key
    BY <1>9, <2>3, Zenon
  <2>5. SubSeq(q4, 5 + n, 4 + n + m) = text
    BY <1>10, <2>3, Zenon
  <2> QED BY <2>1, <2>2, <2>4, <2>5
<1>15. Len(bytes) = 5 + n + m /\ SubSeq(bytes, 5 + n + m, Len(bytes)) = one
  <2>1. 2 + 2 + n + m + 1 = 5 + n + m
    BY <1>3
  <2> QED BY <1>11, <2>1, Zenon
<1>16. DecodeOpen(bytes) = [secret |-> key, target |-> AddressTexts[text], stream |-> one]
  <2>1. Number(SubSeq(bytes, 1, 2)) = n /\ Number(SubSeq(bytes, 3, 4)) = m
    BY <1>7, <1>13
  <2>2. DecodeOpen(bytes) =
          IF Len(bytes) < 4 THEN Unset
          ELSE IF \/ 4 + n + m > MaxControlBytes \/ Len(bytes) < 4 + n + m
                  \/ n \notin 1..MaxSecretBytes \/ SubSeq(bytes, 5 + n, 4 + n + m) \notin DOMAIN AddressTexts
          THEN Unset
          ELSE [secret |-> SubSeq(bytes, 5, 4 + n), target |-> AddressTexts[SubSeq(bytes, 5 + n, 4 + n + m)],
                stream |-> SubSeq(bytes, 5 + n + m, Len(bytes))]
    BY <2>1 DEF DecodeOpen
  <2>3. /\ ~(Len(bytes) < 4) /\ ~(4 + n + m > MaxControlBytes) /\ ~(Len(bytes) < 4 + n + m)
        /\ n \in 1..MaxSecretBytes
    <3> HIDE DEF n, m, bytes
    <3>1. ~(4 + n + m > MaxControlBytes)
      BY ONLY <1>1, <1>3
    <3>2. ~(5 + n + m < 4) /\ ~(5 + n + m < 4 + n + m)
      BY ONLY <1>3
    <3> QED BY <1>2, <1>15, <3>1, <3>2, Zenon
  <2> QED BY <1>1, <1>14, <1>15, <2>2, <2>3, Zenon
<1>17. DecodeOpen(bytes) = [secret |-> r.secret, target |-> r.target, stream |-> <<7>>]
  BY <1>1, <1>16 DEF key, one
<1> QED BY <1>4, <1>11, <1>17

(* What is read of anything else is within the limit, and the stream is    *)
(* what follows.                                                           *)
LEMMA OpenedLeavesTheEnd ==
  ASSUME NEW bytes \in Seq(Byte), DecodeOpen(bytes) # Unset
  PROVE  EncodableOpen(DecodeOpen(bytes)) /\ IsSuffix(DecodeOpen(bytes).stream, bytes)
<1> DEFINE n == Number(SubSeq(bytes, 1, 2))
           m == Number(SubSeq(bytes, 3, 4))
           text == SubSeq(bytes, 5 + n, 4 + n + m)
           opened == [secret |-> SubSeq(bytes, 5, 4 + n), target |-> AddressTexts[text],
                      stream |-> SubSeq(bytes, 5 + n + m, Len(bytes))]
<1>1. /\ ~(Len(bytes) < 4) /\ ~(Len(bytes) < 4 + n + m) /\ n \in 1..MaxSecretBytes
      /\ DecodeOpen(bytes) = opened
  BY DEF DecodeOpen
<1>2. m \in Nat
  <2>1. Len(bytes) \in Nat /\ 4 <= Len(bytes) /\ \A i \in 1..Len(bytes) : bytes[i] \in Nat
    BY <1>1, BytesAreNumbers
  <2>2. SubSeq(bytes, 3, 4)[1] = bytes[3] /\ SubSeq(bytes, 3, 4)[2] = bytes[4]
    BY <2>1
  <2>3. bytes[3] \in Nat /\ bytes[4] \in Nat
    BY <2>1
  <2> QED BY <2>2, <2>3 DEF Number
<1>3. n \in Nat /\ 1 <= n /\ n <= 128 /\ Len(bytes) \in Nat
  BY <1>1, SecretLengths
<1> HIDE DEF n, m, text
<1>4. Len(SubSeq(bytes, 5, 4 + n)) = n
  <2>1. 4 + n <= Len(bytes) /\ 5 <= 4 + n /\ 4 + n \in Nat
    BY <1>1, <1>2, <1>3
  <2> QED BY <1>3, <2>1
<1>5. opened.secret = SubSeq(bytes, 5, 4 + n) /\ opened.stream = SubSeq(bytes, 5 + n + m, Len(bytes))
  OBVIOUS
<1>6. EncodableOpen(opened)
  BY <1>1, <1>4, <1>5 DEF EncodableOpen
<1>7. IsSuffix(SubSeq(bytes, 5 + n + m, Len(bytes)), bytes)
  <2>1. 4 + n + m \in Nat /\ 4 + n + m <= Len(bytes) /\ 4 + n + m + 1 = 5 + n + m
    BY <1>1, <1>2, <1>3
  <2>2. IsSuffix(SubSeq(bytes, 4 + n + m + 1, Len(bytes)), bytes)
    BY <2>1, EndIsSuffix
  <2> QED BY <2>1, <2>2, Zenon
<1> QED BY <1>1, <1>5, <1>6, <1>7, Zenon

(* What the peers have settled, and that it is for an offer they may make. *)
HandshakeMade ==
  handshake # Unset =>
    /\ DOMAIN handshake = {"offer", "server", "selected", "accepted"}
    /\ handshake.offer \in ClientOffers /\ handshake.server \in ServerOffers
    /\ ValidOffer(handshake.offer)
    /\ handshake.selected = Negotiate(handshake.offer, handshake.server)

(* A record on its way: what was sent as long as nothing damaged it, and   *)
(* what was received of what arrived.                                      *)
Reading(kind, bytes) == IF kind = "open" THEN DecodeOpen(bytes) ELSE DecodeDatagram(bytes)
RecordMade ==
  record # Unset =>
    /\ DOMAIN record = {"kind", "sent", "bytes", "damaged", "received"}
    /\ record.kind \in {"datagram", "open"} /\ record.bytes \in Seq(Byte)
    /\ ~record.damaged /\ record.kind = "datagram" =>
         /\ record.sent \in Datagrams /\ EncodableDatagram(record.sent)
         /\ record.bytes = EncodeDatagram(record.sent)
    /\ ~record.damaged /\ record.kind = "open" =>
         /\ record.sent \in OpenRequests /\ EncodableOpen(record.sent)
         /\ record.bytes = EncodeOpen(record.sent) \o <<7>>
    /\ record.received # Unset => record.received = Reading(record.kind, record.bytes)
WireInv == HandshakeMade /\ RecordMade

(* The newest common version, or none.                                     *)
LEMMA NewestCommonVersion ==
  ASSUME NEW o \in ClientOffers, NEW s \in ServerOffers, ValidOffer(o)
  PROVE  LET common == (o.versions.minimum..o.versions.maximum)
                         \cap (s.versions.minimum..s.versions.maximum)
             version == NegotiateVersion(o.versions, s.versions)
         IN IF version = Unset THEN common = {}
            ELSE version \in common /\ version \in Nat /\ \A v \in common : v <= version
<1> DEFINE a == o.versions.minimum
           b == o.versions.maximum
           c == s.versions.minimum
           d == s.versions.maximum
<1>1. a \in Nat /\ b \in Nat /\ c \in Nat /\ d \in Nat /\ Unset \notin Nat
  BY WireAssumption
<1>2. NegotiateVersion(o.versions, s.versions) =
        IF /\ a <= b /\ c <= d
           /\ (IF a > c THEN a ELSE c) <= (IF b < d THEN b ELSE d)
        THEN IF b < d THEN b ELSE d ELSE Unset
  BY DEF NegotiateVersion, ValidRange
<1> HIDE DEF a, b, c, d
<1>3. LET common == (a..b) \cap (c..d)
          version == NegotiateVersion(o.versions, s.versions)
      IN IF version = Unset THEN common = {}
         ELSE version \in common /\ version \in Nat /\ \A v \in common : v <= version
  BY <1>1, <1>2
<1> QED BY <1>3 DEF a, b, c, d

(* What the server selects is what both have, whatever the offers are.     *)
LEMMA NegotiationAgrees == HandshakeMade => HandshakeAgrees
<1> SUFFICES ASSUME HandshakeMade, handshake # Unset
             PROVE  HandshakeAgrees
  BY DEF HandshakeAgrees
<1> DEFINE o == handshake.offer
           s == handshake.server
           common == (o.versions.minimum..o.versions.maximum) \cap (s.versions.minimum..s.versions.maximum)
           version == NegotiateVersion(o.versions, s.versions)
           enabled == (o.required \cup o.optional) \cap s.capabilities
           selected == [version |-> version, capabilities |-> enabled, nonce |-> o.nonce]
<1>1. /\ o \in ClientOffers /\ s \in ServerOffers /\ ValidOffer(o)
      /\ handshake.selected = Negotiate(o, s)
  BY DEF HandshakeMade
<1>2. IF version = Unset THEN common = {}
      ELSE version \in common /\ version \in Nat /\ \A v \in common : v <= version
  BY <1>1, NewestCommonVersion
<1>3. Negotiate(o, s) = IF version # Unset /\ o.required \subseteq s.capabilities /\ ReliableStream \in enabled
                        THEN selected ELSE Unset
  BY DEF Negotiate
<1>4. ReliableStream \in o.required
  BY <1>1 DEF ValidOffer
<1>5. enabled \subseteq 0..63 /\ o.nonce \in {p.nonce : p \in ClientOffers}
  BY <1>1, WireAssumption
<1>6. version \in Nat => selected # Unset
  <2> HIDE DEF version, enabled
  <2>1. version \in Nat =>
          selected \in [version : Nat, capabilities : SUBSET (0..63), nonce : {p.nonce : p \in ClientOffers}]
    BY <1>5
  <2> QED BY <2>1, WireAssumption
<1>7. CASE version = Unset \/ ~(o.required \subseteq s.capabilities)
  <2>1. handshake.selected = Unset
    BY <1>1, <1>3, <1>7
  <2>2. common = {} \/ ~(o.required \subseteq s.capabilities)
    BY <1>2, <1>7
  <2> QED BY <2>1, <2>2 DEF HandshakeAgrees
<1>8. CASE version # Unset /\ o.required \subseteq s.capabilities
  <2>1. handshake.selected = selected /\ selected # Unset
    BY <1>1, <1>2, <1>3, <1>4, <1>6, <1>8
  <2>2. ValidRange(o.versions) /\ o.versions.minimum <= version /\ version <= o.versions.maximum
    <3>1. version \in o.versions.minimum..o.versions.maximum
      BY <1>2, <1>8
    <3>2. o.versions.minimum \in Nat /\ o.versions.maximum \in Nat /\ ValidRange(o.versions)
      BY <1>1, WireAssumption DEF ValidOffer
    <3> HIDE DEF version, o
    <3> QED BY <3>1, <3>2
  <2>3. /\ enabled \subseteq o.required \cup o.optional /\ o.required \subseteq enabled
        /\ ReliableStream \in enabled /\ enabled \subseteq s.capabilities
    BY <1>4, <1>8
  <2>4. /\ selected.version = version /\ selected.capabilities = enabled /\ selected.nonce = o.nonce
    OBVIOUS
  <2>5. ValidateFor(selected, o)
    <3> HIDE DEF selected, version, enabled, o
    <3> QED BY <2>2, <2>3, <2>4 DEF ValidateFor
  <2>6. selected.version \in common /\ \A v \in common : v <= selected.version
    BY <1>2, <1>8, <2>4
  <2>7. selected.capabilities \subseteq s.capabilities
    BY <2>3, <2>4
  <2> HIDE DEF selected, version, enabled, common
  <2>8. /\ handshake.selected # Unset /\ ValidateFor(handshake.selected, o)
        /\ handshake.selected.version \in common
        /\ \A v \in common : v <= handshake.selected.version
        /\ handshake.selected.capabilities \subseteq s.capabilities
    BY <2>1, <2>5, <2>6, <2>7
  <2> QED BY <2>8 DEF HandshakeAgrees, common
<1> QED BY <1>7, <1>8

(* Records that may be sent are read as they are, and the others are not   *)
(* taken for more than arrived.                                            *)
LEMMA RecordsAreRead == RecordMade => RecordsRoundTrip
<1> SUFFICES ASSUME RecordMade, record # Unset PROVE RecordsRoundTrip
  BY DEF RecordsRoundTrip
<1> DEFINE r == record.received
           bytes == record.bytes
           whole == IF record.kind = "open" THEN DecodeOpen(bytes) ELSE DecodeDatagram(bytes)
<1>1. bytes \in Seq(Byte) /\ record.kind \in {"datagram", "open"}
  BY DEF RecordMade
<1>2. ASSUME ~record.damaged, record.kind = "datagram" PROVE whole = record.sent
  <2>1. /\ record.sent \in Datagrams /\ EncodableDatagram(record.sent)
        /\ bytes = EncodeDatagram(record.sent)
    BY <1>2 DEF RecordMade
  <2>2. Decodes(bytes) /\ Decoded(bytes) = record.sent
    BY <2>1, DatagramsReadBack
  <2>3. DecodeDatagram(bytes) = record.sent
    BY <1>1, <2>2, DecodeByOffsets
  <2> QED BY <1>2, <2>3
<1>3. ASSUME ~record.damaged, record.kind = "open"
      PROVE  whole = [secret |-> record.sent.secret, target |-> record.sent.target, stream |-> <<7>>]
  <2>1. record.sent \in OpenRequests /\ EncodableOpen(record.sent) /\ bytes = EncodeOpen(record.sent) \o <<7>>
    BY <1>3 DEF RecordMade
  <2>2. DecodeOpen(EncodeOpen(record.sent) \o <<7>>) =
          [secret |-> record.sent.secret, target |-> record.sent.target, stream |-> <<7>>]
    BY <2>1, OpensReadBack
  <2> QED BY <1>3, <2>1, <2>2, Zenon
<1>4. ASSUME r # Unset, record.kind = "datagram" PROVE EncodableDatagram(r) /\ EncodeDatagram(r) = bytes
  <2>1. r = DecodeDatagram(bytes)
    BY <1>4 DEF RecordMade, Reading
  <2>2. Decodes(bytes) /\ r = Decoded(bytes)
    BY <1>1, <1>4, <2>1, DecodeByOffsets
  <2> QED BY <1>1, <2>2, DecodedIsAll
<1>5. ASSUME r # Unset, record.kind = "open" PROVE EncodableOpen(r) /\ IsSuffix(r.stream, bytes)
  <2>1. r = DecodeOpen(bytes)
    BY <1>5 DEF RecordMade, Reading
  <2> QED BY <1>1, <1>5, <2>1, OpenedLeavesTheEnd
<1> QED BY <1>2, <1>3, <1>4, <1>5 DEF RecordsRoundTrip

(* Each step of the wire keeps both.                                       *)
LEMMA WireInvKept == WireInv /\ [StreamNext \/ HandshakeNext \/ RecordNext]_wireVars => WireInv'
<1> SUFFICES ASSUME WireInv, [StreamNext \/ HandshakeNext \/ RecordNext]_wireVars PROVE WireInv'
  OBVIOUS
<1>1. ASSUME UNCHANGED <<handshake, record>> PROVE WireInv'
  BY <1>1 DEF WireInv, HandshakeMade, RecordMade
<1>2. CASE UNCHANGED wireVars
  BY <1>1, <1>2 DEF wireVars
<1>3. CASE StreamNext
  BY <1>1, <1>3 DEF StreamNext, Push, PushHelper
<1>4. CASE ServerSelects
  <2>1. PICK o \in ClientOffers, s \in ServerOffers :
          /\ ValidOffer(o)
          /\ handshake' = [offer |-> o, server |-> s, selected |-> Negotiate(o, s), accepted |-> FALSE]
    BY <1>4 DEF ServerSelects
  <2>2. HandshakeMade'
    BY <2>1 DEF HandshakeMade
  <2>3. RecordMade'
    BY <1>4 DEF ServerSelects, WireInv, RecordMade
  <2> QED BY <2>2, <2>3 DEF WireInv
<1>5. CASE ClientValidates
  <2>1. HandshakeMade'
    <3>1. handshake # Unset /\ handshake' = [handshake EXCEPT !.accepted = TRUE]
      BY <1>5 DEF ClientValidates
    <3>2. /\ DOMAIN handshake' = DOMAIN handshake /\ handshake'.offer = handshake.offer
          /\ handshake'.server = handshake.server /\ handshake'.selected = handshake.selected
      BY <3>1 DEF WireInv, HandshakeMade
    <3> QED BY <3>1, <3>2 DEF WireInv, HandshakeMade
  <2>2. RecordMade'
    BY <1>5 DEF ClientValidates, WireInv, RecordMade
  <2> QED BY <2>1, <2>2 DEF WireInv
<1>6. ASSUME UNCHANGED handshake, RecordMade' PROVE WireInv'
  BY <1>6 DEF WireInv, HandshakeMade
<1>7. ASSUME NEW d \in Datagrams, SendDatagram(d) PROVE WireInv'
  <2>1. EncodableDatagram(d) /\ UNCHANGED handshake
        /\ record' = [kind |-> "datagram", sent |-> d, bytes |-> EncodeDatagram(d), damaged |-> FALSE,
                      received |-> Unset]
    BY <1>7 DEF SendDatagram, SendRecord
  <2>2. EncodeDatagram(d) \in Seq(Byte)
    BY <2>1, DatagramsReadBack
  <2>3. RecordMade'
    BY <2>1, <2>2 DEF RecordMade
  <2> QED BY <1>6, <2>1, <2>3
<1>8. ASSUME NEW r \in OpenRequests, SendOpen(r) PROVE WireInv'
  <2> DEFINE request == EncodeOpen(r) \o <<7>>
  <2>1. EncodableOpen(r) /\ UNCHANGED handshake
        /\ record' = [kind |-> "open", sent |-> r, bytes |-> request, damaged |-> FALSE,
                      received |-> Unset]
    BY <1>8 DEF SendOpen, SendRecord
  <2>2. request \in Seq(Byte)
    BY <2>1, OpensReadBack
  <2>3. RecordMade'
    <3>1. /\ record'.kind = "open" /\ record'.sent = r /\ record'.bytes = request /\ ~record'.damaged
          /\ record'.received = Unset /\ DOMAIN record' = {"kind", "sent", "bytes", "damaged", "received"}
      BY <2>1
    <3> QED BY <2>1, <2>2, <3>1 DEF RecordMade
  <2> QED BY <1>6, <2>1, <2>3
<1>9. CASE Damage
  <2>1. PICK i \in DOMAIN record.bytes :
          \/ \E b \in DamageBytes : record' = [record EXCEPT !.bytes[i] = b, !.damaged = TRUE]
          \/ record' = [record EXCEPT !.bytes = SubSeq(@, 1, i - 1), !.damaged = TRUE]
    BY <1>9 DEF Damage
  <2>2. /\ record # Unset /\ record.received = Unset /\ UNCHANGED handshake
        /\ DOMAIN record = {"kind", "sent", "bytes", "damaged", "received"}
        /\ record.kind \in {"datagram", "open"} /\ record.bytes \in Seq(Byte)
    BY <1>9 DEF Damage, WireInv, RecordMade
  <2>3. ASSUME NEW bytes \in Seq(Byte), record' = [record EXCEPT !.bytes = bytes, !.damaged = TRUE]
        PROVE  RecordMade'
    <3>1. /\ record'.kind = record.kind /\ record'.bytes = bytes /\ record'.damaged
          /\ record'.received = Unset /\ DOMAIN record' = DOMAIN record
      BY <2>2, <2>3
    <3> QED BY <2>2, <2>3, <3>1 DEF RecordMade
  <2>4. CASE \E b \in DamageBytes : record' = [record EXCEPT !.bytes[i] = b, !.damaged = TRUE]
    <3>1. PICK b \in DamageBytes : record' = [record EXCEPT !.bytes[i] = b, !.damaged = TRUE]
      BY <2>4
    <3>2. b \in Byte
      BY WireAssumption
    <3>3. [record.bytes EXCEPT ![i] = b] \in Seq(Byte)
      BY <2>2, <3>2
    <3>4. record' = [record EXCEPT !.bytes = [record.bytes EXCEPT ![i] = b], !.damaged = TRUE]
      BY <3>1
    <3> QED BY <1>6, <2>2, <2>3, <3>3, <3>4
  <2>5. CASE record' = [record EXCEPT !.bytes = SubSeq(@, 1, i - 1), !.damaged = TRUE]
    <3>1. SubSeq(record.bytes, 1, i - 1) \in Seq(Byte)
      BY <2>2
    <3> QED BY <1>6, <2>2, <2>3, <2>5, <3>1
  <2> QED BY <2>1, <2>4, <2>5
<1>10. CASE Receive
  <2> DEFINE decoded == Reading(record.kind, record.bytes)
  <2>1. record # Unset /\ UNCHANGED handshake /\ record' = [record EXCEPT !.received = decoded]
    BY <1>10 DEF Receive, Reading
  <2>2. RecordMade
    BY DEF WireInv
  <2> HIDE DEF decoded
  <2>3. /\ record'.kind = record.kind /\ record'.bytes = record.bytes /\ record'.sent = record.sent
        /\ record'.damaged = record.damaged /\ DOMAIN record' = DOMAIN record /\ record'.received = decoded
    BY <2>1, <2>2 DEF RecordMade
  <2>4. RecordMade'
    BY <2>1, <2>2, <2>3 DEF RecordMade, decoded
  <2> QED BY <1>6, <2>1, <2>4
<1> QED BY <1>2, <1>3, <1>4, <1>5, <1>7, <1>8, <1>9, <1>10 DEF HandshakeNext, RecordNext

(* Negotiate and the client's check of its answer settle on one version,   *)
(* and decode_datagram and decode_proxy_open read a record that was sent   *)
(* as what was sent, and a damaged one as no more than what arrived.       *)
THEOREM PeersAlwaysAgree == WireSpec => []PeersAgree
<1>1. WireInit => WireInv
  BY DEF WireInit, WireInv, HandshakeMade, RecordMade
<1>2. WireInv => PeersAgree
  BY NegotiationAgrees, RecordsAreRead DEF WireInv, PeersAgree
<1> QED BY <1>1, <1>2, WireInvKept, PTL DEF WireSpec

-----------------------------------------------------------------------------
(* Induction up to n, for a set.                                           *)
LEMMA UpToInduction ==
  ASSUME NEW n \in Nat, NEW S, 0 \in S,
         \A k \in 0..n : k \in S /\ k < n => k + 1 \in S
  PROVE  0..n \subseteq S
<1> DEFINE T == {k \in 0..n : k \notin S}
<1>1. SUFFICES ASSUME T # {} PROVE FALSE
  OBVIOUS
<1> DEFINE R == OpToRel(<, Nat)
<1>2. PICK k \in T : \A j \in T : ~(<<j, k>> \in R)
  <2>1. IsWellFoundedOn(R, Nat) BY NatLessThanWellFounded
  <2>2. T \subseteq Nat OBVIOUS
  <2> HIDE DEF T, R
  <2> QED BY <1>1, <2>1, <2>2, WFMin
<1>3. k \in 0..n /\ k \notin S
  OBVIOUS
<1>4. k # 0 /\ k - 1 \in 0..n /\ k - 1 < k
  BY <1>3
<1>5. <<k - 1, k>> \in R
  BY <1>3, <1>4 DEF OpToRel
<1>6. k - 1 \in S
  <2> HIDE DEF R
  <2> QED BY <1>2, <1>4, <1>5
<1>7. (k - 1) + 1 \in S
  BY <1>6, <1>4, <1>3
<1> QED BY <1>7, <1>3

(* f is what n applications of step make of first.                         *)
Iterates(n, X, first, step, f) ==
  /\ f \in [0..n -> X] /\ f[0] = first
  /\ \A k \in 1..n : f[k] = step[k][f[k - 1]]

(* Such a run of steps exists, from any first value.                       *)
LEMMA IteratesExist ==
  ASSUME NEW n \in Nat, NEW X, NEW first \in X, NEW step \in [1..n -> [X -> X]]
  PROVE  \E f : Iterates(n, X, first, step, f)
<1> DEFINE S == {m \in 0..n : \E f : Iterates(m, X, first, step, f)}
<1>1. 0 \in S
  <2> DEFINE f == [k \in 0..0 |-> first]
  <2>1. Iterates(0, X, first, step, f)
    BY DEF Iterates
  <2> HIDE DEF f
  <2> QED BY <2>1
<1>2. ASSUME NEW m \in 0..n, m \in S, m < n PROVE m + 1 \in S
  <2>1. PICK f : Iterates(m, X, first, step, f)
    BY <1>2
  <2> DEFINE g == [k \in 0..(m + 1) |-> IF k = m + 1 THEN step[m + 1][f[m]] ELSE f[k]]
  <2>2. f[m] \in X /\ m + 1 \in 1..n
    BY <1>2, <2>1 DEF Iterates
  <2>3. step[m + 1][f[m]] \in X
    BY <2>2
  <2>4. g \in [0..(m + 1) -> X]
    <3>1. ASSUME NEW k \in 0..(m + 1) PROVE g[k] \in X
      <4>1. CASE k = m + 1
        BY <2>3, <4>1
      <4>2. CASE k # m + 1
        <5>1. k \in 0..m /\ g[k] = f[k]
          BY <4>2
        <5> QED BY <2>1, <5>1 DEF Iterates
      <4> QED BY <4>1, <4>2
    <3> QED BY <3>1
  <2>5. g[0] = first
    BY <2>1 DEF Iterates
  <2>6. ASSUME NEW k \in 1..(m + 1) PROVE g[k] = step[k][g[k - 1]]
    <3>1. CASE k = m + 1
      <4>1. g[k] = step[m + 1][f[m]] /\ k - 1 = m /\ g[m] = f[m]
        BY <3>1
      <4> HIDE DEF g
      <4> QED BY <3>1, <4>1
    <3>2. CASE k # m + 1
      <4>1. k \in 1..m /\ g[k] = f[k] /\ g[k - 1] = f[k - 1]
        BY <3>2
      <4> HIDE DEF g
      <4> QED BY <2>1, <4>1 DEF Iterates
    <3> QED BY <3>1, <3>2
  <2> HIDE DEF g
  <2>7. Iterates(m + 1, X, first, step, g)
    BY <2>4, <2>5, <2>6 DEF Iterates
  <2> QED BY <1>2, <2>2, <2>7
<1> HIDE DEF S
<1>3. 0..n \subseteq S
  BY <1>1, <1>2, UpToInduction
<1> QED BY <1>3 DEF S

-----------------------------------------------------------------------------
(* FlattenSeq: what is joined of the first k strings.                      *)
JoinedUpTo(seqs, f) ==
  /\ f \in [0..Len(seqs) -> Seq(Byte)] /\ f[0] = << >>
  /\ \A k \in 1..Len(seqs) : f[k] = f[k - 1] \o seqs[k]

(* FlattenSeq joins the parts one by one.                                  *)
LEMMA FlattenJoins ==
  ASSUME NEW seqs \in Seq(Seq(Byte))
  PROVE  \E f : JoinedUpTo(seqs, f) /\ f[Len(seqs)] = FlattenSeq(seqs)
<1> DEFINE n == Len(seqs)
           step == [k \in 1..n |-> [s \in Seq(Byte) |-> s \o seqs[k]]]
           Rec(h) == h = [i \in 1..Len(seqs) |-> IF i = 1 THEN seqs[i] ELSE h[i - 1] \o seqs[i]]
<1>1. n \in Nat /\ << >> \in Seq(Byte) /\ \A k \in 1..n : seqs[k] \in Seq(Byte)
  OBVIOUS
<1>2. PICK f : Iterates(n, Seq(Byte), << >>, step, f)
  <2>1. step \in [1..n -> [Seq(Byte) -> Seq(Byte)]]
    <3>1. ASSUME NEW k \in 1..n, NEW s \in Seq(Byte) PROVE s \o seqs[k] \in Seq(Byte)
      BY <1>1
    <3> QED BY <3>1
  <2> HIDE DEF step
  <2> QED BY <1>1, <2>1, IteratesExist
<1>3. JoinedUpTo(seqs, f)
  <2>1. ASSUME NEW k \in 1..n PROVE f[k] = f[k - 1] \o seqs[k]
    <3>1. f[k - 1] \in Seq(Byte) /\ f[k] = step[k][f[k - 1]]
      <4>1. k - 1 \in 0..n
        BY <1>1
      <4> HIDE DEF step, n
      <4> QED BY <1>2, <4>1 DEF Iterates
    <3> QED BY <3>1
  <2> QED BY <1>2, <2>1 DEF JoinedUpTo, Iterates
<1>4. CASE n = 0
  <2>1. seqs = << >> /\ FlattenSeq(seqs) = seqs
    BY <1>4 DEF FlattenSeq
  <2> QED BY <1>3, <1>4, <2>1 DEF JoinedUpTo
<1>5. CASE n # 0
  <2> DEFINE g == [i \in 1..Len(seqs) |-> f[i]]
             h == CHOOSE t : Rec(t)
  <2>1. Rec(g)
    <3>1. ASSUME NEW i \in 1..n PROVE g[i] = IF i = 1 THEN seqs[i] ELSE g[i - 1] \o seqs[i]
      <4>1. CASE i = 1
        <5>1. f[1] = << >> \o seqs[1] /\ seqs[1] \in Seq(Byte)
          <6>1. 1 \in 1..n /\ 1 - 1 = 0
            BY <1>1, <1>5
          <6> QED BY <1>1, <1>3, <6>1 DEF JoinedUpTo
        <5> QED BY <4>1, <5>1
      <4>2. CASE i # 1
        <5>1. i - 1 \in 1..n /\ g[i - 1] = f[i - 1] /\ g[i] = f[i]
          BY <4>2
        <5> HIDE DEF g
        <5> QED BY <1>3, <4>2, <5>1 DEF JoinedUpTo
      <4> QED BY <4>1, <4>2
    <3>2. g = [i \in 1..Len(seqs) |-> g[i]]
      OBVIOUS
    <3> HIDE DEF g
    <3> QED BY <3>1, <3>2
  <2>2. Rec(h)
    <3> HIDE DEF Rec
    <3> QED BY <2>1
  <2>3. FlattenSeq(seqs) = h[Len(seqs)]
    BY <1>5 DEF FlattenSeq
  <2> HIDE DEF h
  <2>4. \A i \in 1..n : h[i] = IF i = 1 THEN seqs[i] ELSE h[i - 1] \o seqs[i]
    BY <2>2
  <2> DEFINE S == {k \in 0..n : k = 0 \/ h[k] = f[k]}
  <2>5. ASSUME NEW k \in 0..n, k \in S, k < n PROVE k + 1 \in S
    <3>1. k + 1 \in 1..n /\ (k + 1) - 1 = k
      <4>1. n \in Nat
        BY <1>1
      <4> HIDE DEF n
      <4> QED BY ONLY <4>1, k \in 0..n, k < n
    <3>2. f[k + 1] = f[k] \o seqs[k + 1]
      BY <1>3, <3>1 DEF JoinedUpTo
    <3>3. CASE k = 0
      <4>1. f[1] = << >> \o seqs[1] /\ seqs[1] \in Seq(Byte) /\ h[1] = seqs[1]
        <5>1. k + 1 = 1 /\ 1 \in 1..n
          BY <3>1, <3>3
        <5> HIDE DEF n
        <5> QED BY <1>1, <1>3, <2>4, <3>2, <3>3, <5>1 DEF JoinedUpTo
      <4>2. h[1] = f[1]
        BY <4>1
      <4> QED BY <3>1, <3>3, <4>2
    <3>4. CASE k # 0
      <4>1. h[k + 1] = h[k] \o seqs[k + 1] /\ h[k] = f[k]
        <5>1. k + 1 # 1 /\ k \in S
          BY <1>1, <2>5, <3>4
        <5>2. h[k + 1] = IF k + 1 = 1 THEN seqs[k + 1] ELSE h[(k + 1) - 1] \o seqs[k + 1]
          BY <2>4, <3>1
        <5> QED BY <3>1, <3>4, <5>1, <5>2
      <4>2. h[k + 1] = f[k + 1] /\ k + 1 \in 0..n
        BY <1>1, <3>1, <3>2, <4>1
      <4> QED BY <4>2
    <3> QED BY <3>3, <3>4
  <2>6. 0..n \subseteq S
    <3>1. 0 \in S OBVIOUS
    <3> HIDE DEF S
    <3> QED BY <1>1, <2>5, <3>1, UpToInduction
  <2>7. h[n] = f[n]
    BY <1>1, <1>5, <2>6
  <2> QED BY <1>3, <2>3, <2>7
<1> QED BY <1>4, <1>5

(* They are joined to a byte string, and one more is one at the end.       *)
LEMMA FlattenAppends ==
  ASSUME NEW seqs \in Seq(Seq(Byte)), NEW t \in Seq(Byte)
  PROVE  /\ FlattenSeq(seqs) \in Seq(Byte)
         /\ FlattenSeq(Append(seqs, t)) = FlattenSeq(seqs) \o t
<1> DEFINE n == Len(seqs)
           more == Append(seqs, t)
<1>1. /\ n \in Nat /\ more \in Seq(Seq(Byte)) /\ Len(more) = n + 1
      /\ \A k \in 1..n : more[k] = seqs[k]
      /\ more[n + 1] = t
  OBVIOUS
<1> HIDE DEF more
<1>2. PICK f : JoinedUpTo(seqs, f) /\ f[n] = FlattenSeq(seqs)
  BY FlattenJoins
<1>3. PICK g : JoinedUpTo(more, g) /\ g[n + 1] = FlattenSeq(more)
  BY <1>1, FlattenJoins
<1> DEFINE S == {k \in 0..n : g[k] = f[k]}
<1>4. 0..n \subseteq S
  <2>1. 0 \in S
    BY <1>1, <1>2, <1>3 DEF JoinedUpTo
  <2>2. ASSUME NEW k \in 0..n, k \in S, k < n PROVE k + 1 \in S
    <3>1. k + 1 \in 1..n /\ k + 1 \in 1..(n + 1) /\ (k + 1) - 1 = k
      BY <1>1, <2>2
    <3>2. f[k + 1] = f[k] \o seqs[k + 1] /\ g[k + 1] = g[k] \o more[k + 1]
      BY <1>1, <1>2, <1>3, <3>1 DEF JoinedUpTo
    <3>3. g[k + 1] = f[k + 1] /\ k + 1 \in 0..n
      <4>1. more[k + 1] = seqs[k + 1] /\ g[k] = f[k]
        BY <1>1, <2>2, <3>1
      <4>2. k + 1 \in 0..n
        BY <1>1, <3>1
      <4> HIDE DEF n
      <4> QED BY <3>2, <4>1, <4>2
    <3> QED BY <3>3
  <2> HIDE DEF S
  <2> QED BY <1>1, <2>1, <2>2, UpToInduction
<1>5. g[n] = f[n]
  BY <1>1, <1>4
<1>6. g[n + 1] = g[n] \o t
  <2>1. n + 1 \in 1..Len(more) /\ (n + 1) - 1 = n
    BY <1>1
  <2>2. g[n + 1] = g[(n + 1) - 1] \o more[n + 1]
    BY <1>3, <2>1 DEF JoinedUpTo
  <2> QED BY <1>1, <2>1, <2>2
<1>7. f[n] \in Seq(Byte)
  BY <1>1, <1>2 DEF JoinedUpTo
<1> QED BY <1>2, <1>3, <1>5, <1>6, <1>7 DEF more

(* The slices of a string between one cut and the next join to it.         *)
LEMMA SlicesFlatten ==
  ASSUME NEW s \in Seq(Byte), NEW n \in Nat, NEW cut \in [0..n -> Nat], cut[0] = 0, cut[n] = Len(s),
         \A k \in 1..n : cut[k - 1] <= cut[k] /\ cut[k] <= Len(s),
         NEW p, p = [k \in 1..n |-> SubSeq(s, cut[k - 1] + 1, cut[k])]
  PROVE  FlattenSeq(p) = s
<1>1. p \in Seq(Seq(Byte)) /\ Len(p) = n
  <2>1. ASSUME NEW k \in 1..n PROVE SubSeq(s, cut[k - 1] + 1, cut[k]) \in Seq(Byte)
    <3>1. cut[k - 1] \in Nat /\ cut[k] \in Nat /\ cut[k] <= Len(s)
      OBVIOUS
    <3> QED BY <3>1, SMTT(30)
  <2>2. DOMAIN p = 1..n /\ p = [k \in 1..n |-> p[k]] /\ \A k \in 1..n : p[k] \in Seq(Byte)
    BY <2>1
  <2> QED BY ONLY <2>2, n \in Nat, SMTT(30)
<1>2. PICK f : JoinedUpTo(p, f) /\ f[n] = FlattenSeq(p)
  BY <1>1, FlattenJoins
<1> DEFINE S == {k \in 0..n : f[k] = SubSeq(s, 1, cut[k])}
<1>3. 0 \in S
  BY <1>2 DEF JoinedUpTo
<1>4. ASSUME NEW k \in 0..n, k \in S, k < n PROVE k + 1 \in S
  <2>1. k + 1 \in 1..n /\ (k + 1) - 1 = k
    BY <1>4
  <2>2. f[k + 1] = f[k] \o p[k + 1] /\ p[k + 1] = SubSeq(s, cut[k] + 1, cut[k + 1])
    BY <1>1, <1>2, <2>1 DEF JoinedUpTo
  <2>3. cut[k] \in Nat /\ cut[k + 1] \in Nat /\ cut[k] <= cut[k + 1] /\ cut[k + 1] <= Len(s)
    BY <2>1
  <2>4. SubSeq(s, 1, cut[k]) \o SubSeq(s, cut[k] + 1, cut[k + 1]) = SubSeq(s, 1, cut[k + 1])
    <3>1. 1 \in Nat /\ 1 <= 1 /\ 1 <= cut[k] + 1
      BY <2>3
    <3> QED BY <2>3, <3>1, SlicesJoin
  <2>5. f[k] = SubSeq(s, 1, cut[k])
    BY <1>4
  <2>6. f[k + 1] = SubSeq(s, 1, cut[k + 1])
    BY <2>2, <2>4, <2>5, Zenon
  <2>7. k + 1 \in 0..n
    BY <2>1
  <2> QED BY <2>6, <2>7
<1>5. 0..n \subseteq S
  <2> HIDE DEF S
  <2> QED BY <1>3, <1>4, UpToInduction
<1>6. f[n] = SubSeq(s, 1, Len(s))
  <2>1. n \in S
    BY <1>5
  <2> QED BY <2>1
<1>7. SubSeq(s, 1, Len(s)) = s
  OBVIOUS
<1> QED BY <1>2, <1>6, <1>7

(* Reader: a field begins where the one before it ends.                    *)
LEMMA FieldStarts ==
  ASSUME NEW n \in Nat, NEW layout, \A k \in 1..n : Width(layout[k]) \in Nat
  PROVE  /\ \A i \in 1..n : FieldStart(layout, i) \in Nat
         /\ n >= 1 => FieldStart(layout, 1) = 0
         /\ \A i \in 1..n : i < n => FieldStart(layout, i + 1) = FieldStart(layout, i) + Width(layout[i])
<1> DEFINE step == [k \in 1..n |-> [s \in Nat |-> s + Width(layout[k])]]
<1>1. PICK f : Iterates(n, Nat, 0, step, f)
  <2>1. step \in [1..n -> [Nat -> Nat]]
    <3>1. ASSUME NEW k \in 1..n, NEW s \in Nat PROVE s + Width(layout[k]) \in Nat
      <4>1. Width(layout[k]) \in Nat
        OBVIOUS
      <4> QED BY <4>1
    <3> QED BY <3>1
  <2> HIDE DEF step
  <2> QED BY <2>1, IteratesExist
<1>2. /\ f \in [0..n -> Nat] /\ f[0] = 0
      /\ \A k \in 1..n : f[k] = f[k - 1] + Width(layout[k])
  <2>1. f \in [0..n -> Nat] /\ f[0] = 0
    BY <1>1 DEF Iterates
  <2>2. ASSUME NEW k \in 1..n PROVE f[k] = f[k - 1] + Width(layout[k])
    <3>1. f[k] = step[k][f[k - 1]] /\ f[k - 1] \in Nat
      <4>1. k - 1 \in 0..n
        OBVIOUS
      <4> HIDE DEF step
      <4> QED BY <1>1, <2>1, <4>1 DEF Iterates
    <3> QED BY <3>1
  <2> QED BY <2>1, <2>2
<1> HIDE DEF step
<1>3. ASSUME NEW i \in 1..n PROVE FieldStart(layout, i) = f[i - 1]
  <2> DEFINE Rec(h) == h = [k \in 1..i |-> IF k = 1 THEN 0 ELSE h[k - 1] + Width(layout[k - 1])]
             g == [k \in 1..i |-> f[k - 1]]
             h == CHOOSE t : Rec(t)
  <2>1. Rec(g)
    <3>1. ASSUME NEW k \in 1..i PROVE g[k] = IF k = 1 THEN 0 ELSE g[k - 1] + Width(layout[k - 1])
      <4>1. CASE k = 1
        BY <1>2, <4>1
      <4>2. CASE k # 1
        <5>1. k - 1 \in 1..i /\ k - 1 \in 1..n /\ (k - 1) - 1 = k - 2
          BY <4>2
        <5>2. f[k - 1] = f[(k - 1) - 1] + Width(layout[k - 1])
          BY <1>2, <5>1
        <5>3. g[k] = f[k - 1] /\ g[k - 1] = f[(k - 1) - 1]
          BY <5>1
        <5> HIDE DEF g
        <5> QED BY <4>2, <5>2, <5>3
      <4> QED BY <4>1, <4>2
    <3>2. g = [k \in 1..i |-> g[k]]
      OBVIOUS
    <3> HIDE DEF g
    <3> QED BY <3>1, <3>2
  <2>2. Rec(h)
    <3> HIDE DEF Rec
    <3> QED BY <2>1
  <2>3. FieldStart(layout, i) = h[i]
    BY DEF FieldStart
  <2> HIDE DEF h
  <2>4. \A k \in 1..i : h[k] = IF k = 1 THEN 0 ELSE h[k - 1] + Width(layout[k - 1])
    BY <2>2
  <2> DEFINE S == {k \in 0..(i - 1) : h[k + 1] = f[k]}
  <2>5. 0 \in S
    <3>1. 1 \in 1..i /\ 0 + 1 = 1 /\ 0 \in 0..(i - 1)
      OBVIOUS
    <3>2. h[1] = 0
      BY <2>4, <3>1
    <3> QED BY <1>2, <3>1, <3>2
  <2>6. ASSUME NEW k \in 0..(i - 1), k \in S, k < i - 1 PROVE k + 1 \in S
    <3>1. k + 2 \in 1..i /\ k + 2 # 1 /\ (k + 2) - 1 = k + 1 /\ (k + 1) + 1 = k + 2 /\ k + 1 \in 0..(i - 1)
          /\ k + 1 \in 1..n /\ (k + 1) - 1 = k
      BY <2>6
    <3>2. h[k + 2] = h[k + 1] + Width(layout[k + 1])
      BY <2>4, <3>1
    <3>3. f[k + 1] = f[k] + Width(layout[k + 1])
      BY <1>2, <3>1
    <3>4. h[(k + 1) + 1] = f[k + 1]
      BY <2>6, <3>1, <3>2, <3>3
    <3> QED BY <3>1, <3>4
  <2>7. 0..(i - 1) \subseteq S
    <3>1. i - 1 \in Nat
      OBVIOUS
    <3> HIDE DEF S
    <3> QED BY <2>5, <2>6, <3>1, UpToInduction
  <2>8. h[i] = f[i - 1]
    <3>1. i - 1 \in S /\ (i - 1) + 1 = i
      BY <2>7
    <3> QED BY <3>1
  <2> QED BY <2>3, <2>8
<1>4. ASSUME NEW i \in 1..n PROVE FieldStart(layout, i) \in Nat
  BY <1>2, <1>3
<1>5. n >= 1 => FieldStart(layout, 1) = 0
  <2>1. ASSUME n >= 1 PROVE FieldStart(layout, 1) = f[1 - 1] /\ 1 - 1 = 0
    <3>1. 1 \in 1..n
      BY <2>1
    <3> QED BY <1>3, <3>1
  <2> QED BY <1>2, <2>1
<1>6. ASSUME NEW i \in 1..n, i < n
      PROVE  FieldStart(layout, i + 1) = FieldStart(layout, i) + Width(layout[i])
  <2>1. i + 1 \in 1..n /\ (i + 1) - 1 = i
    BY <1>6
  <2>2. FieldStart(layout, i + 1) = f[(i + 1) - 1] /\ FieldStart(layout, i) = f[i - 1]
    BY <1>3, <2>1
  <2> QED BY <1>2, <2>1, <2>2
<1> QED BY <1>4, <1>5, <1>6

Kinds == {"u16", "u64", "nonce", "id", "proof", "error", "rest"}
(* Only the last field of a layout may take the rest.                      *)
SoundLayout(layout) ==
  /\ layout \in Seq(Kinds) /\ Len(layout) \in Nat /\ 1 <= Len(layout)
  /\ \A i \in 1..Len(layout) : i < Len(layout) => layout[i] # "rest"

(* What Width says of the kinds of fields.                                 *)
LEMMA WidthsTyped == \A kind \in Kinds : Width(kind) \in Nat
BY DEF Kinds, Width

(* The rest takes whatever is left, an error code two bytes.               *)
LEMMA RestHasNoWidth == Width("rest") = 0 /\ Width("error") = 2
BY DEF Width

(* Fields of fixed width, and a last one.                                  *)
LEMMA LastMayRest ==
  ASSUME NEW s \in Seq(Kinds \ {"rest"}), NEW k \in Kinds
  PROVE  SoundLayout(Append(s, k)) /\ SoundLayout(s \o <<k>>)
<1> DEFINE l == Append(s, k)
<1>1. /\ s \in Seq(Kinds) /\ l \in Seq(Kinds) /\ Len(s) \in Nat /\ Len(l) = Len(s) + 1
      /\ \A i \in 1..Len(s) : l[i] = s[i] /\ s[i] # "rest"
  OBVIOUS
<1>2. s \o <<k>> = l
  BY <1>1
<1> HIDE DEF l
<1>3. SoundLayout(l)
  BY <1>1 DEF SoundLayout
<1> QED BY <1>2, <1>3 DEF l

(* So it is of all the layouts.                                            *)
LEMMA LayoutsSound == \A type : SoundLayout(Layout(type))
<1> SUFFICES ASSUME NEW type PROVE SoundLayout(Layout(type))
  OBVIOUS
<1>0. /\ \A k \in {"u16", "u64", "nonce", "id", "proof", "error", "rest"} : k \in Kinds
      /\ \A k \in {"u16", "u64", "nonce", "id", "proof", "error"} : k \in Kinds \ {"rest"}
  BY DEF Kinds
<1>1. CASE type \notin DOMAIN Layouts
  <2>1. Layout(type) = <<"rest">>
    BY <1>1 DEF Layout
  <2> QED BY <1>0, <2>1 DEF SoundLayout
<1>2. CASE type \in DOMAIN Layouts
  <2>1. Layout(type) = Layouts[type]
    BY <1>2 DEF Layout
  <2> DEFINE position == <<"u64", "u64", "u64">>
             answer == <<"id", "u64", "nonce">>
             agreed == <<"u16", "u64", "nonce", "nonce">>
  <2>2. /\ type \in {1, 2, 3, 4, 16, 17, 18, 19, 20, 32}
        /\ Layouts[type] =
             CASE type = 1 -> <<"u16", "u16", "u64", "u64", "nonce">>
               [] type = 2 -> agreed
               [] type = 3 -> answer \o agreed \o <<"proof">>
               [] type = 4 -> answer
               [] type = 16 -> <<"u64">>
               [] type = 17 -> Append(position, "rest")
               [] type \in {18, 19} -> position
               [] type = 20 -> <<"u64", "error">>
               [] type = 32 -> <<"error">>
    BY <1>2 DEF Layouts, Offer, StreamData, StreamPosition, CanonicalParameters
  <2> DEFINE Fixed == Seq(Kinds \ {"rest"})
  <2>3. /\ <<"u16", "u16", "u64", "u64", "nonce">> \in Fixed /\ agreed \in Fixed /\ answer \in Fixed
        /\ <<"u64">> \in Fixed /\ position \in Fixed /\ <<"u64", "error">> \in Fixed /\ <<"error">> \in Fixed
        /\ Len(<<"u16", "u16", "u64", "u64", "nonce">>) = 5 /\ Len(agreed) = 4 /\ Len(answer) = 3
        /\ Len(<<"u64">>) = 1 /\ Len(position) = 3 /\ Len(<<"u64", "error">>) = 2 /\ Len(<<"error">>) = 1
    BY <1>0
  <2>4. ASSUME NEW l \in Fixed, Len(l) >= 1 PROVE SoundLayout(l)
    <3>1. l \in Seq(Kinds) /\ Len(l) \in Nat /\ \A i \in 1..Len(l) : l[i] # "rest"
      OBVIOUS
    <3> QED BY <2>4, <3>1 DEF SoundLayout
  <2>5. SoundLayout(answer \o agreed \o <<"proof">>)
    <3>1. answer \o agreed \in Fixed
      BY <2>3
    <3> HIDE DEF answer, agreed
    <3> QED BY <1>0, <3>1, LastMayRest
  <2>6. SoundLayout(Append(position, "rest"))
    BY <1>0, <2>3, LastMayRest
  <2>7. /\ SoundLayout(<<"u16", "u16", "u64", "u64", "nonce">>) /\ SoundLayout(agreed)
        /\ SoundLayout(answer) /\ SoundLayout(<<"u64">>) /\ SoundLayout(position)
        /\ SoundLayout(<<"u64", "error">>) /\ SoundLayout(<<"error">>)
    <3>1. 5 >= 1 /\ 4 >= 1 /\ 3 >= 1 /\ 2 >= 1 /\ 1 >= 1
      OBVIOUS
    <3> HIDE DEF answer, agreed, position, Fixed
    <3> QED BY <2>3, <2>4, <3>1
  <2>8. SoundLayout(Layouts[type])
    <3> HIDE DEF answer, agreed, position
    <3> QED BY <2>2, <2>5, <2>6, <2>7
  <2> QED BY <2>1, <2>8
<1> QED BY <1>1, <1>2

(* The fourth field of a data frame is its data.                           *)
LEMMA DataIsTheRest == 4 \in 1..Len(Layout(StreamData)) /\ Layout(StreamData)[4] = "rest"
<1>1. StreamData \in DOMAIN Layouts
  BY DEF Layouts, StreamData
<1>2. Layouts[StreamData] = Append(StreamPosition, "rest")
  BY DEF Layouts, StreamData, Offer
<1>3. StreamPosition \in Seq({"u64", "rest"}) /\ Len(StreamPosition) = 3
  BY DEF StreamPosition
<1>4. \A s \in Seq({"u64", "rest"}) :
        Len(Append(s, "rest")) = Len(s) + 1 /\ Append(s, "rest")[Len(s) + 1] = "rest"
  OBVIOUS
<1>5. /\ Len(Append(StreamPosition, "rest")) = Len(StreamPosition) + 1
      /\ Append(StreamPosition, "rest")[Len(StreamPosition) + 1] = "rest"
  BY <1>3, <1>4, Zenon
<1>6. Len(StreamPosition) + 1 = 4 /\ 4 \in 1..4
  BY <1>3
<1>7. Layout(StreamData) = Append(StreamPosition, "rest")
  BY <1>1, <1>2 DEF Layout
<1> QED BY <1>5, <1>6, <1>7, Zenon

(* The bytes of a number of two and of four bytes.                         *)
LEMMA LowByte ==
  ASSUME NEW x \in Nat, NEW y \in Nat, y <= 255
  PROVE  (256 * x + y) \div 256 = x /\ (256 * x + y) % 256 = y
OBVIOUS

(* Two bytes are those of their number.                                    *)
LEMMA TwoBytesOfNumber ==
  ASSUME NEW b \in Seq(Byte), Len(b) = 2
  PROVE  Number(b) \in Nat /\ Number(b) <= 65535 /\ BigEndian(Number(b), 2) = b
<1> DEFINE n == Number(b)
           c == BigEndian(n, 2)
<1>1. b[1] \in Nat /\ b[1] <= 255 /\ b[2] \in Nat /\ b[2] <= 255
  <2>1. 1 \in 1..Len(b) /\ 2 \in 1..Len(b)
    OBVIOUS
  <2> QED BY <2>1, BytesAreNumbers, SmallNumbers
<1>2. n = 256 * b[1] + b[2]
  BY DEF Number
<1> HIDE DEF n
<1>3. n \in Nat /\ n <= 65535 /\ n \div 256 = b[1] /\ n \div 1 = n /\ n % 256 = b[2] /\ b[1] % 256 = b[1]
  <2>1. n \div 256 = b[1] /\ n % 256 = b[2]
    BY <1>1, <1>2, LowByte
  <2>2. n \in Nat /\ n <= 65535
    BY <1>1, <1>2
  <2>3. n \div 1 = n
    BY <2>2
  <2>4. b[1] % 256 = b[1]
    BY <1>1
  <2> QED BY <2>1, <2>2, <2>3, <2>4
<1>4. c = [i \in 1..2 |-> (n \div <<1, 256, 65536, 16777216>>[2 - i + 1]) % 256]
  BY DEF BigEndian
<1>5. c[1] = b[1] /\ c[2] = b[2]
  BY <1>3, <1>4
<1>6. c \in Seq(Byte) /\ Len(c) = 2
  BY <1>3, NumberOfTwoBytes
<1>7. \A i \in 1..2 : c[i] = b[i]
  BY <1>5
<1> HIDE DEF c
<1>8. c = b
  BY <1>6, <1>7
<1> QED BY <1>3, <1>8 DEF c, n

(* The code of an error is what it was read from, known or not.            *)
LEMMA CodesReadBack == \A n \in Nat : AsU16(FromU16(n)) = n
<1>1. /\ \A m \in DOMAIN ErrorCodes : ErrorCodes[m] # "Unknown"
      /\ \A m, n \in DOMAIN ErrorCodes : ErrorCodes[m] = ErrorCodes[n] => m = n
  BY DEF ErrorCodes
<1> SUFFICES ASSUME NEW n \in Nat PROVE AsU16(FromU16(n)) = n
  OBVIOUS
<1>2. CASE n \notin DOMAIN ErrorCodes
  <2>1. FromU16(n) = [name |-> "Unknown", value |-> n]
    BY <1>2 DEF FromU16
  <2> QED BY <2>1 DEF AsU16
<1>3. CASE n \in DOMAIN ErrorCodes
  <2>1. FromU16(n) = [name |-> ErrorCodes[n], value |-> n]
    BY <1>3 DEF FromU16
  <2>2. AsU16(FromU16(n)) = CHOOSE m \in DOMAIN ErrorCodes : ErrorCodes[m] = ErrorCodes[n]
    BY <1>1, <1>3, <2>1 DEF AsU16
  <2> DEFINE P(m) == m \in DOMAIN ErrorCodes /\ ErrorCodes[m] = ErrorCodes[n]
  <2>3. P(CHOOSE m : P(m))
    <3>1. P(n) BY <1>3
    <3> HIDE DEF P
    <3> QED BY <3>1
  <2> QED BY <1>1, <1>3, <2>2, <2>3
<1> QED BY <1>2, <1>3

(* A payload that decodes has a length that the layout allows.             *)
FixedWidth(layout) == FieldStart(layout, Len(layout)) + Width(layout[Len(layout)])
Fits(layout, payload) ==
  IF layout[Len(layout)] = "rest" THEN Len(payload) >= FixedWidth(layout)
  ELSE Len(payload) = FixedWidth(layout)

(* The fields of a payload that fits are all of it.                        *)
LEMMA FieldsAreAll ==
  ASSUME NEW layout, SoundLayout(layout), NEW payload \in Seq(Byte), Fits(layout, payload)
  PROVE  /\ \A i \in 1..Len(layout) :
              /\ Field(layout, payload, i) \in Seq(Byte)
              /\ layout[i] = "error" => Len(Field(layout, payload, i)) = 2
         /\ FlattenSeq([i \in 1..Len(layout) |-> Field(layout, payload, i)]) = payload
<1> DEFINE n == Len(layout)
           start == [i \in 1..n |-> FieldStart(layout, i)]
           width == [i \in 1..n |-> Width(layout[i])]
           size == Len(payload)
           cut == [k \in 0..n |-> IF k = n THEN size ELSE start[k + 1]]
<1>1. n \in Nat /\ 1 <= n /\ size \in Nat /\ \A i \in 1..n : layout[i] \in Kinds
  BY DEF SoundLayout
<1>2. /\ start \in [1..n -> Nat] /\ width \in [1..n -> Nat] /\ start[1] = 0
      /\ \A i \in 1..n : i < n => start[i + 1] = start[i] + width[i]
  <2>1. \A i \in 1..n : Width(layout[i]) \in Nat
    BY <1>1, WidthsTyped
  <2>2. /\ \A i \in 1..n : FieldStart(layout, i) \in Nat
        /\ FieldStart(layout, 1) = 0
        /\ \A i \in 1..n : i < n => FieldStart(layout, i + 1) = FieldStart(layout, i) + Width(layout[i])
    <3> HIDE DEF n
    <3> QED BY <1>1, <2>1, FieldStarts
  <2>3. 1 \in 1..n /\ \A i \in 1..n : i < n => i + 1 \in 1..n
    BY <1>1
  <2> HIDE DEF n
  <2> QED BY <2>1, <2>2, <2>3
<1>3. /\ start[n] + width[n] <= size
      /\ layout[n] # "rest" => start[n] + width[n] = size
  <2>1. n \in 1..n
    BY <1>1
  <2>2. start[n] = FieldStart(layout, n) /\ width[n] = Width(layout[n]) /\ start[n] + width[n] \in Nat
    BY <1>2, <2>1
  <2> QED BY <1>1, <2>2 DEF Fits, FixedWidth
<1>4. \A i \in 1..n : i < n => layout[i] # "rest"
  BY DEF SoundLayout
<1>5. \A i \in 1..n : /\ Field(layout, payload, i) =
                           SubSeq(payload, start[i] + 1,
                                  IF layout[i] = "rest" THEN size ELSE start[i] + width[i])
                      /\ layout[i] = "error" => width[i] = 2
  BY RestHasNoWidth DEF Field
<1> HIDE DEF start, width, n, size
(* Every field ends within the payload.                                    *)
<1>6. \A i \in 1..n : start[i] + width[i] <= size
  <2> DEFINE S == {k \in 0..(n - 1) : start[n - k] + width[n - k] <= size}
  <2>1. 0 \in S
    BY <1>1, <1>3
  <2>2. ASSUME NEW k \in 0..(n - 1), k \in S, k < n - 1 PROVE k + 1 \in S
    <3> DEFINE j == n - (k + 1)
    <3>1. j \in 1..n /\ j < n /\ j + 1 = n - k /\ j + 1 \in 1..n /\ k + 1 \in 0..(n - 1)
      BY <1>1, <2>2
    <3>2. start[j + 1] = start[j] + width[j] /\ start[j + 1] + width[j + 1] <= size
      BY <1>2, <2>2, <3>1
    <3>3. start[j + 1] \in Nat /\ width[j + 1] \in Nat
      BY <1>2, <3>1
    <3>4. start[j] + width[j] <= size
      BY <1>1, <3>2, <3>3
    <3> QED BY <3>1, <3>4
  <2>3. 0..(n - 1) \subseteq S
    <3>1. n - 1 \in Nat
      BY <1>1
    <3> HIDE DEF S
    <3> QED BY <2>1, <2>2, <3>1, UpToInduction
  <2>4. ASSUME NEW i \in 1..n PROVE start[i] + width[i] <= size
    <3>1. n - i \in 0..(n - 1) /\ n - (n - i) = i
      BY <1>1
    <3>2. n - i \in S
      BY <2>3, <3>1
    <3> QED BY <3>1, <3>2
  <2> QED BY <2>4
<1>7. cut \in [0..n -> Nat] /\ cut[0] = 0 /\ cut[n] = size
  BY <1>1, <1>2
<1>8. ASSUME NEW k \in 1..n
      PROVE  /\ cut[k - 1] = start[k]
             /\ cut[k] = (IF layout[k] = "rest" THEN size ELSE start[k] + width[k])
             /\ cut[k - 1] <= cut[k] /\ cut[k] <= size
             /\ Field(layout, payload, k) = SubSeq(payload, cut[k - 1] + 1, cut[k])
             /\ Field(layout, payload, k) \in Seq(Byte)
             /\ layout[k] = "error" => Len(Field(layout, payload, k)) = 2
  <2>1. k - 1 \in 0..n /\ k - 1 # n /\ (k - 1) + 1 = k
    BY <1>1
  <2>2. cut[k - 1] = start[k]
    BY <2>1
  <2>3. cut[k] = (IF layout[k] = "rest" THEN size ELSE start[k] + width[k])
    <3>1. CASE k = n
      <4>1. cut[k] = size
        BY <1>7, <3>1
      <4> QED BY <1>3, <3>1, <4>1
    <3>2. CASE k # n
      <4>1. k < n /\ k \in 0..n
        BY <1>1, <3>2
      <4>2. cut[k] = start[k + 1]
        BY <3>2, <4>1
      <4> QED BY <1>2, <1>4, <4>1, <4>2
    <3> QED BY <3>1, <3>2
  <2> HIDE DEF cut
  <2>4. /\ start[k] \in Nat /\ width[k] \in Nat /\ start[k] + width[k] <= size
        /\ cut[k] \in Nat /\ cut[k - 1] \in Nat
    BY <1>2, <1>6, <1>7, <2>1
  <2>5. cut[k - 1] <= cut[k] /\ cut[k] <= size
    BY <1>1, <2>2, <2>3, <2>4
  <2>6. Field(layout, payload, k) = SubSeq(payload, cut[k - 1] + 1, cut[k])
    BY <1>5, <2>2, <2>3
  <2>7. SubSeq(payload, cut[k - 1] + 1, cut[k]) \in Seq(Byte)
        /\ Len(SubSeq(payload, cut[k - 1] + 1, cut[k])) = cut[k] - cut[k - 1]
    <3>1. size = Len(payload)
      BY DEF size
    <3> QED BY <2>4, <2>5, <3>1, SMTT(30)
  <2>8. layout[k] = "error" => cut[k] - cut[k - 1] = 2
    <3>1. ASSUME layout[k] = "error" PROVE cut[k] = start[k] + width[k] /\ width[k] = 2
      BY <1>5, <2>3, <3>1
    <3> QED BY <2>2, <2>4, <3>1
  <2> QED BY <2>2, <2>3, <2>5, <2>6, <2>7, <2>8
<1>9. FlattenSeq([i \in 1..n |-> Field(layout, payload, i)]) = payload
  <2> DEFINE p == [k \in 1..n |-> SubSeq(payload, cut[k - 1] + 1, cut[k])]
  <2>1. [i \in 1..n |-> Field(layout, payload, i)] = p
    <3> HIDE DEF cut
    <3> QED BY <1>8
  <2>2. size = Len(payload)
    BY DEF size
  <2>3. \A k \in 1..n : cut[k - 1] <= cut[k] /\ cut[k] <= Len(payload)
    <3> HIDE DEF cut
    <3> QED BY <1>8, <2>2
  <2>4. p = [k \in 1..n |-> SubSeq(payload, cut[k - 1] + 1, cut[k])] /\ cut[n] = Len(payload)
    BY <1>7, <2>2
  <2>5. FlattenSeq(p) = payload
    <3> HIDE DEF cut, p
    <3>1. n \in Nat /\ cut \in [0..n -> Nat] /\ cut[0] = 0
      BY <1>1, <1>7
    <3>2. payload \in Seq(Byte)
      OBVIOUS
    <3> QED BY ONLY <2>3, <2>4, <3>1, <3>2, SlicesFlatten, ZenonT(30)
  <2> QED BY <2>1, <2>5
<1> HIDE DEF cut
<1> QED BY <1>8, <1>9 DEF n

(* What decode_payload returns encodes to the payload it was given.        *)
LEMMA PayloadsReencode ==
  ASSUME NEW type, NEW payload \in Seq(Byte), Len(payload) <= MaxFramePayload,
         NEW frame, frame = DecodePayload(type, payload), frame # Unset
  PROVE  frame.type = type /\ Payload(frame) = payload /\ Encodable(frame)
<1> DEFINE layout == Layout(type)
           n == Len(layout)
           raw == [i \in DOMAIN layout |-> Field(layout, payload, i)]
           fields == [i \in DOMAIN layout |->
                        IF layout[i] = "error" THEN FromU16(Number(raw[i])) ELSE raw[i]]
<1>1. SoundLayout(layout)
  BY LayoutsSound
<1>2. n \in Nat /\ DOMAIN layout = 1..n
  BY <1>1 DEF SoundLayout
<1>3. /\ type \in DOMAIN Layouts \/ OptionalFrame(type)
      /\ Fits(layout, payload)
      /\ type = StreamData => raw[4] # << >>
      /\ frame = [type |-> type, fields |-> fields]
  BY DEF DecodePayload, Fits, FixedWidth
<1>4. /\ \A i \in 1..n : /\ Field(layout, payload, i) \in Seq(Byte)
                         /\ layout[i] = "error" => Len(Field(layout, payload, i)) = 2
      /\ FlattenSeq([i \in 1..n |-> Field(layout, payload, i)]) = payload
  <2> HIDE DEF layout
  <2> QED BY <1>1, <1>3, FieldsAreAll
<1>5. frame.type = type /\ frame.fields = fields
  BY <1>3
<1> HIDE DEF layout
<1>6. Payload(frame) =
        FlattenSeq([i \in 1..n |->
           IF layout[i] = "error" THEN BigEndian(AsU16(fields[i]), 2) ELSE fields[i]])
  <2> HIDE DEF fields, n
  <2> QED BY <1>2, <1>5 DEF Payload, layout
<1>7. ASSUME NEW i \in 1..n
      PROVE  (IF layout[i] = "error" THEN BigEndian(AsU16(fields[i]), 2) ELSE fields[i])
               = Field(layout, payload, i)
  <2>1. /\ raw[i] = Field(layout, payload, i)
        /\ fields[i] = IF layout[i] = "error" THEN FromU16(Number(raw[i])) ELSE raw[i]
    BY <1>2
  <2> HIDE DEF fields, raw, n
  <2>2. CASE layout[i] = "error"
    <3>1. raw[i] \in Seq(Byte) /\ Len(raw[i]) = 2
      BY <1>4, <2>1, <2>2
    <3>2. Number(raw[i]) \in Nat /\ BigEndian(Number(raw[i]), 2) = raw[i]
      BY <3>1, TwoBytesOfNumber
    <3>3. AsU16(fields[i]) = Number(raw[i])
      BY <2>1, <2>2, <3>2, CodesReadBack
    <3> QED BY <2>1, <2>2, <3>2, <3>3
  <2>3. CASE layout[i] # "error"
    BY <2>1, <2>3
  <2> QED BY <2>2, <2>3
<1>8. Payload(frame) = payload
  <2> DEFINE p == [i \in 1..n |->
                     IF layout[i] = "error" THEN BigEndian(AsU16(fields[i]), 2) ELSE fields[i]]
             q == [i \in 1..n |-> Field(layout, payload, i)]
  <2>1. p = q
    <3> HIDE DEF fields, n
    <3> QED BY <1>7
  <2> QED BY <1>4, <1>6, <2>1, Zenon
<1>9. frame.type = StreamData => frame.fields[4] # << >>
  <2> SUFFICES ASSUME type = StreamData PROVE fields[4] # << >>
    BY <1>5
  <2>1. 4 \in 1..n /\ layout[4] = "rest"
    BY DataIsTheRest DEF layout
  <2>2. fields[4] = IF layout[4] = "error" THEN FromU16(Number(raw[4])) ELSE raw[4]
    BY <1>2, <2>1
  <2> HIDE DEF fields, raw
  <2> QED BY <1>3, <2>1, <2>2
<1>10. frame.type \notin DOMAIN Layouts => OptionalFrame(frame.type)
  BY <1>3, <1>5
<1> QED BY <1>5, <1>8, <1>9, <1>10 DEF Encodable

(* A slice is a string of its own.                                         *)
LEMMA SliceTyped ==
  ASSUME NEW s \in Seq(Byte), NEW a \in Nat, NEW b \in Nat, 1 <= a, a <= b + 1, b <= Len(s)
  PROVE  SubSeq(s, a, b) \in Seq(Byte) /\ Len(SubSeq(s, a, b)) = b - a + 1
OBVIOUS

(* And so does decode_exact: no two byte strings are the same frame.       *)
LEMMA FramesReencode ==
  ASSUME NEW bytes \in Seq(Byte), 4 <= Len(bytes), DecodeExact(bytes) # Unset
  PROVE  Encode(DecodeExact(bytes)) = bytes /\ Encodable(DecodeExact(bytes))
<1> DEFINE payload == SubSeq(bytes, 5, Len(bytes))
           size == SubSeq(bytes, 3, 4)
           frame == DecodeExact(bytes)
<1>1. Len(bytes) - 4 = Number(size) /\ bytes[2] = 0 /\ frame = DecodePayload(bytes[1], payload)
  BY DEF DecodeExact
<1>2. /\ payload \in Seq(Byte) /\ Len(payload) = Len(bytes) - 4 /\ size \in Seq(Byte) /\ Len(size) = 2
      /\ Len(bytes) \in Nat /\ 1 \in 1..Len(bytes) /\ 2 \in 1..Len(bytes)
  <2>1. Len(bytes) \in Nat
    OBVIOUS
  <2>2. 1 \in 1..Len(bytes) /\ 2 \in 1..Len(bytes) /\ Len(bytes) - 4 \in Nat
    BY <2>1
  <2>3. payload \in Seq(Byte) /\ Len(payload) = Len(bytes) - 4
    <3>1. 5 <= Len(bytes) + 1 /\ Len(bytes) <= Len(bytes) /\ Len(bytes) - 5 + 1 = Len(bytes) - 4
          /\ 5 \in Nat /\ 1 <= 5
      BY <2>1
    <3>2. payload \in Seq(Byte) /\ Len(payload) = Len(bytes) - 5 + 1
      BY ONLY bytes \in Seq(Byte), <2>1, <3>1, SliceTyped
    <3> QED BY <3>1, <3>2
  <2>4. size \in Seq(Byte) /\ Len(size) = 2
    BY <2>1, <2>2
  <2> QED BY <2>1, <2>2, <2>3, <2>4
<1> HIDE DEF payload, size
<1>3. BigEndian(Len(payload), 2) = size /\ Len(payload) <= 65535
  BY <1>1, <1>2, TwoBytesOfNumber
<1>4. frame.type = bytes[1] /\ Payload(frame) = payload /\ Encodable(frame)
  <2>1. Len(payload) <= MaxFramePayload
    BY <1>3 DEF MaxFramePayload
  <2> HIDE DEF frame
  <2>2. frame # Unset
    BY DEF frame
  <2> QED BY <1>1, <1>2, <2>1, <2>2, PayloadsReencode
<1>5. Encode(frame) = <<bytes[1], bytes[2]>> \o size \o payload
  <2> HIDE DEF frame
  <2> QED BY <1>1, <1>3, <1>4, SMTT(30) DEF Encode
<1>6. <<bytes[1], bytes[2]>> = SubSeq(bytes, 1, 2)
  <2>1. bytes[1] \in Byte /\ bytes[2] \in Byte
    BY <1>2
  <2>2. <<bytes[1]>> \o <<bytes[2]>> = <<bytes[1], bytes[2]>>
    BY <2>1, PairOf
  <2>3. <<bytes[1]>> = SubSeq(bytes, 1, 1) /\ <<bytes[2]>> = SubSeq(bytes, 2, 2)
    BY <1>2, SliceOfOne
  <2>4. SubSeq(bytes, 1, 1) \o SubSeq(bytes, 1 + 1, 2) = SubSeq(bytes, 1, 2)
    <3>1. 1 \in Nat /\ 2 \in Nat /\ 1 <= 1 /\ 1 <= 1 + 1 /\ 1 <= 2 /\ 2 <= Len(bytes)
      BY <1>2
    <3> QED BY ONLY <3>1, bytes \in Seq(Byte), SlicesJoin
  <2> QED BY <2>2, <2>3, <2>4
<1>7. SubSeq(bytes, 1, 2) \o size = SubSeq(bytes, 1, 4)
  <2>1. 1 \in Nat /\ 2 \in Nat /\ 4 \in Nat /\ 1 <= 1 /\ 1 <= 2 + 1 /\ 2 <= 4 /\ 4 <= Len(bytes)
    BY <1>2
  <2>2. SubSeq(bytes, 1, 2) \o SubSeq(bytes, 2 + 1, 4) = SubSeq(bytes, 1, 4)
    BY ONLY <2>1, bytes \in Seq(Byte), SlicesJoin
  <2>3. 2 + 1 = 3
    OBVIOUS
  <2> QED BY <2>2, <2>3 DEF size
<1>8. SubSeq(bytes, 1, 4) \o payload = bytes
  <2>1. 1 \in Nat /\ 4 \in Nat /\ Len(bytes) \in Nat /\ 1 <= 1 /\ 1 <= 4 + 1 /\ 4 <= Len(bytes)
        /\ Len(bytes) <= Len(bytes)
    BY <1>2
  <2>2. SubSeq(bytes, 1, 4) \o SubSeq(bytes, 4 + 1, Len(bytes)) = SubSeq(bytes, 1, Len(bytes))
    BY ONLY <2>1, bytes \in Seq(Byte), SlicesJoin
  <2>3. 4 + 1 = 5 /\ SubSeq(bytes, 1, Len(bytes)) = bytes
    OBVIOUS
  <2> QED BY <2>2, <2>3 DEF payload
<1>9. Encode(frame) = bytes
  BY <1>5, <1>6, <1>7, <1>8, Zenon
<1> QED BY <1>4, <1>9

-----------------------------------------------------------------------------
(* What was delivered, encoded again.                                      *)
DecodedFrames == {DecodeExact(b) : b \in Seq(Byte)}
Again(frames) == FlattenSeq([i \in DOMAIN frames |-> Encode(frames[i])])
GoodFrames(frames) ==
  /\ frames \in Seq(DecodedFrames)
  /\ \A i \in DOMAIN frames : Encodable(frames[i]) /\ Encode(frames[i]) \in Seq(Byte)

(* A function on 1..n is a sequence of its values.                         *)
LEMMA ListOf ==
  ASSUME NEW n \in Nat, NEW S, NEW p, DOMAIN p = 1..n, p = [k \in 1..n |-> p[k]],
         \A k \in 1..n : p[k] \in S
  PROVE  p \in Seq(S) /\ Len(p) = n
OBVIOUS

(* A frame more, and its bytes are joined to those of the frames before.   *)
LEMMA GoodFramesAppend ==
  ASSUME NEW frames, GoodFrames(frames), NEW bytes \in Seq(Byte), 4 <= Len(bytes),
         DecodeExact(bytes) # Unset
  PROVE  /\ GoodFrames(Append(frames, DecodeExact(bytes)))
         /\ Again(frames) \in Seq(Byte)
         /\ Again(Append(frames, DecodeExact(bytes))) = Again(frames) \o bytes
<1> DEFINE f == DecodeExact(bytes)
           more == Append(frames, f)
           n == Len(frames)
           s == [i \in DOMAIN frames |-> Encode(frames[i])]
           t == [i \in DOMAIN more |-> Encode(more[i])]
<1>1. Encode(f) = bytes /\ Encodable(f) /\ f \in DecodedFrames
  BY FramesReencode DEF DecodedFrames
<1> HIDE DEF f
<1>2. /\ frames \in Seq(DecodedFrames) /\ n \in Nat /\ DOMAIN frames = 1..n
      /\ more \in Seq(DecodedFrames) /\ Len(more) = n + 1 /\ DOMAIN more = 1..(n + 1)
      /\ \A i \in 1..n : more[i] = frames[i]
      /\ more[n + 1] = f
  BY <1>1 DEF GoodFrames
<1> HIDE DEF more
<1>3. GoodFrames(more)
  <2>1. ASSUME NEW i \in 1..(n + 1) PROVE Encodable(more[i]) /\ Encode(more[i]) \in Seq(Byte)
    <3>1. CASE i = n + 1
      BY <1>1, <1>2, <3>1
    <3>2. CASE i # n + 1
      <4>1. i \in 1..n /\ more[i] = frames[i]
        BY <1>2, <3>2
      <4> HIDE DEF n
      <4> QED BY <1>2, <4>1 DEF GoodFrames
    <3> QED BY <3>1, <3>2
  <2> HIDE DEF n
  <2> QED BY <1>2, <2>1 DEF GoodFrames
<1>4. s \in Seq(Seq(Byte)) /\ Len(s) = n /\ \A i \in 1..n : s[i] = Encode(frames[i])
  <2>1. DOMAIN s = 1..n /\ s = [i \in 1..n |-> s[i]] /\ \A i \in 1..n : s[i] \in Seq(Byte) /\ s[i] = Encode(frames[i])
    BY <1>2 DEF GoodFrames
  <2> HIDE DEF s, n
  <2> QED BY <1>2, <2>1, ListOf
<1>5. t \in Seq(Seq(Byte)) /\ Len(t) = n + 1 /\ \A i \in 1..(n + 1) : t[i] = Encode(more[i])
  <2>1. DOMAIN t = 1..(n + 1) /\ n + 1 \in Nat /\ t = [i \in 1..(n + 1) |-> t[i]]
        /\ \A i \in 1..(n + 1) : t[i] \in Seq(Byte) /\ t[i] = Encode(more[i])
    BY <1>2, <1>3 DEF GoodFrames
  <2> HIDE DEF t, n
  <2> QED BY <1>2, <2>1, ListOf
<1>6. t = Append(s, bytes)
  <2> DEFINE u == Append(s, bytes)
  <2> HIDE DEF s, t, n
  <2>1. u \in Seq(Seq(Byte)) /\ Len(u) = n + 1 /\ u[n + 1] = bytes /\ \A i \in 1..n : u[i] = s[i]
    BY <1>2, <1>4
  <2>2. ASSUME NEW i \in 1..(n + 1) PROVE t[i] = u[i]
    <3>1. CASE i = n + 1
      BY <1>1, <1>2, <1>5, <2>1, <3>1
    <3>2. CASE i # n + 1
      <4>1. i \in 1..n
        BY <1>2, <3>2
      <4> HIDE DEF u
      <4> QED BY <1>2, <1>4, <1>5, <2>1, <4>1
    <3> QED BY <3>1, <3>2
  <2> HIDE DEF u
  <2>3. t = u
    BY <1>2, <1>5, <2>1, <2>2
  <2> QED BY <2>3 DEF u
<1>7. FlattenSeq(s) \in Seq(Byte) /\ FlattenSeq(t) = FlattenSeq(s) \o bytes
  <2> HIDE DEF s, t
  <2> QED BY <1>4, <1>6, FlattenAppends
<1>8. Again(frames) = FlattenSeq(s) /\ Again(more) = FlattenSeq(t)
  BY DEF Again
<1> HIDE DEF s, t
<1>9. Again(more) = Again(frames) \o bytes
  BY <1>7, <1>8, Zenon
<1> QED BY <1>3, <1>7, <1>8, <1>9 DEF more, f

(* Nothing delivered is nothing; what is delivered are bytes.              *)
LEMMA AgainTyped ==
  ASSUME NEW frames, GoodFrames(frames)
  PROVE  Again(frames) \in Seq(Byte)
<1> DEFINE n == Len(frames)
           s == [i \in DOMAIN frames |-> Encode(frames[i])]
<1>1. frames \in Seq(DecodedFrames) /\ n \in Nat /\ DOMAIN frames = 1..n
  BY DEF GoodFrames
<1>2. s \in Seq(Seq(Byte))
  <2>1. s = [i \in 1..n |-> s[i]] /\ \A i \in 1..n : s[i] \in Seq(Byte)
    BY <1>1 DEF GoodFrames
  <2> HIDE DEF s, n
  <2> QED BY <1>1, <2>1
<1>3. FlattenSeq(s) \in Seq(Byte)
  <2>1. << >> \in Seq(Byte)
    OBVIOUS
  <2> HIDE DEF s
  <2> QED BY <1>2, <2>1, FlattenAppends
<1> QED BY <1>3 DEF Again

(* No frames are no bytes.                                                 *)
LEMMA NothingAgain == GoodFrames(<< >>) /\ Again(<< >>) = << >>
<1>1. GoodFrames(<< >>)
  BY DEF GoodFrames
<1>2. [i \in DOMAIN << >> |-> Encode(<< >>[i])] = << >>
  OBVIOUS
<1>3. FlattenSeq(<< >>) = << >>
  BY DEF FlattenSeq
<1> QED BY <1>1, <1>2, <1>3 DEF Again

(* One after the other, in any grouping.                                   *)
LEMMA Grouped ==
  ASSUME NEW a \in Seq(Byte), NEW b \in Seq(Byte), NEW c \in Seq(Byte)
  PROVE  (a \o b) \o c = a \o (b \o c) /\ a \o << >> = a /\ << >> \o a = a
OBVIOUS

(* FrameDecoder::push between two frames: what was delivered, encoded      *)
(* again, and what is buffered are all the bytes.                          *)
Midway(x, all) ==
  /\ x \in [buffered : Seq(Byte), held : Nat, frames : Seq(DecodedFrames), failed : BOOLEAN]
  /\ GoodFrames(x.frames)
  /\ x.failed \/ x.held = 0 \/ x.held < Len(x.buffered)
  /\ ~x.failed => Again(x.frames) \o x.buffered = all
(* Less than a frame.                                                      *)
Short(b) == Len(b) >= 4 => Len(b) < 4 + Number(SubSeq(b, 3, 4))
Advances(x, y) ==
  \/ y.failed \/ (y = x /\ Short(x.buffered)) \/ Len(y.buffered) + 4 <= Len(x.buffered)

(* One turn of FrameDecoder::push's loop keeps all the bytes, and either   *)
(* ends it or takes the four bytes of a header at least.                   *)
LEMMA PushFrameKeeps ==
  ASSUME NEW x, NEW all, Midway(x, all)
  PROVE  Midway(PushFrame(x), all) /\ Advances(x, PushFrame(x))
<1> DEFINE b == x.buffered
           advertised == Number(SubSeq(b, 3, 4))
           total == 4 + advertised
           bytes == SubSeq(b, 1, total)
           rest == SubSeq(b, 1 + total, Len(b))
           frame == DecodeExact(bytes)
           y == PushFrame(x)
<1>1. /\ b \in Seq(Byte) /\ x.held \in Nat /\ x.frames \in Seq(DecodedFrames) /\ x.failed \in BOOLEAN
      /\ Len(b) \in Nat /\ GoodFrames(x.frames)
      /\ x = [buffered |-> b, held |-> x.held, frames |-> x.frames, failed |-> x.failed]
  BY DEF Midway
<1>2. CASE x.failed
  <2>1. y = x
    BY <1>2 DEF PushFrame
  <2> QED BY <1>2, <2>1 DEF Advances
<1>3. CASE ~x.failed /\ Len(b) < 4
  <2>1. y = x
    BY <1>3 DEF PushFrame
  <2>2. Short(b)
    BY <1>1, <1>3 DEF Short
  <2> QED BY <2>1, <2>2 DEF Advances
<1>4. CASE ~x.failed /\ ~(Len(b) < 4)
  <2>1. advertised \in Nat /\ total \in Nat /\ 4 <= Len(b)
    <3>1. 4 <= Len(b)
      BY <1>1, <1>4
    <3>2. SubSeq(b, 3, 4) \in Seq(Byte) /\ Len(SubSeq(b, 3, 4)) = 2
      <4>1. 3 \in Nat /\ 4 \in Nat /\ 1 <= 3 /\ 3 <= 4 + 1 /\ 4 - 3 + 1 = 2
        OBVIOUS
      <4> HIDE DEF b
      <4> QED BY ONLY <1>1, <3>1, <4>1, SliceTyped
    <3>3. advertised \in Nat
      <4> DEFINE two == SubSeq(b, 3, 4)
      <4>1. two \in Seq(Byte) /\ Len(two) = 2
        BY <3>2
      <4>2. advertised = Number(two)
        OBVIOUS
      <4> HIDE DEF two, advertised
      <4> QED BY ONLY <4>1, <4>2, TwoBytesOfNumber
    <3> HIDE DEF advertised
    <3> QED BY <3>1, <3>3
  <2>2. CASE advertised > MaximumPayload
    <3>1. y = [buffered |-> << >>, held |-> x.held, frames |-> x.frames, failed |-> TRUE]
      BY <1>1, <1>4, <2>2 DEF PushFrame
    <3>2. y.failed /\ y.frames = x.frames
          /\ y \in [buffered : Seq(Byte), held : Nat, frames : Seq(DecodedFrames), failed : BOOLEAN]
      BY <1>1, <3>1
    <3> HIDE DEF y
    <3> QED BY <1>1, <3>2 DEF Midway, Advances, y
  <2>3. CASE ~(advertised > MaximumPayload) /\ Len(b) < total
    <3>1. y = x
      BY <1>4, <2>3 DEF PushFrame
    <3>2. Short(b)
      BY <2>3 DEF Short
    <3> QED BY <3>1, <3>2 DEF Advances
  <2>4. CASE ~(advertised > MaximumPayload) /\ ~(Len(b) < total)
    <3>1. total <= Len(b) /\ 1 <= total /\ 4 <= total
      <4> HIDE DEF advertised
      <4>1. total <= Len(b)
        BY <1>1, <2>1, <2>4
      <4> QED BY <2>1, <4>1
    <3>2. /\ bytes \in Seq(Byte) /\ Len(bytes) = total
          /\ rest \in Seq(Byte) /\ Len(rest) = Len(b) - total
          /\ bytes \o rest = b
      <4> HIDE DEF total, b
      <4>1. /\ 1 \in Nat /\ 1 <= 1 /\ 1 <= total + 1 /\ total - 1 + 1 = total /\ 1 + total \in Nat
            /\ 1 <= 1 + total /\ 1 + total <= Len(b) + 1 /\ Len(b) <= Len(b)
            /\ Len(b) - (1 + total) + 1 = Len(b) - total /\ total + 1 = 1 + total
        BY <1>1, <2>1, <3>1
      <4>2. bytes \in Seq(Byte) /\ Len(bytes) = total - 1 + 1
        BY ONLY <1>1, <2>1, <3>1, <4>1, SliceTyped
      <4>3. rest \in Seq(Byte) /\ Len(rest) = Len(b) - (1 + total) + 1
        BY ONLY <1>1, <2>1, <3>1, <4>1, SliceTyped
      <4>4. SubSeq(b, 1, total) \o SubSeq(b, total + 1, Len(b)) = SubSeq(b, 1, Len(b))
        BY ONLY <1>1, <2>1, <3>1, <4>1, SlicesJoin, ZenonT(30)
      <4>5. SubSeq(b, 1, Len(b)) = b
        BY <1>1
      <4> QED BY <4>1, <4>2, <4>3, <4>4, <4>5
    <3>3. CASE frame = Unset
      <4> DEFINE last == IF x.held < total THEN total ELSE x.held + 1
                 kept == SubSeq(b, 1, last)
      <4>1. y = [buffered |-> kept, held |-> x.held, frames |-> x.frames, failed |-> TRUE]
        BY <1>1, <1>4, <2>4, <3>3 DEF PushFrame
      <4>2. kept \in Seq(Byte)
        <5>1. last \in Nat /\ last <= Len(b) /\ 1 <= last + 1
          <6>1. x.held = 0 \/ x.held < Len(b)
            BY <1>4 DEF Midway
          <6> HIDE DEF total, b
          <6> QED BY <1>1, <2>1, <3>1, <6>1
        <5>2. 1 \in Nat /\ 1 <= 1
          OBVIOUS
        <5> HIDE DEF last, b
        <5> QED BY ONLY <1>1, <5>1, <5>2, SliceTyped
      <4> HIDE DEF kept
      <4>3. y.failed /\ y.frames = x.frames
            /\ y \in [buffered : Seq(Byte), held : Nat, frames : Seq(DecodedFrames), failed : BOOLEAN]
        BY <1>1, <4>1, <4>2
      <4> HIDE DEF y
      <4> QED BY <1>1, <4>3 DEF Midway, Advances, y
    <3>4. CASE frame # Unset
      <4> DEFINE more == Append(x.frames, frame)
      <4>1. y = [buffered |-> rest, held |-> 0, frames |-> more, failed |-> FALSE]
        BY <1>1, <1>4, <2>4, <3>4 DEF PushFrame
      <4>2. /\ GoodFrames(more) /\ Again(x.frames) \in Seq(Byte)
            /\ Again(more) = Again(x.frames) \o bytes
        <5>1. 4 <= Len(bytes)
          BY <3>1, <3>2
        <5> HIDE DEF bytes
        <5> QED BY <1>1, <3>2, <3>4, <5>1, GoodFramesAppend
      <4>3. Again(more) \o rest = all
        <5>1. (Again(x.frames) \o bytes) \o rest = Again(x.frames) \o (bytes \o rest)
          <6> HIDE DEF bytes, rest
          <6> QED BY <3>2, <4>2, Grouped, ZenonT(30)
        <5>2. Again(x.frames) \o b = all
          BY <1>4 DEF Midway
        <5> HIDE DEF bytes, rest, more, b
        <5> QED BY <3>2, <4>2, <5>1, <5>2, Zenon
      <4>4. more \in Seq(DecodedFrames)
        <5> HIDE DEF more
        <5> QED BY <4>2 DEF GoodFrames
      <4>5. Len(rest) + 4 <= Len(b)
        <5> HIDE DEF rest, total, b
        <5> QED BY <1>1, <2>1, <3>1, <3>2
      <4> HIDE DEF more, rest
      <4>6. /\ y.buffered = rest /\ y.held = 0 /\ y.frames = more /\ ~y.failed
            /\ y \in [buffered : Seq(Byte), held : Nat, frames : Seq(DecodedFrames), failed : BOOLEAN]
        BY <3>2, <4>1, <4>4
      <4>7. Midway(y, all) /\ Advances(x, y)
        <5> HIDE DEF y
        <5> QED BY <4>2, <4>3, <4>5, <4>6 DEF Midway, Advances
      <4> QED BY <4>7
    <3> QED BY <3>3, <3>4
  <2> QED BY <2>2, <2>3, <2>4
<1> QED BY <1>2, <1>3, <1>4

(* FrameDecoder::push: every frame of the chunk is taken.                  *)
LEMMA PushFramesTakesAll ==
  ASSUME NEW d, d.buffered \in Seq(Byte), GoodFrames(d.frames),
         NEW chunk \in Seq(Byte), chunk # << >>
  PROVE  LET next == PushFrames(d, chunk)
         IN /\ Midway(next, Again(d.frames) \o (d.buffered \o chunk))
            /\ ~next.failed => Short(next.buffered)
<1> DEFINE whole == d.buffered \o chunk
           all == Again(d.frames) \o whole
           n == Len(whole) \div 4
           before == [buffered |-> whole, held |-> Len(d.buffered), frames |-> d.frames, failed |-> FALSE]
           X == {x \in [buffered : Seq(Byte), held : Nat, frames : Seq(DecodedFrames), failed : BOOLEAN] :
                   Midway(x, all)}
           step == [k \in 1..n |-> [x \in X |-> PushFrame(x)]]
           Rec(h) == h = [i \in 0..(Len(whole) \div 4) |->
                            IF i = 0 THEN before ELSE PushFrame(h[i - 1])]
<1>1. whole \in Seq(Byte) /\ Len(whole) \in Nat /\ Len(d.buffered) < Len(whole) /\ Len(d.buffered) \in Nat
  <2>1. Len(chunk) \in Nat /\ 1 <= Len(chunk)
    BY BytesAreNumbers
  <2>2. whole \in Seq(Byte) /\ Len(whole) = Len(d.buffered) + Len(chunk) /\ Len(d.buffered) \in Nat
    BY Continued
  <2> HIDE DEF whole
  <2> QED BY <2>1, <2>2
<1> HIDE DEF whole
<1>2. n \in Nat /\ Len(whole) < 4 * n + 4
  BY <1>1
<1>3. Midway(before, all) /\ before \in X
  <2>1. /\ before.buffered = whole /\ before.held = Len(d.buffered) /\ before.frames = d.frames
        /\ before.failed = FALSE
    OBVIOUS
  <2>2. before \in [buffered : Seq(Byte), held : Nat, frames : Seq(DecodedFrames), failed : BOOLEAN]
    BY <1>1 DEF GoodFrames
  <2> HIDE DEF before
  <2> QED BY <1>1, <2>1, <2>2 DEF Midway
<1>4. \A x \in X : Midway(x, all) /\ Midway(PushFrame(x), all) /\ PushFrame(x) \in X
  <2> SUFFICES ASSUME NEW x \in X PROVE Midway(x, all) /\ Midway(PushFrame(x), all) /\ PushFrame(x) \in X
    OBVIOUS
  <2> HIDE DEF all
  <2>1. Midway(x, all)
    OBVIOUS
  <2>2. Midway(PushFrame(x), all)
    BY <2>1, PushFrameKeeps
  <2> QED BY <2>1, <2>2 DEF Midway
<1> HIDE DEF X, n, before
<1>5. PICK f : Iterates(n, X, before, step, f)
  <2>1. step \in [1..n -> [X -> X]]
    BY <1>4
  <2> HIDE DEF step
  <2> QED BY <1>2, <1>3, <2>1, IteratesExist
<1>6. /\ f \in [0..n -> X] /\ f[0] = before
      /\ \A k \in 1..n : f[k] = PushFrame(f[k - 1])
  <2>1. f \in [0..n -> X] /\ f[0] = before
    BY <1>5 DEF Iterates
  <2>2. ASSUME NEW k \in 1..n PROVE f[k] = PushFrame(f[k - 1])
    <3>1. k - 1 \in 0..n
      BY <1>2
    <3>2. f[k] = step[k][f[k - 1]] /\ f[k - 1] \in X
      <4> HIDE DEF step
      <4> QED BY <1>5, <2>1, <3>1 DEF Iterates
    <3> QED BY <3>2
  <2> QED BY <2>1, <2>2
<1> HIDE DEF step
<1>7. PushFrames(d, chunk) = f[n]
  <2> DEFINE h == CHOOSE t : Rec(t)
  <2>1. Rec(f)
    <3>1. f = [i \in 0..n |-> f[i]]
      BY <1>6
    <3>2. \A i \in 0..n : f[i] = IF i = 0 THEN before ELSE PushFrame(f[i - 1])
      BY <1>2, <1>6
    <3>3. f = [i \in 0..n |-> IF i = 0 THEN before ELSE PushFrame(f[i - 1])]
      BY <3>1, <3>2
    <3> QED BY <3>3 DEF n
  <2>2. Rec(h)
    <3> HIDE DEF Rec
    <3> QED BY <2>1
  <2>3. PushFrames(d, chunk) = h[n]
    BY DEF PushFrames, whole, before, n
  <2> HIDE DEF h
  <2>4. \A i \in 0..n : h[i] = IF i = 0 THEN before ELSE PushFrame(h[i - 1])
    <3>1. h = [i \in 0..n |-> IF i = 0 THEN before ELSE PushFrame(h[i - 1])]
      BY <2>2 DEF n
    <3> QED BY <3>1
  <2> DEFINE S == {k \in 0..n : h[k] = f[k]}
  <2>5. 0 \in S
    BY <1>2, <1>6, <2>4
  <2>6. ASSUME NEW k \in 0..n, k \in S, k < n PROVE k + 1 \in S
    <3>1. k + 1 \in 1..n /\ k + 1 \in 0..n /\ (k + 1) - 1 = k /\ k + 1 # 0
      BY <1>2, <2>6
    <3>2. h[k + 1] = PushFrame(h[k]) /\ f[k + 1] = PushFrame(f[k])
      BY <1>6, <2>4, <3>1
    <3> QED BY <2>6, <3>1, <3>2
  <2>7. 0..n \subseteq S
    <3> HIDE DEF S
    <3> QED BY <1>2, <2>5, <2>6, UpToInduction
  <2>8. h[n] = f[n]
    BY <1>2, <2>7
  <2> QED BY <2>3, <2>8
(* Each step takes four bytes or more, or there is no frame left.          *)
<1>8. f[n].failed \/ Short(f[n].buffered)
  <2> DEFINE Done(k) == f[k].failed \/ Short(f[k].buffered) \/ Len(f[k].buffered) + 4 * k <= Len(whole)
             S == {k \in 0..n : Done(k)}
  <2>1. 0 \in S
    <3>1. f[0].buffered = whole
      BY <1>6 DEF before
    <3> QED BY <1>1, <1>2, <3>1
  <2>2. ASSUME NEW k \in 0..n, k \in S, k < n PROVE k + 1 \in S
    <3>1. k + 1 \in 1..n /\ k + 1 \in 0..n /\ (k + 1) - 1 = k
      BY <1>2, <2>2
    <3>2. f[k + 1] = PushFrame(f[k]) /\ f[k] \in X /\ f[k + 1] \in X
      BY <1>6, <3>1
    <3>3. Advances(f[k], f[k + 1]) /\ Midway(f[k], all) /\ Midway(f[k + 1], all)
      <4> HIDE DEF all
      <4> QED BY <1>4, <3>2, PushFrameKeeps
    <3>4. CASE f[k].failed
      <4>1. f[k + 1] = f[k]
        BY <3>2, <3>4 DEF PushFrame
      <4> QED BY <3>1, <3>4, <4>1
    <3>5. CASE Short(f[k].buffered)
      <4>1. f[k + 1].failed \/ f[k + 1] = f[k] \/ Len(f[k + 1].buffered) + 4 <= Len(f[k].buffered)
        BY <3>3 DEF Advances
      <4>2. f[k + 1].failed \/ f[k + 1] = f[k]
        BY <3>2, <3>5 DEF PushFrame, Short
      <4> QED BY <3>1, <3>5, <4>2
    <3>6. CASE Len(f[k].buffered) + 4 * k <= Len(whole)
      <4>1. CASE f[k + 1].failed \/ (f[k + 1] = f[k] /\ Short(f[k].buffered))
        BY <3>1, <4>1
      <4>2. CASE Len(f[k + 1].buffered) + 4 <= Len(f[k].buffered)
        <5>1. Len(f[k + 1].buffered) \in Nat /\ Len(f[k].buffered) \in Nat
          BY <3>3 DEF Midway
        <5>2. Len(f[k + 1].buffered) + 4 * (k + 1) <= Len(whole)
          <6> DEFINE p == Len(f[k].buffered)
                     q == Len(f[k + 1].buffered)
          <6>1. k \in Nat /\ p \in Nat /\ q \in Nat /\ p + 4 * k <= Len(whole) /\ q + 4 <= p
            <7>1. k \in Nat
              BY <1>2
            <7> QED BY ONLY <3>6, <4>2, <5>1, <7>1
          <6> HIDE DEF p, q
          <6>2. q + 4 * (k + 1) <= Len(whole)
            BY ONLY <1>1, <6>1
          <6> QED BY <6>2 DEF q
        <5> QED BY <3>1, <5>2
      <4> QED BY <3>3, <4>1, <4>2 DEF Advances
    <3> QED BY <2>2, <3>4, <3>5, <3>6
  <2>3. 0..n \subseteq S
    <3> HIDE DEF S
    <3> QED BY <1>2, <2>1, <2>2, UpToInduction
  <2>4. Done(n)
    <3>1. n \in 0..n
      BY <1>2
    <3> HIDE DEF Done
    <3> QED BY <2>3, <3>1
  <2>5. ASSUME Len(f[n].buffered) + 4 * n <= Len(whole) PROVE Short(f[n].buffered)
    <3>1. f[n].buffered \in Seq(Byte)
      <4>1. f[n] \in X
        BY <1>2, <1>6
      <4> QED BY <1>4, <4>1 DEF Midway
    <3>2. Len(f[n].buffered) \in Nat
      BY <3>1
    <3>3. ~(Len(f[n].buffered) >= 4)
      <4> DEFINE p == Len(f[n].buffered)
      <4>1. p \in Nat /\ p + 4 * n <= Len(whole)
        BY <2>5, <3>2
      <4> HIDE DEF p
      <4>2. ~(p >= 4)
        BY ONLY <1>1, <1>2, <4>1
      <4> QED BY <4>2 DEF p
    <3> QED BY <3>3 DEF Short
  <2> QED BY <2>4, <2>5
<1>9. Midway(f[n], all)
  <2>1. f[n] \in X
    BY <1>2, <1>6
  <2> QED BY <1>4, <2>1
<1> QED BY <1>7, <1>8, <1>9 DEF whole

(* Division by the weight of a byte.                                       *)
LEMMA DivideBy65536 ==
  ASSUME NEW q \in Nat, NEW r \in Nat, r < 65536 PROVE (65536 * q + r) \div 65536 = q
BY SMT

(* And by 2^24.                                                            *)
LEMMA DivideBy16777216 ==
  ASSUME NEW q \in Nat, NEW r \in Nat, r < 16777216 PROVE (16777216 * q + r) \div 16777216 = q
BY SMT

(* The four bytes of a length are those of its number.                     *)
LEMMA FourBytesOfNumber ==
  ASSUME NEW b \in Seq(Byte), Len(b) = 4, NEW length,
         length = 256 * Number(SubSeq(b, 1, 2)) * 256 + Number(SubSeq(b, 3, 4))
  PROVE  length \in Nat /\ BigEndian(length, 4) = b
<1> DEFINE c == BigEndian(length, 4)
           unit == <<1, 256, 65536, 16777216>>
           high == 256 * b[1] + b[2]
           low == 256 * b[3] + b[4]
<1>1. /\ b[1] \in Nat /\ b[1] <= 255 /\ b[2] \in Nat /\ b[2] <= 255
      /\ b[3] \in Nat /\ b[3] <= 255 /\ b[4] \in Nat /\ b[4] <= 255
      /\ b[1] \in Byte /\ b[2] \in Byte /\ b[3] \in Byte /\ b[4] \in Byte
  <2>1. 1 \in 1..Len(b) /\ 2 \in 1..Len(b) /\ 3 \in 1..Len(b) /\ 4 \in 1..Len(b)
    OBVIOUS
  <2> QED BY <2>1, BytesAreNumbers, SmallNumbers
<1>2. Number(SubSeq(b, 1, 2)) = high /\ Number(SubSeq(b, 3, 4)) = low
  <2>1. /\ SubSeq(b, 1, 2)[1] = b[1] /\ SubSeq(b, 1, 2)[2] = b[2]
        /\ SubSeq(b, 3, 4)[1] = b[3] /\ SubSeq(b, 3, 4)[2] = b[4]
    OBVIOUS
  <2> QED BY <2>1 DEF Number
<1>3. high \in Nat /\ low \in Nat /\ low <= 65535 /\ length = 65536 * high + low
  <2>1. high \in Nat /\ low \in Nat /\ low <= 65535
    BY <1>1, SMTT(30)
  <2> HIDE DEF high, low
  <2>2. length = 256 * high * 256 + low
    BY <1>2
  <2> QED BY <2>1, <2>2
<1>4. /\ (length \div 16777216) % 256 = b[1] /\ (length \div 65536) % 256 = b[2]
      /\ (length \div 256) % 256 = b[3] /\ (length \div 1) % 256 = b[4]
  <2>1. length = 65536 * (256 * b[1] + b[2]) + (256 * b[3] + b[4])
    BY <1>3, SMT
  <2> DEFINE x1 == b[1]
             x2 == b[2]
             x3 == b[3]
             x4 == b[4]
  <2>2. /\ x1 \in Nat /\ x2 \in Nat /\ x3 \in Nat /\ x4 \in Nat
        /\ x1 <= 255 /\ x2 <= 255 /\ x3 <= 255 /\ x4 <= 255
        /\ length = 65536 * (256 * x1 + x2) + (256 * x3 + x4)
    BY <1>1, <2>1, SMT
  <2> HIDE DEF x1, x2, x3, x4
  <2>3. /\ (length \div 16777216) % 256 = x1 /\ (length \div 65536) % 256 = x2
        /\ (length \div 256) % 256 = x3 /\ (length \div 1) % 256 = x4
    <3>1. length \in Nat /\ length \div 1 = length
      BY ONLY <2>2, SMT
    <3>2. length \div 16777216 = x1
      <4>1. length = 16777216 * x1 + (65536 * x2 + 256 * x3 + x4)
        BY ONLY <2>2, SMT
      <4>2. 65536 * x2 + 256 * x3 + x4 \in Nat /\ 65536 * x2 + 256 * x3 + x4 < 16777216
        BY ONLY <2>2, SMT
      <4> QED BY ONLY <4>1, <4>2, <2>2, DivideBy16777216, SMT
    <3>3. length \div 65536 = 256 * x1 + x2
      <4>1. 256 * x1 + x2 \in Nat /\ 256 * x3 + x4 \in Nat /\ 256 * x3 + x4 < 65536
        BY ONLY <2>2, SMT
      <4> QED BY ONLY <4>1, <2>2, DivideBy65536, SMT
    <3>4. /\ length = 256 * (65536 * x1 + 256 * x2 + x3) + x4
          /\ 65536 * x1 + 256 * x2 + x3 = 256 * (256 * x1 + x2) + x3
          /\ 65536 * x1 + 256 * x2 + x3 \in Nat /\ 256 * x1 + x2 \in Nat
      BY ONLY <2>2, SMT
    <3>5. length \div 256 = 65536 * x1 + 256 * x2 + x3 /\ length % 256 = x4
      BY ONLY <3>4, <2>2, LowByte, SMT
    <3>6. (65536 * x1 + 256 * x2 + x3) % 256 = x3
      BY ONLY <3>4, <2>2, LowByte, SMT
    <3>7. (256 * x1 + x2) % 256 = x2
      BY ONLY <2>2, LowByte, SMT
    <3>8. x1 % 256 = x1
      BY ONLY <2>2, SMT
    <3> QED BY ONLY <3>1, <3>2, <3>3, <3>5, <3>6, <3>7, <3>8, SMT
  <2> QED BY <2>3, SMT DEF x1, x2, x3, x4
<1>5. c = [i \in 1..4 |-> (length \div unit[4 - i + 1]) % 256]
  BY SMT DEF BigEndian
<1>6. c[1] = b[1] /\ c[2] = b[2] /\ c[3] = b[3] /\ c[4] = b[4]
  <2>1. unit[4] = 16777216 /\ unit[3] = 65536 /\ unit[2] = 256 /\ unit[1] = 1
    BY SMT
  <2>2. 4 - 1 + 1 = 4 /\ 4 - 2 + 1 = 3 /\ 4 - 3 + 1 = 2 /\ 4 - 4 + 1 = 1
    OBVIOUS
  <2>3. 1 \in 1..4 /\ 2 \in 1..4 /\ 3 \in 1..4 /\ 4 \in 1..4
    OBVIOUS
  <2> HIDE DEF unit, c
  <2>4. \A i \in 1..4 : c[i] = (length \div unit[4 - i + 1]) % 256
    BY <1>5
  <2>5. c[1] = (length \div unit[4 - 1 + 1]) % 256
    BY <2>3, <2>4
  <2>6. c[2] = (length \div unit[4 - 2 + 1]) % 256
    BY <2>3, <2>4
  <2>7. c[3] = (length \div unit[4 - 3 + 1]) % 256
    BY <2>3, <2>4
  <2>8. c[4] = (length \div unit[4 - 4 + 1]) % 256
    BY <2>3, <2>4
  <2> QED BY <1>4, <2>1, <2>2, <2>5, <2>6, <2>7, <2>8, SMT
<1> HIDE DEF unit
<1>7. c \in Seq(Byte) /\ Len(c) = 4
  <2>1. DOMAIN c = 1..4 /\ c = [i \in 1..4 |-> c[i]]
    BY <1>5, SMT
  <2> HIDE DEF c
  <2>2. \A i \in 1..4 : c[i] \in Byte
    BY <1>1, <1>6
  <2>3. 4 \in Nat
    OBVIOUS
  <2> QED BY <2>1, <2>2, <2>3, ListOf
<1> HIDE DEF c
<1>8. \A i \in 1..4 : c[i] = b[i]
  BY <1>6
<1>9. c = b
  BY <1>7, <1>8
<1> QED BY <1>3, <1>9 DEF c

(* What was requested, encoded again.                                      *)
RequestsAgain(r) == FlattenSeq([i \in DOMAIN r |-> EncodeRequest(r[i])])
GoodRequests(r) == r \in Seq(Seq(Byte)) /\ \A i \in DOMAIN r : EncodeRequest(r[i]) \in Seq(Byte)

(* A request more, and its bytes are joined to those before.               *)
LEMMA GoodRequestsAppend ==
  ASSUME NEW r, GoodRequests(r), NEW body \in Seq(Byte), EncodeRequest(body) \in Seq(Byte)
  PROVE  /\ GoodRequests(Append(r, body))
         /\ RequestsAgain(r) \in Seq(Byte)
         /\ RequestsAgain(Append(r, body)) = RequestsAgain(r) \o EncodeRequest(body)
<1> DEFINE more == Append(r, body)
           bytes == EncodeRequest(body)
           n == Len(r)
           s == [i \in DOMAIN r |-> EncodeRequest(r[i])]
           t == [i \in DOMAIN more |-> EncodeRequest(more[i])]
<1>2. /\ r \in Seq(Seq(Byte)) /\ n \in Nat /\ DOMAIN r = 1..n
      /\ more \in Seq(Seq(Byte)) /\ Len(more) = n + 1 /\ DOMAIN more = 1..(n + 1)
      /\ \A i \in 1..n : more[i] = r[i]
      /\ more[n + 1] = body
  BY DEF GoodRequests
<1> HIDE DEF more
<1>3. GoodRequests(more)
  <2>1. ASSUME NEW i \in 1..(n + 1) PROVE EncodeRequest(more[i]) \in Seq(Byte)
    <3>1. CASE i = n + 1
      BY <1>2, <3>1
    <3>2. CASE i # n + 1
      <4>1. i \in 1..n /\ more[i] = r[i]
        BY <1>2, <3>2
      <4> HIDE DEF n
      <4> QED BY <1>2, <4>1 DEF GoodRequests
    <3> QED BY <3>1, <3>2
  <2> HIDE DEF n
  <2> QED BY <1>2, <2>1 DEF GoodRequests
<1>4. s \in Seq(Seq(Byte)) /\ Len(s) = n /\ \A i \in 1..n : s[i] = EncodeRequest(r[i])
  <2>1. DOMAIN s = 1..n /\ s = [i \in 1..n |-> s[i]]
        /\ \A i \in 1..n : s[i] \in Seq(Byte) /\ s[i] = EncodeRequest(r[i])
    BY <1>2 DEF GoodRequests
  <2> HIDE DEF s, n
  <2> QED BY <1>2, <2>1, ListOf
<1>5. t \in Seq(Seq(Byte)) /\ Len(t) = n + 1 /\ \A i \in 1..(n + 1) : t[i] = EncodeRequest(more[i])
  <2> HIDE DEF n
  <2>1. DOMAIN t = 1..(n + 1) /\ t = [i \in 1..(n + 1) |-> t[i]]
        /\ \A i \in 1..(n + 1) : t[i] \in Seq(Byte) /\ t[i] = EncodeRequest(more[i])
    BY <1>2, <1>3 DEF GoodRequests
  <2>2. n + 1 \in Nat
    BY <1>2
  <2> HIDE DEF t
  <2> QED BY <1>2, <2>1, <2>2, ListOf
<1>6. t = Append(s, bytes)
  <2> DEFINE u == Append(s, bytes)
  <2> HIDE DEF s, t, n
  <2>1. u \in Seq(Seq(Byte)) /\ Len(u) = n + 1 /\ u[n + 1] = bytes /\ \A i \in 1..n : u[i] = s[i]
    BY <1>2, <1>4
  <2>2. ASSUME NEW i \in 1..(n + 1) PROVE t[i] = u[i]
    <3>1. CASE i = n + 1
      BY <1>2, <1>5, <2>1, <3>1
    <3>2. CASE i # n + 1
      <4>1. i \in 1..n
        BY <1>2, <3>2
      <4> HIDE DEF u
      <4> QED BY <1>2, <1>4, <1>5, <2>1, <4>1
    <3> QED BY <3>1, <3>2
  <2> HIDE DEF u
  <2>3. t = u
    BY <1>2, <1>5, <2>1, <2>2
  <2> QED BY <2>3 DEF u
<1>7. FlattenSeq(s) \in Seq(Byte) /\ FlattenSeq(t) = FlattenSeq(s) \o bytes
  <2> HIDE DEF s, t, bytes
  <2>1. bytes \in Seq(Byte)
    BY DEF bytes
  <2> QED BY <1>4, <1>6, <2>1, FlattenAppends
<1>8. RequestsAgain(r) = FlattenSeq(s) /\ RequestsAgain(more) = FlattenSeq(t)
  BY DEF RequestsAgain
<1> HIDE DEF s, t
<1>9. RequestsAgain(more) = RequestsAgain(r) \o bytes
  BY <1>7, <1>8, Zenon
<1> QED BY <1>3, <1>7, <1>8, <1>9 DEF more

(* No requests are no bytes.                                               *)
LEMMA NoRequestsAgain == GoodRequests(<< >>) /\ RequestsAgain(<< >>) = << >>
<1>1. GoodRequests(<< >>)
  BY DEF GoodRequests
<1>2. [i \in DOMAIN << >> |-> EncodeRequest(<< >>[i])] = << >>
  OBVIOUS
<1>3. FlattenSeq(<< >>) = << >>
  BY DEF FlattenSeq
<1> QED BY <1>1, <1>2, <1>3 DEF RequestsAgain

(* Requests written out again are bytes.                                   *)
LEMMA RequestsAgainTyped ==
  ASSUME NEW r, GoodRequests(r)
  PROVE  RequestsAgain(r) \in Seq(Byte)
<1> DEFINE n == Len(r)
           s == [i \in DOMAIN r |-> EncodeRequest(r[i])]
<1>1. r \in Seq(Seq(Byte)) /\ n \in Nat /\ DOMAIN r = 1..n
  BY DEF GoodRequests
<1>2. s \in Seq(Seq(Byte))
  <2>1. DOMAIN s = 1..n /\ s = [i \in 1..n |-> s[i]] /\ \A i \in 1..n : s[i] \in Seq(Byte)
    BY <1>1 DEF GoodRequests
  <2> HIDE DEF s, n
  <2> QED BY <1>1, <2>1, ListOf
<1>3. FlattenSeq(s) \in Seq(Byte)
  <2>1. << >> \in Seq(Byte)
    OBVIOUS
  <2> HIDE DEF s
  <2> QED BY <1>2, <2>1, FlattenAppends
<1> QED BY <1>3 DEF RequestsAgain

(* RequestDecoder: all that was read are the requests returned, the length *)
(* of the one begun, and what there is of its body.                        *)
HeaderOf(x) == IF x.expected = 0 THEN << >> ELSE BigEndian(x.expected, 4)
Readable(x) ==
  /\ x \in [buffer : Seq(Byte), expected : Nat, requests : Seq(Seq(Byte)), failed : BOOLEAN]
  /\ GoodRequests(x.requests)
  /\ HeaderOf(x) \in Seq(Byte)
  /\ x.expected = 0 => Len(x.buffer) < 4
  /\ x.expected # 0 => Len(x.buffer) < x.expected /\ x.expected <= MaxHelperFrame
BytesRead(x) == (RequestsAgain(x.requests) \o HeaderOf(x)) \o x.buffer

(* A byte at the end.                                                      *)
LEMMA AppendedByte ==
  ASSUME NEW s \in Seq(Byte), NEW b \in Byte
  PROVE  /\ Append(s, b) \in Seq(Byte) /\ Len(Append(s, b)) = Len(s) + 1 /\ Len(s) \in Nat
         /\ Append(s, b) = s \o <<b>> /\ <<b>> \in Seq(Byte)
OBVIOUS

(* One byte more is one byte more read, or an error that empties it.       *)
LEMMA PushHelperByteKeeps ==
  ASSUME NEW x, Readable(x), NEW byte \in Byte
  PROVE  LET y == PushHelperByte(x, byte)
         IN /\ Readable(y)
            /\ ~y.failed => ~x.failed /\ BytesRead(y) = BytesRead(x) \o <<byte>>
<1> DEFINE y == PushHelperByte(x, byte)
           buffer == Append(x.buffer, byte)
           length == 256 * Number(SubSeq(buffer, 1, 2)) * 256 + Number(SubSeq(buffer, 3, 4))
           State == [buffer : Seq(Byte), expected : Nat, requests : Seq(Seq(Byte)), failed : BOOLEAN]
           r == x.requests
           again == RequestsAgain(r)
           h == HeaderOf(x)
<1>1. /\ x.buffer \in Seq(Byte) /\ x.expected \in Nat /\ r \in Seq(Seq(Byte)) /\ x.failed \in BOOLEAN
      /\ GoodRequests(r) /\ h \in Seq(Byte)
      /\ x = [buffer |-> x.buffer, expected |-> x.expected, requests |-> r, failed |-> x.failed]
  BY DEF Readable
<1>2. /\ buffer \in Seq(Byte) /\ Len(buffer) = Len(x.buffer) + 1 /\ Len(x.buffer) \in Nat
      /\ buffer = x.buffer \o <<byte>> /\ <<byte>> \in Seq(Byte)
  <2>1. x.buffer \in Seq(Byte) /\ byte \in Byte
    BY <1>1
  <2> QED BY ONLY <2>1, AppendedByte
<1>3. again \in Seq(Byte)
  BY <1>1, RequestsAgainTyped
<1>4. << >> \in Seq(Byte) /\ Len(<< >>) = 0 /\ 0 < 4 /\ 0 \in Nat
  OBVIOUS
<1> HIDE DEF buffer, r, again, h
(* What was read before and the byte.                                      *)
<1>5. BytesRead(x) \o <<byte>> = (again \o h) \o buffer
  <2>1. BytesRead(x) = (again \o h) \o x.buffer
    BY DEF BytesRead, again, h, r
  <2>2. again \o h \in Seq(Byte)
    BY <1>1, <1>3
  <2>3. ((again \o h) \o x.buffer) \o <<byte>> = (again \o h) \o (x.buffer \o <<byte>>)
    BY <1>1, <1>2, <2>2, Grouped, SMTT(30)
  <2> QED BY <1>2, <2>1, <2>3, Zenon
<1>6. ASSUME y = [buffer |-> << >>, expected |-> 0, requests |-> r, failed |-> TRUE]
      PROVE  Readable(y) /\ y.failed
  <2>1. y.buffer = << >> /\ y.expected = 0 /\ y.requests = r /\ y.failed /\ y \in State
    BY <1>1, <1>4, <1>6
  <2> HIDE DEF y
  <2>2. HeaderOf(y) = << >>
    BY <2>1 DEF HeaderOf
  <2> QED BY <1>1, <1>4, <2>1, <2>2 DEF Readable
<1>7. ASSUME y = [buffer |-> buffer, expected |-> x.expected, requests |-> r, failed |-> FALSE],
             x.expected = 0 => Len(buffer) < 4, x.expected # 0 => Len(buffer) < x.expected
      PROVE  Readable(y) /\ BytesRead(y) = BytesRead(x) \o <<byte>>
  <2>1. y.buffer = buffer /\ y.expected = x.expected /\ y.requests = r /\ y \in State
    BY <1>1, <1>2, <1>7
  <2>2. x.expected # 0 => x.expected <= MaxHelperFrame
    BY DEF Readable
  <2> HIDE DEF y
  <2>3. HeaderOf(y) = h
    BY <2>1 DEF HeaderOf, h
  <2>4. Readable(y)
    BY <1>1, <1>7, <2>1, <2>2, <2>3 DEF Readable
  <2>5. BytesRead(y) = (again \o h) \o buffer
    BY <2>1, <2>3 DEF BytesRead, again
  <2> QED BY <1>5, <2>4, <2>5
<1>8. CASE x.failed
  <2>1. y = x
    BY <1>8 DEF PushHelperByte
  <2> QED BY <1>8, <2>1
<1>9. CASE ~x.failed /\ x.expected = 0
  <2>1. Len(x.buffer) < 4
    BY <1>9 DEF Readable
  <2>2. h = << >>
    BY <1>9 DEF h, HeaderOf
  <2>3. CASE Len(buffer) < 4
    <3>1. y = [buffer |-> buffer, expected |-> x.expected, requests |-> r, failed |-> FALSE]
      BY <1>1, <1>9, <2>3 DEF PushHelperByte, buffer, r
    <3> HIDE DEF y
    <3> QED BY <1>7, <1>9, <2>3, <3>1 DEF y
  <2>4. CASE ~(Len(buffer) < 4)
    <3>1. Len(buffer) = 4
      BY <1>2, <2>1, <2>4
    <3>2. length \in Nat /\ BigEndian(length, 4) = buffer
      <4> HIDE DEF length
      <4>1. length = 256 * Number(SubSeq(buffer, 1, 2)) * 256 + Number(SubSeq(buffer, 3, 4))
        BY DEF length
      <4> QED BY ONLY <1>2, <3>1, <4>1, FourBytesOfNumber, ZenonT(30)
    <3>3. CASE length = 0 \/ length > MaxHelperFrame
      <4>1. y = [buffer |-> << >>, expected |-> 0, requests |-> r, failed |-> TRUE]
        BY <1>1, <1>9, <2>4, <3>3, ZenonT(30) DEF PushHelperByte, buffer, r
      <4> HIDE DEF y
      <4> QED BY <1>6, <4>1 DEF y
    <3>4. CASE ~(length = 0 \/ length > MaxHelperFrame)
      <4>1. y = [buffer |-> << >>, expected |-> length, requests |-> r, failed |-> FALSE]
        <5>1. y = IF length = 0 \/ length > MaxHelperFrame
                  THEN [x EXCEPT !.buffer = << >>, !.expected = 0, !.failed = TRUE]
                  ELSE [x EXCEPT !.buffer = << >>, !.expected = length]
          BY <1>9, <2>4 DEF PushHelperByte, buffer
        <5> HIDE DEF length, y
        <5>2. y = [x EXCEPT !.buffer = << >>, !.expected = length]
          BY <3>4, <5>1
        <5>3. x.failed = FALSE
          BY <1>1, <1>9
        <5>4. x = [buffer |-> x.buffer, expected |-> x.expected, requests |-> r, failed |-> FALSE]
          BY ONLY <1>1, <5>3
        <5> DEFINE b == x.buffer
                   e == x.expected
        <5>5. x = [buffer |-> b, expected |-> e, requests |-> r, failed |-> FALSE]
          BY <5>4
        <5> HIDE DEF b, e
        <5> QED BY ONLY <3>2, <5>2, <5>5
      <4> HIDE DEF length
      <4>2. y.buffer = << >> /\ y.expected = length /\ y.requests = r /\ ~y.failed /\ y \in State
        BY <1>1, <1>4, <3>2, <4>1
      <4> HIDE DEF y
      <4>3. HeaderOf(y) = buffer
        BY <3>2, <3>4, <4>2 DEF HeaderOf
      <4>4. length # 0 /\ 0 < length /\ length <= MaxHelperFrame
        BY <3>2, <3>4, WireAssumption
      <4>5. Readable(y)
        BY <1>1, <1>2, <1>4, <4>2, <4>3, <4>4 DEF Readable
      <4>6. BytesRead(y) = (again \o buffer) \o << >>
        BY <4>2, <4>3 DEF BytesRead, again
      <4>7. (again \o buffer) \o << >> = again \o buffer /\ again \o << >> = again
        <5>1. again \o buffer \in Seq(Byte)
          BY <1>2, <1>3
        <5> QED BY <1>2, <1>3, <5>1, Grouped
      <4>8. BytesRead(y) = BytesRead(x) \o <<byte>>
        BY <1>5, <2>2, <4>6, <4>7, Zenon
      <4> QED BY <1>9, <4>5, <4>8 DEF y
    <3> QED BY <3>3, <3>4
  <2> QED BY <2>3, <2>4
<1>10. CASE ~x.failed /\ x.expected # 0
  <2>1. Len(x.buffer) < x.expected
    BY <1>10 DEF Readable
  <2>2. h = BigEndian(x.expected, 4)
    BY <1>10 DEF h, HeaderOf
  <2>3. CASE Len(buffer) < x.expected
    <3>1. y = [buffer |-> buffer, expected |-> x.expected, requests |-> r, failed |-> FALSE]
      BY <1>1, <1>10, <2>3 DEF PushHelperByte, buffer, r
    <3> HIDE DEF y
    <3> QED BY <1>7, <1>10, <2>3, <3>1 DEF y
  <2>4. CASE ~(Len(buffer) < x.expected) /\ ~DecodeRequest(buffer)
    <3>1. y = [buffer |-> << >>, expected |-> 0, requests |-> r, failed |-> TRUE]
      BY <1>1, <1>10, <2>4 DEF PushHelperByte, buffer, r
    <3> HIDE DEF y
    <3> QED BY <1>6, <3>1 DEF y
  <2>5. CASE ~(Len(buffer) < x.expected) /\ DecodeRequest(buffer)
    <3> DEFINE more == Append(r, buffer)
    <3>1. Len(buffer) = x.expected
      BY <1>1, <1>2, <2>1, <2>5
    <3>2. EncodeRequest(buffer) = h \o buffer
      BY <2>2, <3>1 DEF EncodeRequest
    <3>3. EncodeRequest(buffer) \in Seq(Byte)
      <4>1. h \in Seq(Byte) /\ buffer \in Seq(Byte)
        BY <1>1, <1>2
      <4>2. h \o buffer \in Seq(Byte)
        BY ONLY <4>1, Continued
      <4> QED BY <3>2, <4>2
    <3>4. GoodRequests(more) /\ RequestsAgain(more) = again \o EncodeRequest(buffer)
      BY <1>1, <1>2, <3>3, GoodRequestsAppend DEF again
    <3>5. y = [buffer |-> << >>, expected |-> 0, requests |-> more, failed |-> FALSE]
      BY <1>1, <1>10, <2>5 DEF PushHelperByte, buffer, r
    <3> HIDE DEF more
    <3>6. more \in Seq(Seq(Byte))
      BY <3>4 DEF GoodRequests
    <3>7. y.buffer = << >> /\ y.expected = 0 /\ y.requests = more /\ ~y.failed /\ y \in State
      BY <1>1, <1>4, <3>5, <3>6
    <3> HIDE DEF y
    <3>8. HeaderOf(y) = << >>
      BY <3>7 DEF HeaderOf
    <3>9. Readable(y)
      BY <1>4, <3>4, <3>7, <3>8 DEF Readable
    <3>10. BytesRead(y) = (RequestsAgain(more) \o << >>) \o << >>
      BY <3>7, <3>8 DEF BytesRead
    <3>11. /\ again \o (h \o buffer) = (again \o h) \o buffer
           /\ (RequestsAgain(more) \o << >>) \o << >> = RequestsAgain(more)
      <4>1. again \o (h \o buffer) = (again \o h) \o buffer
        <5>1. again \in Seq(Byte) /\ h \in Seq(Byte) /\ buffer \in Seq(Byte)
          BY <1>1, <1>2, <1>3
        <5> QED BY ONLY <5>1, Grouped
      <4>2. RequestsAgain(more) \in Seq(Byte)
        BY <3>4, RequestsAgainTyped
      <4>3. RequestsAgain(more) \o << >> = RequestsAgain(more)
        BY <4>2, Grouped
      <4> QED BY <4>1, <4>3
    <3>12. BytesRead(y) = BytesRead(x) \o <<byte>>
      BY <1>5, <3>2, <3>4, <3>10, <3>11, Zenon
    <3> QED BY <1>10, <3>9, <3>12 DEF y
  <2> QED BY <2>3, <2>4, <2>5
<1> QED BY <1>8, <1>9, <1>10

(* RequestDecoder::push: the whole chunk is read, or an error returned.    *)
LEMMA PushRequestsReadsAll ==
  ASSUME NEW d, Readable(d), NEW chunk \in Seq(Byte)
  PROVE  LET next == PushRequests(d, chunk)
         IN /\ Readable(next)
            /\ ~next.failed => ~d.failed /\ BytesRead(next) = BytesRead(d) \o chunk
<1> DEFINE n == Len(chunk)
           X == {x \in [buffer : Seq(Byte), expected : Nat, requests : Seq(Seq(Byte)), failed : BOOLEAN] :
                   Readable(x)}
           step == [k \in 1..n |-> [x \in X |-> PushHelperByte(x, chunk[k])]]
           Rec(h) == h = [i \in 0..Len(chunk) |->
                            IF i = 0 THEN d ELSE PushHelperByte(h[i - 1], chunk[i])]
<1>1. n \in Nat /\ \A k \in 1..n : chunk[k] \in Byte
  OBVIOUS
<1>2. d \in X
  BY DEF Readable
<1>3. \A x \in X, k \in 1..n : Readable(x) /\ PushHelperByte(x, chunk[k]) \in X
  <2> SUFFICES ASSUME NEW x \in X, NEW k \in 1..n PROVE Readable(x) /\ PushHelperByte(x, chunk[k]) \in X
    OBVIOUS
  <2>1. Readable(x)
    OBVIOUS
  <2>2. Readable(PushHelperByte(x, chunk[k]))
    BY <1>1, <2>1, PushHelperByteKeeps
  <2> QED BY <2>1, <2>2 DEF Readable
<1> HIDE DEF X, n
<1>4. PICK f : Iterates(n, X, d, step, f)
  <2>1. step \in [1..n -> [X -> X]]
    BY <1>3
  <2> HIDE DEF step
  <2> QED BY <1>1, <1>2, <2>1, IteratesExist
<1>5. /\ f \in [0..n -> X] /\ f[0] = d
      /\ \A k \in 1..n : f[k] = PushHelperByte(f[k - 1], chunk[k])
  <2>1. f \in [0..n -> X] /\ f[0] = d
    BY <1>4 DEF Iterates
  <2>2. ASSUME NEW k \in 1..n PROVE f[k] = PushHelperByte(f[k - 1], chunk[k])
    <3>1. k - 1 \in 0..n
      BY <1>1
    <3>2. f[k] = step[k][f[k - 1]] /\ f[k - 1] \in X
      <4> HIDE DEF step
      <4> QED BY <1>4, <2>1, <3>1 DEF Iterates
    <3> QED BY <3>2
  <2> QED BY <2>1, <2>2
<1> HIDE DEF step
<1>6. PushRequests(d, chunk) = f[n]
  <2> DEFINE h == CHOOSE t : Rec(t)
  <2>1. Rec(f)
    <3>1. f = [i \in 0..n |-> f[i]]
      BY <1>5
    <3>2. \A i \in 0..n : f[i] = IF i = 0 THEN d ELSE PushHelperByte(f[i - 1], chunk[i])
      BY <1>1, <1>5
    <3>3. f = [i \in 0..n |-> IF i = 0 THEN d ELSE PushHelperByte(f[i - 1], chunk[i])]
      BY <3>1, <3>2
    <3> QED BY <3>3 DEF n
  <2>2. Rec(h)
    <3> HIDE DEF Rec
    <3> QED BY <2>1
  <2>3. PushRequests(d, chunk) = h[n]
    BY DEF PushRequests, n
  <2> HIDE DEF h
  <2>4. \A i \in 0..n : h[i] = IF i = 0 THEN d ELSE PushHelperByte(h[i - 1], chunk[i])
    <3>1. h = [i \in 0..n |-> IF i = 0 THEN d ELSE PushHelperByte(h[i - 1], chunk[i])]
      BY <2>2 DEF n
    <3> QED BY <3>1
  <2> DEFINE S == {k \in 0..n : h[k] = f[k]}
  <2>5. 0 \in S
    BY <1>1, <1>5, <2>4
  <2>6. ASSUME NEW k \in 0..n, k \in S, k < n PROVE k + 1 \in S
    <3>1. k + 1 \in 1..n /\ k + 1 \in 0..n /\ (k + 1) - 1 = k /\ k + 1 # 0
      BY <1>1, <2>6
    <3>2. h[k + 1] = PushHelperByte(h[k], chunk[k + 1]) /\ f[k + 1] = PushHelperByte(f[k], chunk[k + 1])
      BY <1>5, <2>4, <3>1
    <3> QED BY <2>6, <3>1, <3>2
  <2>7. 0..n \subseteq S
    <3> HIDE DEF S
    <3> QED BY <1>1, <2>5, <2>6, UpToInduction
  <2>8. h[n] = f[n]
    <3>1. n \in S
      BY <1>1, <2>7
    <3> QED BY <3>1
  <2> QED BY <2>3, <2>8
<1>7. BytesRead(d) \in Seq(Byte)
  <2>1. RequestsAgain(d.requests) \in Seq(Byte) /\ HeaderOf(d) \in Seq(Byte) /\ d.buffer \in Seq(Byte)
    BY RequestsAgainTyped DEF Readable
  <2> QED BY <2>1 DEF BytesRead
<1> DEFINE Exact(k) == ~f[k].failed => ~d.failed /\ BytesRead(f[k]) = BytesRead(d) \o SubSeq(chunk, 1, k)
           S == {k \in 0..n : Exact(k)}
<1>8. 0 \in S
  <2>1. SubSeq(chunk, 1, 0) = << >>
    OBVIOUS
  <2>2. BytesRead(d) \o << >> = BytesRead(d)
    BY <1>7, Grouped
  <2> QED BY <1>1, <1>5, <2>1, <2>2
<1>9. ASSUME NEW k \in 0..n, k \in S, k < n PROVE k + 1 \in S
  <2>1. k + 1 \in 1..n /\ k + 1 \in 0..n /\ (k + 1) - 1 = k
    BY <1>1, <1>9
  <2>2. f[k] \in X /\ f[k + 1] = PushHelperByte(f[k], chunk[k + 1])
    BY <1>5, <2>1
  <2>3. Readable(f[k]) /\ chunk[k + 1] \in Byte
    BY <1>1, <1>3, <2>1, <2>2
  <2>4. ~f[k + 1].failed => ~f[k].failed /\ BytesRead(f[k + 1]) = BytesRead(f[k]) \o <<chunk[k + 1]>>
    BY <2>2, <2>3, PushHelperByteKeeps
  <2>5. SubSeq(chunk, 1, k) \o <<chunk[k + 1]>> = SubSeq(chunk, 1, k + 1)
        /\ SubSeq(chunk, 1, k) \in Seq(Byte) /\ <<chunk[k + 1]>> \in Seq(Byte)
    <3>1. k \in Nat /\ k + 1 \in Nat /\ 1 \in Nat /\ 1 <= 1 /\ 1 <= k + 1 /\ k <= k + 1 /\ k + 1 <= Len(chunk)
          /\ k + 1 \in 1..Len(chunk) /\ k <= Len(chunk)
      BY <1>1, <2>1 DEF n
    <3>2. SubSeq(chunk, 1, k) \o SubSeq(chunk, k + 1, k + 1) = SubSeq(chunk, 1, k + 1)
      BY ONLY <3>1, chunk \in Seq(Byte), SlicesJoin
    <3>3. <<chunk[k + 1]>> = SubSeq(chunk, k + 1, k + 1)
      BY ONLY <3>1, chunk \in Seq(Byte), SliceOfOne
    <3>4. SubSeq(chunk, 1, k) \in Seq(Byte)
      BY ONLY <3>1, chunk \in Seq(Byte), SliceTyped
    <3>5. <<chunk[k + 1]>> \in Seq(Byte)
      BY ONLY <2>3
    <3> QED BY <3>2, <3>3, <3>4, <3>5
  <2>6. (BytesRead(d) \o SubSeq(chunk, 1, k)) \o <<chunk[k + 1]>>
          = BytesRead(d) \o (SubSeq(chunk, 1, k) \o <<chunk[k + 1]>>)
    BY ONLY <1>7, <2>5, Grouped, ZenonT(30)
  <2>7. ASSUME ~f[k + 1].failed
        PROVE  ~d.failed /\ BytesRead(f[k + 1]) = BytesRead(d) \o SubSeq(chunk, 1, k + 1)
    <3>1. ~d.failed /\ BytesRead(f[k]) = BytesRead(d) \o SubSeq(chunk, 1, k)
      BY <1>9, <2>4, <2>7
    <3>2. BytesRead(f[k + 1]) = BytesRead(f[k]) \o <<chunk[k + 1]>>
      BY <2>4, <2>7
    <3> QED BY ONLY <2>5, <2>6, <3>1, <3>2, Zenon
  <2> QED BY <2>1, <2>7
<1>10. n \in S
  <2>1. 0..n \subseteq S
    <3> HIDE DEF S
    <3> QED BY <1>1, <1>8, <1>9, UpToInduction
  <2> QED BY <1>1, <2>1
<1>11. SubSeq(chunk, 1, n) = chunk
  BY DEF n
<1>12. Readable(f[n])
  <2>1. f[n] \in X
    BY <1>1, <1>5
  <2> QED BY <2>1 DEF X
<1> QED BY <1>6, <1>10, <1>11, <1>12

(* The decoder that is fed has read what was consumed; the other is new.   *)
StreamInv ==
  /\ decoder \in [buffered : Seq(Byte), frames : Seq(DecodedFrames), failed : BOOLEAN]
  /\ GoodFrames(decoder.frames)
  /\ ~decoder.failed => Short(decoder.buffered)
  /\ Readable(helper)
  /\ unread \in [frames : Seq(Byte), helper : Seq(Byte)]
  /\ consumed \in Seq(Byte)
  /\ \/ /\ unread.frames = << >> /\ decoder = NewDecoder
        /\ ~helper.failed => BytesRead(helper) = consumed
     \/ /\ unread.helper = << >> /\ helper = NewHelperDecoder
        /\ ~decoder.failed => Again(decoder.frames) \o decoder.buffered = consumed

(* What holds of decoders that were given nothing.                         *)
LEMMA NewDecodersGood ==
  /\ NewDecoder \in [buffered : Seq(Byte), frames : Seq(DecodedFrames), failed : BOOLEAN]
  /\ NewDecoder.frames = << >> /\ NewDecoder.buffered = << >> /\ ~NewDecoder.failed
  /\ Again(NewDecoder.frames) \o NewDecoder.buffered = << >>
  /\ Short(NewDecoder.buffered)
  /\ Readable(NewHelperDecoder) /\ BytesRead(NewHelperDecoder) = << >> /\ ~NewHelperDecoder.failed
<1>1. /\ NewDecoder \in [buffered : Seq(Byte), frames : Seq(DecodedFrames), failed : BOOLEAN]
      /\ NewDecoder.frames = << >> /\ NewDecoder.buffered = << >> /\ ~NewDecoder.failed
  BY DEF NewDecoder
<1>2. << >> \o << >> = << >> /\ << >> \in Seq(Byte) /\ Len(<< >>) = 0 /\ 0 < 4 /\ ~(0 >= 4)
  OBVIOUS
<1>3. Again(NewDecoder.frames) \o NewDecoder.buffered = << >>
  BY <1>1, <1>2, NothingAgain
<1>4. Short(NewDecoder.buffered)
  BY <1>1, <1>2 DEF Short
<1>5. /\ NewHelperDecoder \in [buffer : Seq(Byte), expected : Nat, requests : Seq(Seq(Byte)), failed : BOOLEAN]
      /\ NewHelperDecoder.buffer = << >> /\ NewHelperDecoder.expected = 0
      /\ NewHelperDecoder.requests = << >> /\ ~NewHelperDecoder.failed
  BY DEF NewHelperDecoder
<1>6. HeaderOf(NewHelperDecoder) = << >>
  BY <1>5 DEF HeaderOf
<1>7. Readable(NewHelperDecoder)
  BY <1>2, <1>5, <1>6, NoRequestsAgain DEF Readable
<1>8. BytesRead(NewHelperDecoder) = << >>
  BY <1>2, <1>5, <1>6, NoRequestsAgain DEF BytesRead
<1> QED BY <1>1, <1>3, <1>4, <1>5, <1>7, <1>8

(* What a push takes from what is unread.                                  *)
LEMMA ChunksTaken ==
  ASSUME NEW s \in Seq(Byte), s # << >>, NEW size \in Nat \ {0}, NEW n, n = IF size < Len(s) THEN size ELSE Len(s)
  PROVE  /\ SubSeq(s, 1, n) \in Seq(Byte) /\ SubSeq(s, 1, n) # << >>
         /\ SubSeq(s, n + 1, Len(s)) \in Seq(Byte)
<1>1. Len(s) \in Nat /\ 1 <= Len(s)
  BY BytesAreNumbers
<1>2. n \in Nat /\ 1 <= n /\ n <= Len(s)
  BY <1>1
<1>3. SubSeq(s, 1, n) \in Seq(Byte) /\ Len(SubSeq(s, 1, n)) = n - 1 + 1
  <2>1. 1 \in Nat /\ 1 <= 1 /\ 1 <= n + 1
    BY <1>2
  <2> QED BY ONLY s \in Seq(Byte), <1>2, <2>1, SliceTyped
<1>4. SubSeq(s, n + 1, Len(s)) \in Seq(Byte)
  <2>1. n + 1 \in Nat /\ 1 <= n + 1 /\ n + 1 <= Len(s) + 1 /\ Len(s) <= Len(s)
    BY <1>1, <1>2
  <2> QED BY ONLY s \in Seq(Byte), <1>1, <2>1, SliceTyped
<1>5. Len(SubSeq(s, 1, n)) # Len(<< >>)
  BY <1>2, <1>3
<1> QED BY <1>3, <1>4, <1>5

(* StreamInv holds before anything arrives.                                *)
LEMMA StreamInit == WireInit => StreamInv
<1> SUFFICES ASSUME WireInit PROVE StreamInv
  OBVIOUS
<1>1. << >> \in Seq(Byte) /\ Streams \cup {<< >>} \subseteq Seq(Byte) /\ HelperStreams \cup {<< >>} \subseteq Seq(Byte)
  <2>1. << >> \in Seq(Byte)
    OBVIOUS
  <2>2. Streams \subseteq Seq(Byte) /\ HelperStreams \subseteq Seq(Byte)
    BY WireAssumption, Zenon
  <2> QED BY ONLY <2>1, <2>2
<1>2. unread \in [frames : Streams \cup {<< >>}, helper : HelperStreams \cup {<< >>}]
  BY DEF WireInit
<1>3. unread \in [frames : Seq(Byte), helper : Seq(Byte)]
  BY <1>1, <1>2
<1>4. decoder = NewDecoder /\ helper = NewHelperDecoder /\ consumed = << >>
      /\ (unread.frames = << >> \/ unread.helper = << >>)
  BY DEF WireInit
<1> QED BY <1>1, <1>3, <1>4, NewDecodersGood, NothingAgain DEF StreamInv

(* Both pushes keep it.                                                    *)
LEMMA PushKeeps ==
  ASSUME StreamInv, NEW size \in ChunkSizes, Push(size)
  PROVE  StreamInv'
<1> DEFINE s == unread.frames
           n == IF size < Len(s) THEN size ELSE Len(s)
           chunk == SubSeq(s, 1, n)
           next == PushFrames(decoder, chunk)
<1>1. /\ s # << >>
      /\ decoder' = [buffered |-> next.buffered,
                     frames |-> IF next.failed THEN decoder.frames ELSE next.frames,
                     failed |-> next.failed \/ decoder.failed]
      /\ unread' = [unread EXCEPT !.frames = SubSeq(@, n + 1, Len(@))]
      /\ consumed' = consumed \o chunk /\ helper' = helper
  BY DEF Push
<1>2. size \in Nat \ {0} /\ s \in Seq(Byte) /\ unread.helper \in Seq(Byte)
  BY WireAssumption DEF StreamInv
<1>3. chunk \in Seq(Byte) /\ chunk # << >> /\ SubSeq(s, n + 1, Len(s)) \in Seq(Byte)
  <2> DEFINE m == n
  <2>1. m = IF size < Len(s) THEN size ELSE Len(s)
    OBVIOUS
  <2> HIDE DEF m, s
  <2>2. SubSeq(s, 1, m) \in Seq(Byte) /\ SubSeq(s, 1, m) # << >> /\ SubSeq(s, m + 1, Len(s)) \in Seq(Byte)
    BY ONLY <1>1, <1>2, <2>1, ChunksTaken
  <2> QED BY <2>2 DEF m
<1>4. /\ unread.helper = << >> /\ helper = NewHelperDecoder
      /\ ~decoder.failed => Again(decoder.frames) \o decoder.buffered = consumed
      /\ decoder.buffered \in Seq(Byte) /\ GoodFrames(decoder.frames) /\ decoder.failed \in BOOLEAN
      /\ Readable(helper) /\ consumed \in Seq(Byte)
  BY <1>1 DEF StreamInv
<1> HIDE DEF chunk
<1>5. /\ Midway(next, Again(decoder.frames) \o (decoder.buffered \o chunk))
      /\ ~next.failed => Short(next.buffered)
  BY <1>3, <1>4, PushFramesTakesAll
<1> HIDE DEF next
<1>6. /\ next.buffered \in Seq(Byte) /\ next.failed \in BOOLEAN /\ GoodFrames(next.frames)
      /\ ~next.failed => Again(next.frames) \o next.buffered = Again(decoder.frames) \o (decoder.buffered \o chunk)
  BY <1>5 DEF Midway
<1>7. /\ decoder'.buffered = next.buffered
      /\ decoder'.frames = (IF next.failed THEN decoder.frames ELSE next.frames)
      /\ decoder'.failed = (next.failed \/ decoder.failed)
  BY <1>1
<1>8. GoodFrames(decoder'.frames) /\ decoder'.frames \in Seq(DecodedFrames)
  BY <1>4, <1>6, <1>7 DEF GoodFrames
<1>9. decoder' \in [buffered : Seq(Byte), frames : Seq(DecodedFrames), failed : BOOLEAN]
  <2> DEFINE fr == IF next.failed THEN decoder.frames ELSE next.frames
             fa == next.failed \/ decoder.failed
  <2>1. fr \in Seq(DecodedFrames) /\ fa \in BOOLEAN /\ decoder' = [buffered |-> next.buffered, frames |-> fr, failed |-> fa]
    BY <1>1, <1>4, <1>6, <1>7, <1>8
  <2> HIDE DEF fr, fa
  <2> QED BY <1>6, <2>1
<1>10. ~decoder'.failed => Short(decoder'.buffered)
  BY <1>5, <1>7
<1>11. ASSUME ~decoder'.failed PROVE Again(decoder'.frames) \o decoder'.buffered = consumed'
  <2>1. ~next.failed /\ ~decoder.failed
    BY <1>7, <1>11
  <2>2. decoder'.frames = next.frames
    BY <1>7, <2>1
  <2>3. Again(next.frames) \o next.buffered = Again(decoder.frames) \o (decoder.buffered \o chunk)
    BY <1>6, <2>1
  <2>4. Again(decoder.frames) \o decoder.buffered = consumed
    BY <1>4, <2>1
  <2>5. (Again(decoder.frames) \o decoder.buffered) \o chunk = Again(decoder.frames) \o (decoder.buffered \o chunk)
    <3>1. Again(decoder.frames) \in Seq(Byte)
      BY <1>4, AgainTyped
    <3>2. decoder.buffered \in Seq(Byte) /\ chunk \in Seq(Byte)
      BY <1>3, <1>4
    <3> QED BY ONLY <3>1, <3>2, Grouped
  <2> QED BY <1>1, <1>7, <2>2, <2>3, <2>4, <2>5, Zenon
<1>12. unread' \in [frames : Seq(Byte), helper : Seq(Byte)] /\ unread'.helper = << >>
  <2>1. unread \in [frames : Seq(Byte), helper : Seq(Byte)]
    BY DEF StreamInv
  <2> DEFINE t == SubSeq(s, n + 1, Len(s))
  <2>2. unread' = [unread EXCEPT !.frames = t] /\ t \in Seq(Byte)
    BY <1>1, <1>3
  <2> HIDE DEF t
  <2> QED BY <1>4, <2>1, <2>2
<1>13. consumed' \in Seq(Byte)
  BY <1>1, <1>3, <1>4, Continued
<1>14. helper' = NewHelperDecoder /\ Readable(helper)' /\ GoodFrames(decoder.frames)'
       /\ (~decoder.failed => Short(decoder.buffered))'
       /\ (~decoder.failed => Again(decoder.frames) \o decoder.buffered = consumed)'
  BY <1>1, <1>4, <1>8, <1>10, <1>11
<1> QED BY <1>9, <1>12, <1>13, <1>14 DEF StreamInv

(* HelperFrameDecoder::push reads on where it stopped.                     *)
LEMMA PushHelperKeeps ==
  ASSUME StreamInv, NEW size \in ChunkSizes, PushHelper(size)
  PROVE  StreamInv'
<1> DEFINE s == unread.helper
           n == IF size < Len(s) THEN size ELSE Len(s)
           chunk == SubSeq(s, 1, n)
           d == [helper EXCEPT !.failed = FALSE]
           next == PushRequests(d, chunk)
           State == [buffer : Seq(Byte), expected : Nat, requests : Seq(Seq(Byte)), failed : BOOLEAN]
<1>1. /\ s # << >>
      /\ helper' = [next EXCEPT !.requests = IF next.failed THEN helper.requests ELSE @,
                                !.failed = @ \/ helper.failed]
      /\ unread' = [unread EXCEPT !.helper = SubSeq(@, n + 1, Len(@))]
      /\ consumed' = consumed \o chunk /\ decoder' = decoder
  BY DEF PushHelper
<1>2. size \in Nat \ {0} /\ s \in Seq(Byte) /\ unread.frames \in Seq(Byte)
  BY WireAssumption DEF StreamInv
<1>3. chunk \in Seq(Byte) /\ chunk # << >> /\ SubSeq(s, n + 1, Len(s)) \in Seq(Byte)
  <2> DEFINE m == n
  <2>1. m = IF size < Len(s) THEN size ELSE Len(s)
    OBVIOUS
  <2> HIDE DEF m, s
  <2>2. SubSeq(s, 1, m) \in Seq(Byte) /\ SubSeq(s, 1, m) # << >> /\ SubSeq(s, m + 1, Len(s)) \in Seq(Byte)
    BY ONLY <1>1, <1>2, <2>1, ChunksTaken
  <2> QED BY <2>2 DEF m
<1>4. /\ unread.frames = << >> /\ decoder = NewDecoder
      /\ ~helper.failed => BytesRead(helper) = consumed
      /\ Readable(helper) /\ consumed \in Seq(Byte) /\ helper \in State
      /\ helper.requests \in Seq(Seq(Byte)) /\ helper.failed \in BOOLEAN /\ GoodRequests(helper.requests)
  BY <1>1 DEF StreamInv, Readable
<1>5. Readable(d) /\ BytesRead(d) = BytesRead(helper) /\ ~d.failed
  <2>1. /\ d.buffer = helper.buffer /\ d.expected = helper.expected /\ d.requests = helper.requests
        /\ ~d.failed /\ d \in State
    BY <1>4
  <2> HIDE DEF d
  <2>2. HeaderOf(d) = HeaderOf(helper)
    BY <2>1 DEF HeaderOf
  <2> QED BY <1>4, <2>1, <2>2 DEF Readable, BytesRead
<1> HIDE DEF chunk, d
<1>6. Readable(next) /\ (~next.failed => BytesRead(next) = BytesRead(helper) \o chunk)
  BY <1>3, <1>5, PushRequestsReadsAll
<1> HIDE DEF next
<1>7. /\ next \in State /\ next.buffer \in Seq(Byte) /\ next.expected \in Nat /\ next.failed \in BOOLEAN
      /\ next.requests \in Seq(Seq(Byte)) /\ GoodRequests(next.requests)
  BY <1>6 DEF Readable
<1> DEFINE q == IF next.failed THEN helper.requests ELSE next.requests
           fa == next.failed \/ helper.failed
<1>8. q \in Seq(Seq(Byte)) /\ GoodRequests(q) /\ fa \in BOOLEAN
  BY <1>4, <1>7
<1>9. /\ helper'.buffer = next.buffer /\ helper'.expected = next.expected /\ helper'.requests = q
      /\ helper'.failed = fa /\ helper' \in State
  <2>1. helper' = [next EXCEPT !.requests = q, !.failed = fa]
    BY <1>1
  <2> HIDE DEF q, fa
  <2> QED BY <1>7, <1>8, <2>1
<1>10. HeaderOf(helper)' = HeaderOf(next)
  BY <1>9 DEF HeaderOf
<1>11. Readable(helper)'
  <2> HIDE DEF q
  <2> QED BY <1>6, <1>8, <1>9, <1>10 DEF Readable
<1>12. (~helper.failed => BytesRead(helper) = consumed)'
  <2> SUFFICES ASSUME ~helper'.failed PROVE BytesRead(helper)' = consumed'
    OBVIOUS
  <2>1. ~next.failed /\ ~helper.failed
    BY <1>9
  <2>2. helper'.requests = next.requests
    BY <1>9, <2>1
  <2>3. BytesRead(helper)' = BytesRead(next)
    BY <1>9, <1>10, <2>2 DEF BytesRead
  <2>4. BytesRead(next) = BytesRead(helper) \o chunk /\ BytesRead(helper) = consumed
    BY <1>4, <1>6, <2>1
  <2> QED BY <1>1, <2>3, <2>4
<1>13. unread' \in [frames : Seq(Byte), helper : Seq(Byte)] /\ unread'.frames = << >>
  <2>1. unread \in [frames : Seq(Byte), helper : Seq(Byte)]
    BY DEF StreamInv
  <2> DEFINE t == SubSeq(s, n + 1, Len(s))
  <2>2. unread' = [unread EXCEPT !.helper = t] /\ t \in Seq(Byte)
    BY <1>1, <1>3
  <2> HIDE DEF t
  <2> QED BY <1>4, <2>1, <2>2
<1>14. consumed' \in Seq(Byte)
  BY <1>1, <1>3, <1>4, Continued
<1>15. /\ decoder' = NewDecoder
       /\ (decoder \in [buffered : Seq(Byte), frames : Seq(DecodedFrames), failed : BOOLEAN])'
       /\ GoodFrames(decoder.frames)' /\ (~decoder.failed => Short(decoder.buffered))'
  BY <1>1, <1>4 DEF StreamInv
<1> QED BY <1>11, <1>12, <1>13, <1>14, <1>15 DEF StreamInv

(* Nothing else touches the decoders.                                      *)
LEMMA StreamInvKept == StreamInv /\ [StreamNext \/ HandshakeNext \/ RecordNext]_wireVars => StreamInv'
<1> SUFFICES ASSUME StreamInv, [StreamNext \/ HandshakeNext \/ RecordNext]_wireVars PROVE StreamInv'
  OBVIOUS
<1>1. CASE UNCHANGED streamVars
  BY <1>1 DEF StreamInv, streamVars, Readable, HeaderOf, BytesRead, Again, GoodFrames, Short
<1>2. CASE StreamNext
  <2>1. PICK size \in ChunkSizes : Push(size) \/ PushHelper(size)
    BY <1>2 DEF StreamNext
  <2> QED BY <2>1, PushKeeps, PushHelperKeeps
<1>3. CASE HandshakeNext
  BY <1>1, <1>3 DEF HandshakeNext, ServerSelects, ClientValidates
<1>4. CASE RecordNext
  BY <1>1, <1>4 DEF RecordNext, SendDatagram, SendOpen, SendRecord, Damage, Receive
<1>5. CASE UNCHANGED wireVars
  BY <1>1, <1>5 DEF wireVars
<1> QED BY <1>2, <1>3, <1>4, <1>5

(* It says all that is promised of the decoders.                           *)
LEMMA StreamInvFaithful == StreamInv => DecodersFaithful
<1> SUFFICES ASSUME StreamInv PROVE DecodersFaithful
  OBVIOUS
<1> DEFINE held == decoder.buffered
           again == Again(decoder.frames)
           requests == RequestsAgain(helper.requests)
           header == HeaderOf(helper)
<1>1. /\ held \in Seq(Byte) /\ again \in Seq(Byte) /\ requests \in Seq(Byte) /\ header \in Seq(Byte)
      /\ helper.buffer \in Seq(Byte)
  BY AgainTyped, RequestsAgainTyped DEF StreamInv, Readable
<1>2. ASSUME ~decoder.failed, ~helper.failed
      PROVE  (((again \o held) \o requests) \o header) \o helper.buffer = consumed
  <2>1. CASE unread.frames = << >> /\ decoder = NewDecoder /\ BytesRead(helper) = consumed
    <3>1. again = << >> /\ held = << >>
      BY <2>1, NewDecodersGood, NothingAgain
    <3>2. (requests \o header) \o helper.buffer = consumed
      BY <2>1 DEF BytesRead
    <3>3. << >> \o << >> = << >> /\ << >> \o requests = requests
      <4>1. << >> \in Seq(Byte)
        OBVIOUS
      <4> HIDE DEF requests
      <4> QED BY ONLY <1>1, <4>1, Grouped
    <3> HIDE DEF again, held, requests, header
    <3> QED BY ONLY <3>1, <3>2, <3>3, Zenon
  <2>2. CASE unread.helper = << >> /\ helper = NewHelperDecoder /\ again \o held = consumed
    <3>1. requests = << >> /\ header = << >> /\ helper.buffer = << >>
      <4>1. helper.requests = << >> /\ helper.expected = 0 /\ helper.buffer = << >>
        BY <2>2 DEF NewHelperDecoder
      <4> QED BY <4>1, NoRequestsAgain DEF HeaderOf
    <3>2. consumed \o << >> = consumed
      BY Grouped DEF StreamInv
    <3> HIDE DEF again, held, requests, header
    <3> QED BY ONLY <2>2, <3>1, <3>2, Zenon
  <2> QED BY <1>2, <2>1, <2>2 DEF StreamInv
<1>3. \A i \in DOMAIN decoder.frames : Encodable(decoder.frames[i])
  BY DEF StreamInv, GoodFrames
<1>4. ~decoder.failed /\ Len(held) >= 4 => Len(held) < 4 + Number(SubSeq(held, 3, 4))
  BY DEF StreamInv, Short
<1>5. Len(helper.buffer) <= MaxHelperFrame
  <2> DEFINE m == Len(helper.buffer)
             e == helper.expected
  <2>1. m \in Nat /\ e \in Nat /\ (e = 0 => m < 4) /\ (e # 0 => m < e /\ e <= MaxHelperFrame)
    BY DEF StreamInv, Readable
  <2>2. MaxHelperFrame \in Nat /\ MaxHelperFrame > 3
    BY WireAssumption
  <2> HIDE DEF m, e
  <2>3. m <= MaxHelperFrame
    BY <2>1, <2>2
  <2> QED BY <2>3 DEF m
<1>6. /\ FlattenSeq([i \in DOMAIN decoder.frames |-> Encode(decoder.frames[i])]) = again
      /\ FlattenSeq([i \in DOMAIN helper.requests |-> EncodeRequest(helper.requests[i])]) = requests
      /\ (IF helper.expected = 0 THEN << >> ELSE BigEndian(helper.expected, 4)) = header
  BY DEF Again, RequestsAgain, HeaderOf
<1> HIDE DEF again, requests, header
<1> QED BY <1>2, <1>3, <1>4, <1>5, <1>6 DEF DecodersFaithful

(* However the transport cuts the stream, and whatever it carries, the     *)
(* decoders of velum-protocol and of the traffic host account for every    *)
(* byte: what they deliver, encoded again, and what they hold back is what *)
(* they were given, and they deliver nothing that no peer may send.        *)
THEOREM DecodersAlwaysFaithful == WireSpec => []DecodersFaithful
<1>1. WireSpec => []StreamInv
  BY StreamInit, StreamInvKept, PTL DEF WireSpec
<1> QED BY <1>1, StreamInvFaithful, PTL
=============================================================================
