-------------------------------- MODULE Wire --------------------------------
(***************************************************************************)
(* What velum-protocol and velum-helper-protocol put on the wire: the      *)
(* frames of v0 with their incremental decoder, the negotiation of version *)
(* and capabilities, the envelopes of datagrams, the record that opens a   *)
(* relayed stream, and the length-prefixed requests of the traffic host.   *)
(*                                                                         *)
(* A byte is a number 0..255 and every field has the width it has in the   *)
(* code; a 64-bit field is kept as its eight bytes. A peer may send any    *)
(* byte string of Streams, in chunks the transport cuts where it likes.    *)
(***************************************************************************)
EXTENDS Naturals, Sequences, SequencesExt, FiniteSets

CONSTANTS
  Unset,
  Streams,          \* byte strings a peer may send as frames
  HelperStreams,    \* byte strings a controller may send to the traffic host
  ChunkSizes,       \* bound: sizes in which the transport delivers them
  MaximumPayload,   \* maximum_payload of the frame decoder
  RequestBodies,    \* bodies that are JSON of a request, with its version
  MaxHelperFrame,   \* 64 KiB in the code
  Datagrams,        \* datagrams a program may hand to encode
  MaxDatagramSize,  \* what the QUIC path takes
  MaxDatagramPayload,    \* 60 KiB in the code
  MaxDatagramCredential, \* 128 in the code
  OpenRequests,     \* [secret, target] of streams to open
  TextOf,           \* [addresses -> the text to_string gives]
  AddressTexts,     \* [texts that parse as socket addresses -> addresses]
  MaxControlBytes,
  DamageBytes,      \* bound: values a damaged byte may take
  ClientOffers, ServerOffers  \* what the peers of a negotiation support

Byte == 0..255
(* A DatagramSessionId is not zero; only a client sends a credential.      *)
WellFormedDatagram(d) ==
  /\ d \in [direction : {1, 2}, credential : Seq(Byte), session : Seq(Byte), family : {4, 6},
            ip : Seq(Byte), port : Seq(Byte), payload : Seq(Byte)]
  /\ Len(d.session) = 8 /\ \E i \in 1..8 : d.session[i] # 0
  /\ Len(d.ip) = (IF d.family = 4 THEN 4 ELSE 16) /\ Len(d.port) = 2
  /\ d.direction = 2 => d.credential = << >>

(* That an address fits into a request to open a stream, and is what its   *)
(* text parses as.                                                         *)
ASSUME WireAssumption ==
  /\ Unset \notin Nat
  /\ Unset \notin [version : Nat, capabilities : SUBSET (0..63), nonce : {o.nonce : o \in ClientOffers}]
  /\ MaxDatagramCredential \in Byte /\ MaxDatagramPayload \in Nat /\ MaxControlBytes \in Nat
  /\ DamageBytes \subseteq Byte /\ Streams \subseteq Seq(Byte) /\ HelperStreams \subseteq Seq(Byte)
  /\ ChunkSizes \subseteq Nat \ {0} /\ MaximumPayload \in Nat /\ MaxHelperFrame \in Nat /\ MaxHelperFrame > 3
  /\ \A d \in Datagrams : WellFormedDatagram(d)
  /\ \A r \in OpenRequests :
       /\ r \in [secret : Seq(Byte), target : DOMAIN TextOf]
       /\ TextOf[r.target] \in Seq(Byte) /\ Len(TextOf[r.target]) <= 64
       /\ 4 + Len(r.secret) + Len(TextOf[r.target]) <= MaxControlBytes
       /\ TextOf[r.target] \in DOMAIN AddressTexts /\ AddressTexts[TextOf[r.target]] = r.target
  /\ \A o \in ClientOffers \cup ServerOffers :
       o.versions.minimum \in Nat /\ o.versions.maximum \in Nat
  /\ \A s \in ServerOffers : s.capabilities \subseteq 0..63

VARIABLES
  decoder,          \* FrameDecoder [buffered], what it returned, whether a push failed
  helper,           \* RequestDecoder [buffer, expected], and the same
  unread,           \* bytes not delivered to the decoder yet
  consumed,         \* bytes delivered so far
  handshake,        \* [offer, server, selected, accepted]
  record            \* a datagram or open record on its way, or Unset

streamVars == <<decoder, helper, unread, consumed>>
wireVars == <<streamVars, handshake, record>>

MaxFramePayload == 65535

BigEndian(n, width) ==
  LET unit == <<1, 256, 65536, 16777216>>
  IN [i \in 1..width |-> (n \div unit[width - i + 1]) % 256]
Number(bytes) == 256 * bytes[1] + bytes[2]
NonZero(bytes) == \E i \in DOMAIN bytes : bytes[i] # 0

----------------------------------------------------------------------------
(* Capabilities: the set of the bits of a u64.                             *)
Bits(bytes) == {b \in 0..63 : (bytes[8 - b \div 8] \div 2^(b % 8)) % 2 = 1}
ReliableStream == 0

ValidRange(range) == range.minimum <= range.maximum

(* Mutant: the server's newest version, whatever the client speaks.        *)
NegotiateVersionNewest(range, peer) ==
  IF ValidRange(range) /\ ValidRange(peer) /\ range.minimum <= peer.maximum THEN peer.maximum ELSE Unset

(* VersionRange::negotiate: the newest common version.                     *)
NegotiateVersion(range, peer) ==
  LET minimum == IF range.minimum > peer.minimum THEN range.minimum ELSE peer.minimum
      maximum == IF range.maximum < peer.maximum THEN range.maximum ELSE peer.maximum
  IN IF ValidRange(range) /\ ValidRange(peer) /\ minimum <= maximum THEN maximum ELSE Unset

(* CapabilityAdvertisement::new and NegotiationOffer::new.                 *)
ValidOffer(o) ==
  /\ ValidRange(o.versions)
  /\ o.required \cap o.optional = {}
  /\ ReliableStream \in o.required

(* NegotiationOffer::negotiate.                                            *)
Negotiate(o, server) ==
  LET version == NegotiateVersion(o.versions, server.versions)
      enabled == (o.required \cup o.optional) \cap server.capabilities
  IN IF version # Unset /\ o.required \subseteq server.capabilities /\ ReliableStream \in enabled
     THEN [version |-> version, capabilities |-> enabled, nonce |-> o.nonce]
     ELSE Unset

(* NegotiatedParameters::validate_for.                                     *)
ValidateFor(selected, o) ==
  /\ ValidRange(o.versions)
  /\ o.versions.minimum <= selected.version /\ selected.version <= o.versions.maximum
  /\ selected.capabilities \subseteq o.required \cup o.optional
  /\ o.required \subseteq selected.capabilities
  /\ ReliableStream \in selected.capabilities
  /\ selected.nonce = o.nonce

----------------------------------------------------------------------------
(* Frames: a type byte, a reserved zero, the length of the payload in two  *)
(* bytes, and the payload, whose fields are laid out one after another.    *)
ErrorCodes ==
  [n \in 1..9 \cup {255} |->
     CASE n = 1 -> "NoSharedVersion" [] n = 2 -> "IncompatibleCapabilities" [] n = 3 -> "AuthenticationFailed"
       [] n = 4 -> "ReplayDetected" [] n = 5 -> "ProtocolViolation" [] n = 6 -> "ResourceLimit"
       [] n = 7 -> "FlowNotFound" [] n = 8 -> "FlowState" [] n = 9 -> "ResumeUnsupported"
       [] n = 255 -> "Internal"]
FromU16(n) == [name |-> IF n \in DOMAIN ErrorCodes THEN ErrorCodes[n] ELSE "Unknown", value |-> n]
AsU16(e) ==
  IF e.name = "Unknown" THEN e.value ELSE CHOOSE n \in DOMAIN ErrorCodes : ErrorCodes[n] = e.name

CanonicalParameters == <<"u16", "u64", "nonce", "nonce">>
StreamPosition == <<"u64", "u64", "u64">>   \* flow, epoch, sequence
StreamData == 17
Offer == 1
Layouts ==
  [type \in {1, 2, 3, 4, 16, 17, 18, 19, 20, 32} |->
     CASE type = Offer -> <<"u16", "u16", "u64", "u64", "nonce">>
       [] type = 2 -> CanonicalParameters
       [] type = 3 -> <<"id", "u64", "nonce">> \o CanonicalParameters \o <<"proof">>
       [] type = 4 -> <<"id", "u64", "nonce">>
       [] type = 16 -> <<"u64">>
       [] type = StreamData -> Append(StreamPosition, "rest")
       [] type \in {18, 19} -> StreamPosition
       [] type = 20 -> <<"u64", "error">>
       [] type = 32 -> <<"error">>]
OptionalFrame(type) == type >= 128
Layout(type) == IF type \in DOMAIN Layouts THEN Layouts[type] ELSE <<"rest">>

Width(kind) ==
  CASE kind \in {"u16", "error"} -> 2 [] kind = "u64" -> 8 [] kind \in {"id", "nonce"} -> 16
    [] kind = "proof" -> 32 [] kind = "rest" -> 0

(* encode_payload and encode.                                              *)
Payload(frame) ==
  LET layout == Layout(frame.type)
  IN FlattenSeq([i \in DOMAIN layout |->
       IF layout[i] = "error" THEN BigEndian(AsU16(frame.fields[i]), 2) ELSE frame.fields[i]])
Encodable(frame) ==
  /\ frame.type = StreamData => frame.fields[4] # << >>
  /\ frame.type \notin DOMAIN Layouts => OptionalFrame(frame.type)
  /\ Len(Payload(frame)) <= MaxFramePayload
Encode(frame) == <<frame.type, 0>> \o BigEndian(Len(Payload(frame)), 2) \o Payload(frame)

(* Reader: where field i begins, and its bytes.                            *)
FieldStart(layout, i) ==
  LET start[k \in 1..i] == IF k = 1 THEN 0 ELSE start[k - 1] + Width(layout[k - 1]) IN start[i]
Field(layout, payload, i) ==
  SubSeq(payload, FieldStart(layout, i) + 1,
         IF layout[i] = "rest" THEN Len(payload) ELSE FieldStart(layout, i) + Width(layout[i]))

OfferOf(fields) ==
  [versions |-> [minimum |-> Number(fields[1]), maximum |-> Number(fields[2])],
   required |-> Bits(fields[3]), optional |-> Bits(fields[4]), nonce |-> fields[5]]

(* decode_payload: too short, left over, a zero nonce, an unusable offer,  *)
(* no data or a mandatory type nobody knows is an error.                   *)
DecodePayload(type, payload) ==
  LET layout == Layout(type)
      open == layout[Len(layout)] = "rest"
      fixed == FieldStart(layout, Len(layout)) + Width(layout[Len(layout)])
      raw == [i \in DOMAIN layout |-> Field(layout, payload, i)]
      fields == [i \in DOMAIN layout |->
                   IF layout[i] = "error" THEN FromU16(Number(raw[i])) ELSE raw[i]]
  IN IF /\ type \in DOMAIN Layouts \/ OptionalFrame(type)
        /\ IF open THEN Len(payload) >= fixed ELSE Len(payload) = fixed
        /\ \A i \in DOMAIN layout : layout[i] = "nonce" => NonZero(raw[i])
        /\ type = StreamData => raw[4] # << >>
        /\ type = Offer => ValidOffer(OfferOf(raw))
     THEN [type |-> type, fields |-> fields]
     ELSE Unset

(* Mutant: the reserved byte is not looked at.                             *)
DecodeExactReserved(bytes) ==
  IF Len(bytes) - 4 # Number(SubSeq(bytes, 3, 4)) THEN Unset
  ELSE DecodePayload(bytes[1], SubSeq(bytes, 5, Len(bytes)))

DecodeExact(bytes) ==
  IF Len(bytes) - 4 # Number(SubSeq(bytes, 3, 4)) \/ bytes[2] # 0 THEN Unset
  ELSE DecodePayload(bytes[1], SubSeq(bytes, 5, Len(bytes)))

----------------------------------------------------------------------------
(* FrameDecoder::push, one frame of what is buffered and what arrives at a *)
(* time. An announced length beyond the maximum empties the buffer. A      *)
(* frame that does not decode stays in it, and the bytes after the one     *)
(* that completed it are not read: after an earlier failure that is the    *)
(* first byte of the chunk.                                                *)
PushFrame(d) ==
  LET advertised == Number(SubSeq(d.buffered, 3, 4))
      total == 4 + advertised
      frame == DecodeExact(SubSeq(d.buffered, 1, total))
  IN IF d.failed \/ Len(d.buffered) < 4 THEN d
     ELSE IF advertised > MaximumPayload THEN [d EXCEPT !.buffered = << >>, !.failed = TRUE]
     ELSE IF Len(d.buffered) < total THEN d
     ELSE IF frame = Unset
     THEN [d EXCEPT !.buffered = SubSeq(@, 1, IF d.held < total THEN total ELSE d.held + 1),
                    !.failed = TRUE]
     ELSE [d EXCEPT !.buffered = SubSeq(@, 1 + total, Len(@)), !.held = 0,
                    !.frames = Append(@, frame)]
PushFrames(d, chunk) ==
  LET all == d.buffered \o chunk
      before == [buffered |-> all, held |-> Len(d.buffered), frames |-> d.frames, failed |-> FALSE]
      after[i \in 0..(Len(all) \div 4)] == IF i = 0 THEN before ELSE PushFrame(after[i - 1])
  IN after[Len(all) \div 4]

(* RequestDecoder::push: four bytes of length, then the body. Any error    *)
(* empties the decoder.                                                    *)
DecodeRequest(body) ==
  body \in DOMAIN RequestBodies /\ RequestBodies[body] = 1
PushHelperByte(d, byte) ==
  LET buffer == Append(d.buffer, byte)
      length == 256 * Number(SubSeq(buffer, 1, 2)) * 256 + Number(SubSeq(buffer, 3, 4))
      error == [d EXCEPT !.buffer = << >>, !.expected = 0, !.failed = TRUE]
  IN IF d.failed THEN d
     ELSE IF d.expected = 0
     THEN IF Len(buffer) < 4 THEN [d EXCEPT !.buffer = buffer]
          ELSE IF length = 0 \/ length > MaxHelperFrame THEN error
          ELSE [d EXCEPT !.buffer = << >>, !.expected = length]
     ELSE IF Len(buffer) < d.expected THEN [d EXCEPT !.buffer = buffer]
          ELSE IF DecodeRequest(buffer)
               THEN [d EXCEPT !.buffer = << >>, !.expected = 0, !.requests = Append(@, buffer)]
               ELSE error
PushRequests(d, chunk) ==
  LET after[i \in 0..Len(chunk)] == IF i = 0 THEN d ELSE PushHelperByte(after[i - 1], chunk[i])
  IN after[Len(chunk)]

(* encode: the length in four bytes before the body.                       *)
EncodeRequest(body) == BigEndian(Len(body), 4) \o body

----------------------------------------------------------------------------
(* Datagrams: a direction, the credential behind its length from a client, *)
(* the association, an address with its family, and the payload.           *)
ClientToServer == 1

(* Mutant: the byte of the credential's length is forgotten.               *)
MaxEnvelopeShort == MaxDatagramPayload + 28 + MaxDatagramCredential

MaxEnvelope == MaxDatagramPayload + 29 + MaxDatagramCredential
AddressWidth(family) == IF family = 4 THEN 4 ELSE 16

EncodableDatagram(d) ==
  /\ d.direction = ClientToServer => Len(d.credential) \in 1..MaxDatagramCredential
  /\ Len(d.payload) <= MaxDatagramPayload

(* Datagram::encode. push_address writes the family, the address and the   *)
(* port, which is all that d has of a SocketAddr: the scope and the flow   *)
(* label of an IPv6 one are not sent.                                      *)
EncodeDatagram(d) ==
  <<d.direction>>
  \o (IF d.direction = ClientToServer THEN <<Len(d.credential)>> \o d.credential ELSE << >>)
  \o d.session \o <<d.family>> \o d.ip \o d.port \o d.payload

(* Datagram::decode, with the offsets its reader reaches.                  *)
DecodeDatagram(bytes) ==
  LET client == bytes[1] = ClientToServer
      credential == IF client THEN bytes[2] ELSE 0
      at == IF client THEN 2 + credential ELSE 1        \* bytes read before the session
      family == bytes[at + 9]
      end == at + 9 + AddressWidth(family) + 2
      Slice(from, length) == SubSeq(bytes, from + 1, from + length)
  IN IF \/ Len(bytes) > MaxEnvelope \/ bytes = << >>
        \/ client /\ (Len(bytes) < 2 \/ credential \notin 1..MaxDatagramCredential)
     THEN Unset
     ELSE IF Len(bytes) < at + 9 THEN Unset
     ELSE IF family \notin {4, 6} \/ Len(bytes) < end \/ ~NonZero(Slice(at, 8)) THEN Unset
     ELSE IF Len(bytes) - end > MaxDatagramPayload \/ bytes[1] \notin {1, 2} THEN Unset
     ELSE [direction |-> bytes[1], credential |-> IF client THEN Slice(2, credential) ELSE << >>,
           session |-> Slice(at, 8), family |-> family, ip |-> Slice(at + 9, AddressWidth(family)),
           port |-> Slice(end - 2, 2), payload |-> Slice(end, Len(bytes) - end)]

----------------------------------------------------------------------------
(* The first bytes of a relayed stream: the lengths of the credential and  *)
(* of the text of the target, then both. Client and relay each encode and  *)
(* decode with their own limits.                                           *)
MaxSecretBytes == 128
EncodableOpen(r) == Len(r.secret) \in 1..MaxSecretBytes
EncodeOpen(r) ==
  BigEndian(Len(r.secret), 2) \o BigEndian(Len(TextOf[r.target]), 2) \o r.secret \o TextOf[r.target]

(* read_open_request reads as much as the header announces, within the     *)
(* limit, and leaves the rest to the stream; then decode_open.             *)
DecodeOpen(bytes) ==
  LET secret == Number(SubSeq(bytes, 1, 2))
      target == Number(SubSeq(bytes, 3, 4))
      text == SubSeq(bytes, 5 + secret, 4 + secret + target)
  IN IF Len(bytes) < 4 THEN Unset
     ELSE IF \/ 4 + secret + target > MaxControlBytes \/ Len(bytes) < 4 + secret + target
             \/ secret \notin 1..MaxSecretBytes \/ text \notin DOMAIN AddressTexts
     THEN Unset
     ELSE [secret |-> SubSeq(bytes, 5, 4 + secret), target |-> AddressTexts[text],
           stream |-> SubSeq(bytes, 5 + secret + target, Len(bytes))]
----------------------------------------------------------------------------
NewDecoder == [buffered |-> << >>, frames |-> << >>, failed |-> FALSE]
NewHelperDecoder == [buffer |-> << >>, expected |-> 0, requests |-> << >>, failed |-> FALSE]

WireInit ==
  /\ decoder = NewDecoder /\ helper = NewHelperDecoder
  /\ consumed = << >>
  /\ unread \in [frames : Streams \cup {<< >>}, helper : HelperStreams \cup {<< >>}]
  /\ unread.frames = << >> \/ unread.helper = << >>
  /\ handshake = Unset /\ record = Unset

(* A push that fails returns no frame, not even those it had decoded; the  *)
(* caller may go on pushing.                                               *)
Push(size) ==
  LET n == IF size < Len(unread.frames) THEN size ELSE Len(unread.frames)
      next == PushFrames(decoder, SubSeq(unread.frames, 1, n))
  IN /\ unread.frames # << >>
     /\ decoder' = [buffered |-> next.buffered,
                    frames |-> IF next.failed THEN decoder.frames ELSE next.frames,
                    failed |-> next.failed \/ decoder.failed]
     /\ unread' = [unread EXCEPT !.frames = SubSeq(@, n + 1, Len(@))]
     /\ consumed' = consumed \o SubSeq(unread.frames, 1, n)
     /\ UNCHANGED <<helper, handshake, record>>

PushHelper(size) ==
  LET n == IF size < Len(unread.helper) THEN size ELSE Len(unread.helper)
      next == PushRequests([helper EXCEPT !.failed = FALSE], SubSeq(unread.helper, 1, n))
  IN /\ unread.helper # << >>
     /\ helper' = [next EXCEPT !.requests = IF next.failed THEN helper.requests ELSE @,
                               !.failed = @ \/ helper.failed]
     /\ unread' = [unread EXCEPT !.helper = SubSeq(@, n + 1, Len(@))]
     /\ consumed' = consumed \o SubSeq(unread.helper, 1, n)
     /\ UNCHANGED <<decoder, handshake, record>>

(* The server answers an offer, the client checks the answer.              *)
ServerSelects ==
  /\ handshake = Unset
  /\ \E o \in ClientOffers, s \in ServerOffers :
       /\ ValidOffer(o)
       /\ handshake' = [offer |-> o, server |-> s, selected |-> Negotiate(o, s), accepted |-> FALSE]
  /\ UNCHANGED <<streamVars, record>>
ClientValidates ==
  /\ handshake # Unset /\ ~handshake.accepted
  /\ handshake.selected # Unset /\ ValidateFor(handshake.selected, handshake.offer)
  /\ handshake' = [handshake EXCEPT !.accepted = TRUE]
  /\ UNCHANGED <<streamVars, record>>

(* send_datagram and open_stream: what does not encode is not sent.        *)
SendRecord(kind, sent, bytes) ==
  /\ record = Unset
  /\ record' = [kind |-> kind, sent |-> sent, bytes |-> bytes, damaged |-> FALSE, received |-> Unset]
  /\ UNCHANGED <<streamVars, handshake>>
SendDatagram(d) ==
  /\ EncodableDatagram(d) /\ Len(EncodeDatagram(d)) <= MaxDatagramSize
  /\ SendRecord("datagram", d, EncodeDatagram(d))
SendOpen(r) ==
  /\ EncodableOpen(r)
  /\ SendRecord("open", r, EncodeOpen(r) \o <<7>>)

(* A peer may send anything: one byte changed, or a shorter record.        *)
Damage ==
  /\ record # Unset /\ ~record.damaged /\ record.received = Unset
  /\ \E i \in DOMAIN record.bytes :
       \/ \E b \in DamageBytes :
            record' = [record EXCEPT !.bytes[i] = b, !.damaged = TRUE]
       \/ record' = [record EXCEPT !.bytes = SubSeq(@, 1, i - 1), !.damaged = TRUE]
  /\ UNCHANGED <<streamVars, handshake>>

(* receive_datagram refuses an envelope of the other direction; so does    *)
(* the relay. read_open_request leaves what follows to the stream.         *)
Receive ==
  /\ record # Unset /\ record.received = Unset
  /\ LET decoded == IF record.kind = "open" THEN DecodeOpen(record.bytes)
                    ELSE DecodeDatagram(record.bytes)
     IN /\ decoded # Unset
        /\ record.kind = "datagram" => decoded.direction = record.sent.direction
        /\ record' = [record EXCEPT !.received = decoded]
  /\ UNCHANGED <<streamVars, handshake>>

StreamNext == \E size \in ChunkSizes : Push(size) \/ PushHelper(size)
HandshakeNext == ServerSelects \/ ClientValidates
RecordNext ==
  \/ \E d \in Datagrams : SendDatagram(d)
  \/ \E r \in OpenRequests : SendOpen(r)
  \/ Damage \/ Receive
WireSpec == WireInit /\ [][StreamNext \/ HandshakeNext \/ RecordNext]_wireVars

----------------------------------------------------------------------------
(* However the transport cuts the stream, a decoder that has not failed    *)
(* accounts for every byte it was given: what it delivered, encoded again, *)
(* and what it holds back are exactly those bytes, so no two byte strings  *)
(* decode to the same frames; it holds back less than one frame, and never *)
(* delivers one that no peer may send.                                     *)
DecodersFaithful ==
  LET held == decoder.buffered
      encoded == [i \in DOMAIN decoder.frames |-> Encode(decoder.frames[i])]
      requests == [i \in DOMAIN helper.requests |-> EncodeRequest(helper.requests[i])]
      header == IF helper.expected = 0 THEN << >> ELSE BigEndian(helper.expected, 4)
  IN /\ ~decoder.failed /\ ~helper.failed =>
          FlattenSeq(encoded) \o held \o FlattenSeq(requests) \o header \o helper.buffer = consumed
     /\ \A i \in DOMAIN decoder.frames : Encodable(decoder.frames[i])
     /\ ~decoder.failed /\ Len(held) >= 4 => Len(held) < 4 + Number(SubSeq(held, 3, 4))
     /\ Len(helper.buffer) <= MaxHelperFrame

(* What the server selects the client accepts: the newest version both     *)
(* speak and the capabilities both have, with all that the client needs.   *)
(* The server gives up only if there is no such selection.                 *)
HandshakeAgrees ==
  handshake # Unset =>
    LET o == handshake.offer
        s == handshake.server
        common == (o.versions.minimum..o.versions.maximum) \cap (s.versions.minimum..s.versions.maximum)
    IN IF handshake.selected = Unset
       THEN common = {} \/ ~(o.required \subseteq s.capabilities)
       ELSE /\ ValidateFor(handshake.selected, o)
            /\ handshake.selected.version \in common
            /\ \A v \in common : v <= handshake.selected.version
            /\ handshake.selected.capabilities \subseteq s.capabilities

(* Whatever one side may encode, up to the largest credential and payload, *)
(* the other side reads back as it was, and can be read; and what is read  *)
(* of anything else is within the limits and is all that arrived.          *)
RecordsRoundTrip ==
  record # Unset =>
    LET r == record.received
        whole == IF record.kind = "open" THEN DecodeOpen(record.bytes) ELSE DecodeDatagram(record.bytes)
    IN /\ ~record.damaged /\ record.kind = "datagram" => whole = record.sent
       /\ ~record.damaged /\ record.kind = "open" =>
            whole = [secret |-> record.sent.secret, target |-> record.sent.target, stream |-> <<7>>]
       /\ r # Unset /\ record.kind = "datagram" =>
            EncodableDatagram(r) /\ EncodeDatagram(r) = record.bytes
       /\ r # Unset /\ record.kind = "open" =>
            EncodableOpen(r) /\ IsSuffix(r.stream, record.bytes)

(* Both sides of the wire understand the same thing, or say that they do   *)
(* not.                                                                    *)
PeersAgree == HandshakeAgrees /\ RecordsRoundTrip
=============================================================================
