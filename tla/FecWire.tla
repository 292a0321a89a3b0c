------------------------------- MODULE FecWire -------------------------------
(***************************************************************************)
(* The bytes of the video_fec and video_fec_ack channels                   *)
(* (transport-core/src/fec_wire.rs): one message is encoded by a peer that *)
(* selected version 1 or 2, perhaps damaged, and parsed by a peer that     *)
(* reads both versions.  Integers are little-endian bytes as on the wire;  *)
(* payloads and limits are small.  ieee_crc32 is a stand-in that tells the *)
(* payloads of the instance apart: collisions are not modelled.            *)
(***************************************************************************)
EXTENDS Integers, Sequences, SequencesExt

CONSTANTS FragmentMaxV1,  \* CHUNK_FRAGMENT_MAX
          FragmentMaxV2,  \* CHUNK_V2_FRAGMENT_MAX
          RepairMax,      \* V2_REPAIR_PAYLOAD_MAX
          FrameMax,       \* ENCODED_FRAME_MAX
          ChunkCountMax,  \* V2_CHUNK_COUNT_MAX
          WireNumbers     \* the sequence numbers sent

ASSUME FecWireAssumption ==
    /\ {FragmentMaxV1, FragmentMaxV2, ChunkCountMax} \subseteq Nat \ {0}
    /\ {RepairMax, FrameMax} \subseteq Nat
    /\ WireNumbers \subseteq 0..2147483646

VARIABLES
    sent,    \* what was sent: [v, class, m]
    onWire,  \* its bytes: one message, or the chunks of a frame
    hurt,    \* how it was damaged
    gotMsg   \* what the reader made of it
wireVars == <<sent, onWire, hurt, gotMsg>>

ChunkHeaderLen == 13
ChunkV2HeaderLen == 21
V2SourceHeaderLen == 15
V2RepairHeaderLen == 21
SourceMax == ChunkV2HeaderLen + FragmentMaxV2    \* V2_SOURCE_PAYLOAD_MAX
FecMsgMax == V2SourceHeaderLen + SourceMax
RepairMsgMax == V2RepairHeaderLen + RepairMax

Byte == 0..255
LeBytes(n, width) == [i \in 1..width |-> (n \div 256^(i - 1)) % 256]
FromLe(b) == FoldLeftDomain(LAMBDA sum, i : sum + b[i] * 256^(i - 1), 0, b)
SliceOf(b, from, len) == SubSeq(b, from + 1, from + len)
RestOf(b, from) == SubSeq(b, from + 1, Len(b))
Crc32(b) == LeBytes(FoldLeft(LAMBDA sum, x : (31 * sum + x + 1) % 8388593, 1, b), 4)

OkMsg(v, m) == [ok |-> TRUE, v |-> v, m |-> m]
ErrMsg(why) == [ok |-> FALSE, why |-> why]
NoResult == ErrMsg("none")

-----------------------------------------------------------------------------
(* Symbols.                                                                *)

SourceMsg(seq, payload) == [kind |-> "source", epoch |-> 0, seq |-> seq, payload |-> payload]
RepairMsg(rs, base, end, payload) ==
    [kind |-> "repair", epoch |-> 0, rs |-> rs, base |-> base, end |-> end, payload |-> payload]

EncodeSymbolMsg(s) ==
    IF s.kind = "source" THEN <<0>> \o LeBytes(s.seq, 4) \o s.payload
    ELSE <<1>> \o LeBytes(s.rs, 2) \o LeBytes(s.base, 4) \o LeBytes(s.end, 4) \o s.payload

V2SymbolFits(s) == Len(s.payload) <= IF s.kind = "source" THEN SourceMax ELSE RepairMax
EncodeSymbolMsgV2(s) ==
    <<IF s.kind = "source" THEN 2 ELSE 3>> \o LeBytes(s.epoch, 4)
    \o (IF s.kind = "source" THEN LeBytes(s.seq, 4)
        ELSE LeBytes(s.rs, 2) \o LeBytes(s.base, 4) \o LeBytes(s.end, 4))
    \o LeBytes(Len(s.payload), 2) \o Crc32(s.payload) \o s.payload

\* parse_v2_source and parse_v2_repair check in this order.
ParseV2(b, header, most, payloadMax, symbol) ==
    LET len == FromLe(SliceOf(b, header - 6, 2))
        payload == RestOf(b, header)
    IN  CASE Len(b) < header -> ErrMsg("Truncated")
          [] Len(b) > most -> ErrMsg("Oversize")
          [] FromLe(SliceOf(b, 1, 4)) = 0 -> ErrMsg("InvalidEpoch")
          [] len > payloadMax \/ Len(b) # header + len -> ErrMsg("InvalidLength")
          [] Crc32(payload) # SliceOf(b, header - 4, 4) -> ErrMsg("CrcMismatch")
          [] OTHER -> OkMsg(2, symbol)

ParseV2Source(b) ==
    ParseV2(b, V2SourceHeaderLen, FecMsgMax, SourceMax,
            [SourceMsg(FromLe(SliceOf(b, 5, 4)), RestOf(b, V2SourceHeaderLen))
                EXCEPT !.epoch = FromLe(SliceOf(b, 1, 4))])

ParseV2Repair(b) ==
    ParseV2(b, V2RepairHeaderLen, RepairMsgMax, RepairMax,
            [RepairMsg(FromLe(SliceOf(b, 5, 2)), FromLe(SliceOf(b, 7, 4)), FromLe(SliceOf(b, 11, 4)),
                    RestOf(b, V2RepairHeaderLen)) EXCEPT !.epoch = FromLe(SliceOf(b, 1, 4))])

\* Mutant: a malformed version 2 source is tried as version 1.
ParseSymbolFallback(b) ==
    IF b = << >> THEN ErrMsg("Empty")
    ELSE IF b[1] \in {0, 2} /\ ~(b[1] = 2 /\ ParseV2Source(b).ok)
         THEN IF Len(b) < 5 THEN ErrMsg("Truncated")
              ELSE OkMsg(1, SourceMsg(FromLe(SliceOf(b, 1, 4)), RestOf(b, 5)))
         ELSE IF b[1] = 2 THEN ParseV2Source(b) ELSE ParseV2Repair(b)

ParseSymbolMsgVersioned(b) ==
    IF b = << >> THEN ErrMsg("Empty")
    ELSE CASE b[1] = 0 -> IF Len(b) < 5 THEN ErrMsg("Truncated")
                          ELSE OkMsg(1, SourceMsg(FromLe(SliceOf(b, 1, 4)), RestOf(b, 5)))
           [] b[1] = 1 -> IF Len(b) < 11 THEN ErrMsg("Truncated")
                          ELSE OkMsg(1, RepairMsg(FromLe(SliceOf(b, 1, 2)), FromLe(SliceOf(b, 3, 4)),
                                            FromLe(SliceOf(b, 7, 4)), RestOf(b, 11)))
           [] b[1] = 2 -> ParseV2Source(b)
           [] b[1] = 3 -> ParseV2Repair(b)
           [] OTHER -> ErrMsg("UnknownKind")

-----------------------------------------------------------------------------
(* Controls.                                                               *)

SubscribeMsg == [kind |-> "subscribe", epoch |-> 0]
NeedsIdrMsg(reason) == [kind |-> "idr", epoch |-> 0, reason |-> reason]
AckMsg(seq) == [kind |-> "ack", epoch |-> 0, seq |-> seq]
ControlKind == [idr |-> 128, ack |-> 129, subscribe |-> 130]
ControlLen  == [idr |-> 5, ack |-> 8, subscribe |-> 4]

\* RxCore::control_message over encode_ack_msg; version 1 has no reason.
EncodeAckMsg(c) ==
    CASE c.kind = "subscribe" -> <<1>>
      [] c.kind = "idr" -> <<0>>
      [] c.kind = "ack" -> LeBytes(c.seq, 4)

EncodeControlMsgV2(c) ==
    <<ControlKind[c.kind]>> \o LeBytes(c.epoch, 4)
    \o (CASE c.kind = "subscribe" -> << >>
          [] c.kind = "idr" -> <<c.reason>>
          [] c.kind = "ack" -> LeBytes(c.seq, 4))

ParseV2Control(kind, b) ==
    LET epoch == FromLe(SliceOf(b, 1, 4))
    IN  CASE Len(b) - 1 < ControlLen[kind] -> ErrMsg("Truncated")
          [] Len(b) - 1 > ControlLen[kind] -> ErrMsg("InvalidLength")
          [] epoch = 0 -> ErrMsg("InvalidEpoch")
          [] OTHER -> OkMsg(2, CASE kind = "subscribe" -> [SubscribeMsg EXCEPT !.epoch = epoch]
                              [] kind = "idr" -> [NeedsIdrMsg(b[6]) EXCEPT !.epoch = epoch]
                              [] kind = "ack" -> [AckMsg(FromLe(SliceOf(b, 5, 4))) EXCEPT !.epoch = epoch])

\* A reserved first byte is version 2 whatever the length: the version 1
\* acknowledgement of a number whose lowest byte is reserved is refused too.
ParseControlMsg(b) ==
    IF b = << >> THEN ErrMsg("Empty")
    ELSE CASE \E k \in DOMAIN ControlKind : ControlKind[k] = b[1] ->
                 ParseV2Control(CHOOSE k \in DOMAIN ControlKind : ControlKind[k] = b[1], b)
           [] b = <<0>> -> OkMsg(1, NeedsIdrMsg(0))
           [] b = <<1>> -> OkMsg(1, SubscribeMsg)
           [] Len(b) = 4 -> OkMsg(1, AckMsg(FromLe(b)))
           [] OTHER -> ErrMsg("UnknownKind")

-----------------------------------------------------------------------------
(* Frames in chunks.                                                       *)

Fragments(data, most) ==
    IF data = << >> THEN << << >> >>
    ELSE [i \in 1..((Len(data) + most - 1) \div most) |->
            SubSeq(data, (i - 1) * most + 1, IF i * most < Len(data) THEN i * most ELSE Len(data))]

FlagByte(b) == <<IF b THEN 1 ELSE 0>>

ChunkFrame(data, key) ==
    LET parts == Fragments(data, FragmentMaxV1)
    IN  [i \in DOMAIN parts |->
            LeBytes(7, 4) \o LeBytes(i - 1, 2) \o LeBytes(Len(parts), 2) \o FlagByte(key)
            \o LeBytes(9, 4) \o parts[i]]

ParseChunkHeader(b) ==
    IF Len(b) < ChunkHeaderLen THEN ErrMsg("Truncated")
    ELSE OkMsg(1, [index |-> FromLe(SliceOf(b, 4, 2)), count |-> FromLe(SliceOf(b, 6, 2)),
                key |-> b[9] # 0, fragment |-> RestOf(b, ChunkHeaderLen)])

ChunkFrameV2(data, key) ==
    LET parts == Fragments(data, FragmentMaxV2)
    IN  IF Len(data) > FrameMax \/ Len(parts) > ChunkCountMax THEN << >>
        ELSE [i \in DOMAIN parts |->
                LeBytes(7, 4) \o LeBytes(i - 1, 2) \o LeBytes(Len(parts), 2) \o FlagByte(key)
                \o LeBytes(9, 4) \o LeBytes(Len(data), 4) \o Crc32(data) \o parts[i]]

ValidateChunkV2(h) ==
    CASE h.count = 0 \/ h.count > ChunkCountMax -> ErrMsg("InvalidChunkCount")
      [] h.index >= h.count -> ErrMsg("InvalidChunkIndex")
      [] h.len > FrameMax -> ErrMsg("InvalidEncodedFrameLength")
      [] Len(h.fragment) > FragmentMaxV2 -> ErrMsg("Oversize")
      [] OTHER -> OkMsg(2, h)

ParseChunkV2(b) ==
    CASE Len(b) < ChunkV2HeaderLen -> ErrMsg("Truncated")
      [] b[9] > 1 -> ErrMsg("InvalidFrameType")
      [] OTHER -> ValidateChunkV2([index |-> FromLe(SliceOf(b, 4, 2)), count |-> FromLe(SliceOf(b, 6, 2)),
                      key |-> b[9] = 1, len |-> FromLe(SliceOf(b, 13, 4)), crc |-> SliceOf(b, 17, 4),
                      fragment |-> RestOf(b, ChunkV2HeaderLen)])

\* What the receiver makes of the chunks of one frame, put in their order;
\* validate_encoded_frame_v2 looks at the whole.
Reassembled(cs, v) ==
    LET parsed == [i \in DOMAIN cs |-> IF v = 1 THEN ParseChunkHeader(cs[i]) ELSE ParseChunkV2(cs[i])]
        complete == \A i \in DOMAIN cs : parsed[i].ok /\ parsed[i].m.count = Len(cs)
        InOrder(i) == parsed[CHOOSE j \in DOMAIN cs : parsed[j].m.index = i - 1].m.fragment
        covered == {parsed[i].m.index + 1 : i \in DOMAIN cs} = DOMAIN cs
        data == FlattenSeq([i \in DOMAIN cs |-> InOrder(i)])
        frame == [kind |-> "frame", epoch |-> 0, key |-> parsed[1].m.key, data |-> data]
    IN  CASE cs = << >> \/ ~complete -> ErrMsg("Incomplete")
          [] ~covered -> ErrMsg("Incomplete")
          [] v = 2 /\ Len(data) # parsed[1].m.len -> ErrMsg("InvalidLength")
          [] v = 2 /\ Crc32(data) # parsed[1].m.crc -> ErrMsg("CrcMismatch")
          [] OTHER -> OkMsg(v, frame)

-----------------------------------------------------------------------------
(* One message on its way.                                                 *)

Payloads == {<< >>, <<0>>, <<2, 128>>, [i \in 1..RepairMax |-> 3]}
SentFrames   == {<< >>, <<5>>, <<1, 2>>, <<1, 2, 3>>, [i \in 1..FrameMax |-> i]}
SentSymbols ==
    {SourceMsg(n, p) : n \in WireNumbers, p \in Payloads}
        \cup {RepairMsg(n % 65536, n, n + 1, p) : n \in WireNumbers, p \in Payloads}
SentControls == {SubscribeMsg, NeedsIdrMsg(0)} \cup {AckMsg(n) : n \in WireNumbers}

WireInit ==
    /\ sent = [v |-> 0, class |-> "none"] /\ onWire = << >> /\ hurt = "no" /\ gotMsg = NoResult

SendsMsg(v, class, m, messages) ==
    /\ onWire = << >>
    /\ sent' = [v |-> v, class |-> class, m |-> m]
    /\ onWire' = messages /\ hurt' = "no" /\ gotMsg' = NoResult

SendV1 ==
    \/ \E s \in SentSymbols : SendsMsg(1, "symbol", s, <<EncodeSymbolMsg(s)>>)
    \/ \E c \in SentControls : SendsMsg(1, "control", c, <<EncodeAckMsg(c)>>)
    \/ \E d \in SentFrames, key \in BOOLEAN :
          SendsMsg(1, "frame", [kind |-> "frame", epoch |-> 0, key |-> key, data |-> d], ChunkFrame(d, key))

SendV2 ==
    \/ \E s \in SentSymbols :
          /\ V2SymbolFits(s)
          /\ LET m == [s EXCEPT !.epoch = 9] IN SendsMsg(2, "symbol", m, <<EncodeSymbolMsgV2(m)>>)
    \/ \E c \in SentControls \cup {NeedsIdrMsg(2)} :
          LET m == [c EXCEPT !.epoch = 9] IN SendsMsg(2, "control", m, <<EncodeControlMsgV2(m)>>)
    \/ \E d \in SentFrames, key \in BOOLEAN :
          /\ ChunkFrameV2(d, key) # << >>
          /\ SendsMsg(2, "frame", [kind |-> "frame", epoch |-> 0, key |-> key, data |-> d],
                   ChunkFrameV2(d, key))

\* A message cut short or with bytes behind it, a payload byte changed, and for
\* a frame a chunk lost or the fragments of two chunks exchanged.
Damage ==
    /\ onWire # << >> /\ hurt = "no" /\ gotMsg = NoResult
    /\ \/ /\ sent.class = "frame" /\ hurt' = "cut"
          /\ \E n \in 1..(Len(onWire) - 1) : onWire' = SubSeq(onWire, 1, n)
       \/ /\ sent.class # "frame" /\ hurt' = "cut"
          /\ \E n \in 1..(Len(onWire[1]) - 1) : onWire' = <<SubSeq(onWire[1], 1, n)>>
       \/ sent.class # "frame" /\ onWire' = <<Append(onWire[1], 0)>> /\ hurt' = "grown"
       \/ /\ sent.class = "symbol" /\ sent.m.payload # << >>
          /\ onWire' = <<[onWire[1] EXCEPT ![Len(onWire[1])] = (@ + 1) % 256]>> /\ hurt' = "flipped"
       \/ /\ sent.class = "frame" /\ Len(onWire) > 1
          /\ LET header == IF sent.v = 1 THEN ChunkHeaderLen ELSE ChunkV2HeaderLen
                 With(i, j) == SliceOf(onWire[i], 0, header) \o RestOf(onWire[j], header)
             IN  onWire' = [onWire EXCEPT ![1] = With(1, 2), ![2] = With(2, 1)]
          /\ hurt' = "exchanged"
    /\ UNCHANGED <<sent, gotMsg>>

ParseMsg ==
    /\ onWire # << >> /\ gotMsg = NoResult
    /\ gotMsg' = CASE sent.class = "symbol" -> ParseSymbolMsgVersioned(onWire[1])
                [] sent.class = "control" -> ParseControlMsg(onWire[1])
                [] sent.class = "frame" -> Reassembled(onWire, sent.v)
    /\ UNCHANGED <<sent, onWire, hurt>>

WireNext == SendV1 \/ SendV2 \/ Damage \/ ParseMsg
WireSpec == WireInit /\ [][WireNext]_wireVars

-----------------------------------------------------------------------------
(* Properties.                                                             *)

ReservedAck(m) == m.kind = "ack" /\ m.seq % 256 \in {128, 129, 130}

\* What is sent whole is read as it was sent, in its own version; the one
\* exception is a version 1 acknowledgement whose lowest byte is reserved, which
\* is refused.  Nothing sent as version 2 is ever read as version 1, and no
\* version 2 symbol or frame that was cut, extended or altered is accepted.
WireFaithful ==
    gotMsg # NoResult =>
        /\ (hurt = "no" /\ ~(sent.v = 1 /\ ReservedAck(sent.m))) => gotMsg = OkMsg(sent.v, sent.m)
        /\ (sent.v = 2 /\ gotMsg.ok) => gotMsg.v = 2
        /\ (sent.v = 2 /\ hurt # "no") => ~gotMsg.ok \/ (hurt = "exchanged" /\ gotMsg.m = sent.m)

=============================================================================
