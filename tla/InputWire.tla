------------------------------ MODULE InputWire ------------------------------
(***************************************************************************)
(* The bytes of the input and control channels: InboundPacket::encode and  *)
(* ::deserialize (common/src/input_wire.rs, over common/src/buffer.rs),    *)
(* written separately for the client and the host, and the packets the     *)
(* host sends back (streamer/src/transport/mod.rs) as the browser reads    *)
(* them.  Integers are big-endian bytes; a float is four opaque bytes; the *)
(* flag sets and enumerations of moonlight_common are external.            *)
(***************************************************************************)
EXTENDS Integers, Sequences, SequencesExt

CONSTANTS Int16s,      \* the 16-bit values tried, signed
          TypedTexts        \* the texts typed: bytes in UTF-8

ASSUME InputWireAssumption == Int16s \subseteq -32768..32767

VARIABLES pkt, chan, octets, leg, packetRead
inputWireVars == <<pkt, chan, octets, leg, packetRead>>

\* TransportChannelId.
GENERAL == 0
STATS == 1
HOST_VIDEO == 2
MOUSE_RELIABLE == 4
MOUSE_ABSOLUTE == 5
MOUSE_RELATIVE == 6
KEYBOARD == 7
TOUCH == 8
CONTROLLERS == 9
CONTROLLER0 == 10
ControllerChannels == CONTROLLER0..(CONTROLLER0 + 15)
RTT == 26
MouseChannels == {MOUSE_RELIABLE, MOUSE_ABSOLUTE, MOUSE_RELATIVE}

\* External: the bits the flag sets know, and the buttons of a mouse.
ModifierBits == 0..15
ButtonBits == {0, 1, 65535}
AllButtons == 65535
CapabilityBits == {0, 3}
MouseButtons == 1..5

Width == [u8 |-> 1, i8 |-> 1, bool |-> 1, mods |-> 1, button |-> 1, u16 |-> 2, i16 |-> 2,
          caps |-> 2, u32 |-> 4, f32 |-> 4, buttons |-> 4]
SignedKinds == {"i8", "i16"}
WidthOf(kinds) == FoldLeft(LAMBDA n, k : n + Width[k], 0, kinds)
Offset(kinds, i) == WidthOf(SubSeq(kinds, 1, i - 1))

\* ByteBuffer::put_* and get_*, big-endian.
PutBytes(n, w) == LET u == IF n < 0 THEN n + 256^w ELSE n IN [i \in 1..w |-> (u \div 256^(w - i)) % 256]
GetUnsigned(b) == FoldLeft(LAMBDA n, x : 256 * n + x, 0, b)
GetAs(kind, b) ==
    LET n == GetUnsigned(b)
        half == 2^(8 * Len(b) - 1)
    IN  IF kind \in SignedKinds /\ n >= half THEN n - 2 * half ELSE n

PutAll(kinds, values) == FlattenSeq([i \in DOMAIN kinds |-> PutBytes(values[i], Width[kinds[i]])])

\* ByteBuffer::get_utf8_raw: the first n characters of the valid prefix.
Leads(b) == SelectSeq(b, LAMBDA x : x \notin 128..191)
CharLen(lead) == IF lead < 128 THEN 1 ELSE 3
Starts(b) == {i \in DOMAIN b : b[i] \notin 128..191 /\ i + CharLen(b[i]) - 1 <= Len(b)}
GetUtf8Raw(b, n) ==
    LET nth == {i \in Starts(b) : Len(Leads(SubSeq(b, 1, i))) = n}
    IN  IF n = 0 THEN [ok |-> TRUE, text |-> << >>]
        ELSE IF nth = {} THEN [ok |-> FALSE, text |-> << >>]
        ELSE LET last == CHOOSE i \in nth : TRUE
             IN  [ok |-> TRUE, text |-> SubSeq(b, 1, last + CharLen(b[last]) - 1)]

-----------------------------------------------------------------------------
(* The client's side: encode.                                              *)

Packet(t, f) == [t |-> t, f |-> f]
NoPacket == [t |-> "None", f |-> << >>]
Wire(ch, b) == [ch |-> ch, b |-> b]
NoWire == Wire(-1, << >>)
StopJson == <<34, 83, 34>>   \* GeneralClientMessage::Stop, and any JSON of the host: ASCII

\* MouseMove, MousePosition, MouseButton, HighResScroll, Scroll.
EncodeMouse(p) ==
    CASE p.t = "MouseMove" -> Wire(MOUSE_RELATIVE, <<0>> \o PutAll(<<"i16", "i16">>, p.f))
      [] p.t = "MousePosition" -> Wire(MOUSE_ABSOLUTE, <<1>> \o PutAll(<<"i16", "i16", "i16", "i16">>, p.f))
      [] p.t = "MouseButton" -> Wire(MOUSE_RELIABLE, <<2>> \o PutAll(<<"bool", "button">>, p.f))
      [] p.t = "HighResScroll" -> Wire(MOUSE_RELIABLE, <<3>> \o PutAll(<<"i16", "i16">>, p.f))
      [] p.t = "Scroll" -> Wire(MOUSE_RELIABLE, <<4>> \o PutAll(<<"i8", "i8">>, p.f))

\* The flags of a key are not on the wire; a text counts characters.
EncodeKeyboard(p) ==
    CASE p.t = "Key" -> Wire(KEYBOARD, <<0>> \o PutAll(<<"bool", "mods", "u16">>, SubSeq(p.f, 1, 3)))
      [] p.t = "Text" -> IF Len(Leads(p.f)) > 255 THEN NoWire
                         ELSE Wire(KEYBOARD, <<1, Len(Leads(p.f))>> \o p.f)

\* The type of a controller is not on the wire; its state has a channel per id.
EncodeController(p) ==
    CASE p.t = "ControllerConnected" ->
             Wire(CONTROLLERS, <<0>> \o PutAll(<<"u8", "buttons", "caps">>, SubSeq(p.f, 1, 3)))
      [] p.t = "ControllerDisconnected" -> Wire(CONTROLLERS, <<1>> \o PutAll(<<"u8">>, p.f))
      [] p.t = "ControllerState" ->
             IF p.f[1] > 15 THEN NoWire
             ELSE Wire(CONTROLLER0 + p.f[1],
                       <<0>> \o PutAll(<<"buttons", "u8", "u8", "i16", "i16", "i16", "i16">>, Tail(p.f)))

\* Only Down, Move and Cancel can be expressed; no rotation becomes 0.
EncodeTouch(p) ==
    IF p.f[1] \notin 0..2 THEN NoWire
    ELSE Wire(TOUCH, <<p.f[1]>> \o PutAll(<<"u32", "f32", "f32", "f32", "f32", "f32", "u16">>,
                                          [Tail(p.f) EXCEPT ![7] = IF @ = -1 THEN 0 ELSE @]))

Encode(p) ==
    CASE p.t = "General" -> Wire(GENERAL, PutBytes(Len(StopJson), 2) \o StopJson)
      [] p.t \in {"MouseMove", "MousePosition", "MouseButton", "HighResScroll", "Scroll"} -> EncodeMouse(p)
      [] p.t \in {"Key", "Text"} -> EncodeKeyboard(p)
      [] p.t \in {"ControllerConnected", "ControllerDisconnected", "ControllerState"} -> EncodeController(p)
      [] p.t = "Touch" -> EncodeTouch(p)
      [] p.t = "Rtt" -> Wire(RTT, <<0>> \o PutBytes(p.f[1], 2))
      [] p.t = "RequestVideoIdr" -> Wire(HOST_VIDEO, <<0>>)

-----------------------------------------------------------------------------
(* The host's side: deserialize.                                           *)

\* `need` is the length the code asks for before it reads the fields.
Reads(b, need, kinds, t) ==
    IF Len(b) < need THEN NoPacket
    ELSE Packet(t, [i \in DOMAIN kinds |->
                      GetAs(kinds[i], SubSeq(b, Offset(kinds, i) + 1, Offset(kinds, i) + Width[kinds[i]]))])

DeserializeMouse(b) ==
    LET rest == Tail(b)
        button == Reads(rest, 2, <<"bool", "button">>, "MouseButton")
    IN  CASE b = << >> -> NoPacket
          [] b[1] = 0 -> Reads(rest, 4, <<"i16", "i16">>, "MouseMove")
          [] b[1] = 1 -> Reads(rest, 8, <<"i16", "i16", "i16", "i16">>, "MousePosition")
          [] b[1] = 2 -> IF button # NoPacket /\ button.f[2] \notin MouseButtons THEN NoPacket ELSE button
          [] b[1] = 3 -> Reads(rest, 4, <<"i16", "i16">>, "HighResScroll")
          [] b[1] = 4 -> Reads(rest, 2, <<"i8", "i8">>, "Scroll")
          [] OTHER -> NoPacket

DeserializeKeyboard(b) ==
    LET key == Reads(Tail(b), 4, <<"bool", "mods", "u16">>, "Key")
        text == GetUtf8Raw(SubSeq(b, 3, Len(b)), b[2])
    IN  CASE b = << >> -> NoPacket
          [] b[1] = 0 -> IF key = NoPacket THEN NoPacket
                         ELSE Packet("Key", <<key.f[1], IF key.f[2] \in ModifierBits THEN key.f[2] ELSE 0,
                                              key.f[3]>>)
          [] b[1] = 1 -> IF Len(b) < 2 THEN NoPacket
                         ELSE IF text.ok THEN Packet("Text", text.text) ELSE NoPacket
          [] OTHER -> NoPacket

DeserializeTouch(b) ==
    IF Len(b) < 27 \/ b[1] > 2 THEN NoPacket
    ELSE LET rest == Reads(Tail(b), 26, <<"u32", "f32", "f32", "f32", "f32", "f32", "u16">>, "Touch")
         IN  Packet("Touch", <<b[1]>> \o rest.f)

\* Unknown buttons or capabilities of a new controller are replaced ...
DeserializeControllers(b) ==
    LET add == Reads(Tail(b), 7, <<"u8", "buttons", "caps">>, "ControllerConnected")
    IN  CASE b = << >> -> NoPacket
          [] b[1] = 0 -> IF add = NoPacket THEN NoPacket
                         ELSE Packet("ControllerConnected",
                                <<add.f[1], IF add.f[2] \in ButtonBits THEN add.f[2] ELSE AllButtons,
                                  IF add.f[3] \in CapabilityBits THEN add.f[3] ELSE 0>>)
          [] b[1] = 1 -> Reads(Tail(b), 1, <<"u8">>, "ControllerDisconnected")
          [] OTHER -> NoPacket

\* ... those of a state are refused.
DeserializeControllerState(ch, b) ==
    LET state == Reads(Tail(b), 14, <<"buttons", "u8", "u8", "i16", "i16", "i16", "i16">>,
                       "ControllerState")
    IN  IF b = << >> \/ b[1] # 0 \/ state = NoPacket \/ state.f[1] \notin ButtonBits THEN NoPacket
        ELSE Packet("ControllerState", <<ch - CONTROLLER0>> \o state.f)

\* The one channel without a length check before the first byte: an empty
\* message ends the task that reads it.
DeserializeRtt(b) ==
    IF b = << >> THEN Packet("Panic", << >>)
    ELSE IF b[1] # 0 THEN NoPacket ELSE Reads(Tail(b), 2, <<"u16">>, "Rtt")

DeserializeGeneral(b) ==
    LET text == GetUtf8Raw(SubSeq(b, 3, Len(b)), GetUnsigned(SubSeq(b, 1, 2)))
    IN  IF Len(b) < 2 \/ ~text.ok \/ text.text # StopJson THEN NoPacket ELSE Packet("General", << >>)

Deserialize(ch, b) ==
    CASE ch = GENERAL -> DeserializeGeneral(b)
      [] ch = HOST_VIDEO -> IF b # << >> /\ b[1] = 0 THEN Packet("RequestVideoIdr", << >>) ELSE NoPacket
      [] ch \in MouseChannels -> DeserializeMouse(b)
      [] ch = KEYBOARD -> DeserializeKeyboard(b)
      [] ch = TOUCH -> DeserializeTouch(b)
      [] ch = CONTROLLERS -> DeserializeControllers(b)
      [] ch \in ControllerChannels -> DeserializeControllerState(ch, b)
      [] ch = RTT -> DeserializeRtt(b)
      [] OTHER -> NoPacket

-----------------------------------------------------------------------------
(* From the host to the browser.                                           *)

\* OutboundPacket::serialize: both kinds of rumble carry type 0.
SerializeOut(p) ==
    CASE p.t \in {"ControllerRumble", "ControllerTriggerRumble"} ->
             Wire(CONTROLLER0 + p.f[1], <<0>> \o PutAll(<<"u8", "u16", "u16">>, p.f))
      [] p.t = "RttOut" -> Wire(RTT, <<0>> \o PutBytes(p.f[1], 2))
      [] p.t \in {"GeneralOut", "StatsOut"} ->
             Wire(IF p.t = "StatsOut" THEN STATS ELSE GENERAL, PutBytes(Len(StopJson), 2) \o StopJson)

\* onGeneralChannelMessage: the text is as long as its first two bytes say.
GeneralRead(b) ==
    LET length == GetUnsigned(SubSeq(b, 1, 2))
    IN  IF Len(b) >= 2 + length /\ SubSeq(b, 3, 2 + length) = StopJson THEN Packet("GeneralOut", << >>) ELSE NoPacket

\* StreamInput.onControllerData, and the listeners of the other three channels;
\* the browser sends an RTT back as it came.
BrowserReads(ch, b) ==
    CASE ch \in ControllerChannels ->
             IF b[1] = 0 THEN Reads(Tail(b), 5, <<"u8", "u16", "u16">>, "ControllerRumble")
             ELSE IF b[1] = 1 THEN Reads(Tail(b), 5, <<"u8", "u16", "u16">>, "ControllerTriggerRumble")
             ELSE NoPacket
      [] ch = RTT -> Packet("RttOut", <<GetUnsigned(SubSeq(b, 2, 3))>>)
      [] ch = STATS -> Packet("StatsOut", << >>)
      [] ch = GENERAL -> GeneralRead(b)

-----------------------------------------------------------------------------
(* One packet on its way.                                                  *)

Bytes8 == {0, 255}
Unsigned16 == {0, 255, 256, 65535}
ClientPackets ==
    {Packet("General", << >>), Packet("RequestVideoIdr", << >>)}
    \cup {Packet(t, <<x, y>>) : t \in {"MouseMove", "HighResScroll"}, x \in Int16s, y \in Int16s}
    \cup {Packet("MousePosition", <<x, y, 1920, 1080>>) : x \in Int16s, y \in Int16s}
    \cup {Packet("MouseButton", <<d, k>>) : d \in {0, 1}, k \in MouseButtons}
    \cup {Packet("Scroll", <<x, y>>) : x \in {-128, -1, 0, 127}, y \in {-1, 1}}
    \cup {Packet("Key", <<d, m, k, fl>>) : d \in {0, 1}, m \in {0, 8, 15}, k \in Unsigned16, fl \in {0, 1}}
    \cup {Packet("Text", s) : s \in TypedTexts}
    \cup {Packet("ControllerConnected", <<id, k, c, ty>>) :
            id \in {0, 15}, k \in ButtonBits, c \in CapabilityBits, ty \in {0, 1}}
    \cup {Packet("ControllerDisconnected", <<id>>) : id \in {0, 15}}
    \cup {Packet("ControllerState", <<id, k, 10, 250, x, 1, -1, x>>) :
            id \in {0, 3, 15, 16}, k \in ButtonBits, x \in Int16s}
    \cup {Packet("Touch", <<e, 7, 1, 2, 3, 4, 5, r>>) : e \in 0..3, r \in {-1, 0, 90}}
    \cup {Packet("Rtt", <<n>>) : n \in Unsigned16}
HostPackets ==
    {Packet(t, <<id, x, y>>) : t \in {"ControllerRumble", "ControllerTriggerRumble"},
                               id \in {0, 15}, x \in Unsigned16, y \in {0, 65535}}
    \cup {Packet("RttOut", <<n>>) : n \in Unsigned16} \cup {Packet(t, << >>) : t \in {"GeneralOut", "StatsOut"}}

InputWireInit ==
    pkt = NoPacket /\ chan = -1 /\ octets = << >> /\ leg = "idle" /\ packetRead = NoPacket

\* InputSender::send: a packet that cannot be encoded is not sent.
ClientSendsInput ==
    /\ leg = "idle"
    /\ \E p \in ClientPackets :
          /\ pkt' = p
          /\ chan' = Encode(p).ch /\ octets' = Encode(p).b
          /\ leg' = IF Encode(p) = NoWire THEN "refused" ELSE "up"
    /\ UNCHANGED packetRead

HostSendsBack ==
    /\ leg = "idle"
    /\ \E p \in HostPackets :
          pkt' = p /\ chan' = SerializeOut(p).ch /\ octets' = SerializeOut(p).b
    /\ leg' = "down" /\ UNCHANGED packetRead

\* A mouse payload may be sent on any of the three mouse channels.
ReRoute ==
    /\ leg = "up" /\ chan \in MouseChannels
    /\ \E c \in MouseChannels \ {chan} : chan' = c
    /\ UNCHANGED <<pkt, octets, leg, packetRead>>

\* A message that ends early.
CutShort ==
    /\ leg = "up"
    /\ \E n \in 0..(Len(octets) - 1) : octets' = SubSeq(octets, 1, n)
    /\ leg' = "cut"
    /\ UNCHANGED <<pkt, chan, packetRead>>

HostReads ==
    /\ leg \in {"up", "cut"}
    /\ packetRead' = Deserialize(chan, octets)
    /\ leg' = IF leg = "up" THEN "read" ELSE "cutread"
    /\ UNCHANGED <<pkt, chan, octets>>

ClientReads ==
    /\ leg = "down"
    /\ packetRead' = BrowserReads(chan, octets)
    /\ leg' = "back"
    /\ UNCHANGED <<pkt, chan, octets>>

InputWireNext == ClientSendsInput \/ HostSendsBack \/ ReRoute \/ CutShort \/ HostReads \/ ClientReads
InputWireSpec == InputWireInit /\ [][InputWireNext]_inputWireVars

-----------------------------------------------------------------------------
(* Properties.                                                             *)

\* What of a packet the wire carries: no key flags, no controller type, and a
\* touch always has a rotation.
Carried(p) ==
    CASE p.t \in {"Key", "ControllerConnected"} -> [p EXCEPT !.f = SubSeq(@, 1, 3)]
      [] p.t = "Touch" /\ p.f[8] = -1 -> [p EXCEPT !.f[8] = 0]
      [] OTHER -> p

\* The host reads field for field what the client sent, on whichever mouse
\* channel it came; only a controller beyond the sixteenth, a touch event
\* without a code and a text beyond 255 characters are not sent; a message that
\* ends early is refused and not misread, a text that lost only what it does not
\* count and an empty RTT apart; what the host sends the browser reads, but for
\* the kind of a rumble.
InputFaithful ==
    /\ leg = "read" => packetRead = Carried(pkt)
    /\ leg = "refused" => pkt.t \in {"ControllerState", "Touch", "Text"}
    /\ leg = "cutread" => packetRead = NoPacket \/ (chan = RTT /\ octets = << >>)
    /\ leg = "back" => packetRead.f = pkt.f /\ (pkt.t # "ControllerTriggerRumble" => packetRead = pkt)

=============================================================================
