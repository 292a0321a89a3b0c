------------------------------ MODULE QuOverlay ------------------------------
(***************************************************************************)
(* The lossless-tile side channel: the host's tile source (external) writes *)
(* frames to a loopback socket, the streamer's relay task filters them by   *)
(* epoch and forwards them on the reliable, ordered video_qu channel, and   *)
(* the client paints them: the browser over asynchronous image decodes, the *)
(* native client into a byte-bounded composition.                           *)
(*                                                                          *)
(* A tile's content is the number of the frame that carried it; a bad tile  *)
(* does not decode to its checksum.  A new setup replaces the relay while   *)
(* the tasks of the old one still run.                                      *)
(***************************************************************************)
EXTENDS Integers, Sequences, FiniteSets, FiniteSetsExt

CONSTANTS
    Positions,   \* grid positions inside the picture; 0 is one outside
    Epochs,      \* epochs a host uses, positive
    ChannelRoom, \* bound on messages in flight to the client
    TileSizes,   \* decoded sizes of a tile, positive
    MaxBytes,    \* budget of the native composition
    QueueRoom,   \* room of a relay's and of a connection's message queue (16)
    MaxEvents,   \* bound on setups, host connections, messages of the client and frames of the host together
    MaxFrames    \* bound on frames of the host

ASSUME QuAssumption ==
    /\ {ChannelRoom, MaxBytes, QueueRoom, MaxEvents, MaxFrames} \union TileSizes \subseteq Nat
    /\ 0 \notin Positions \union Epochs \union TileSizes

VARIABLES
    generation,  \* qu_generation; a relay is named by its own
    handle,      \* qu_handle: the relay the client's messages go to
    relay,       \* per relay [run, active, pending, queue, conn, epoch, heard]; heard: history, a subscription got into its queue
    conn,        \* per connection [of, st, inbox, hand, out, told, missed, late]; missed: history, a subscription met its full
                 \* queue; late: history, frames sent after its relay was superseded
    says,        \* messages the client sent
    quChannel,   \* video_qu, host to client
    frames,      \* frames the host sent
    overlay,     \* QuOverlayState and canvas: [epoch, applied, canvas]
    decodes,     \* drawTileAsync calls in flight
    want,        \* history: what painting every message at once would show
    overlapped,  \* history: positions of which two decodes were in flight together
    native       \* QuComposition: [epoch, tiles (bytes held per position), used]

relayVars == <<generation, handle, relay, conn, says>>
clientVars == <<overlay, decodes, want, overlapped, native>>
quVars == <<relayVars, quChannel, frames, clientVars>>

\* A CONFIG or an EPOCH frame: both do the same to everything kept here.
Config(e) == [kind |-> "config", epoch |-> e, pos |-> 0, tile |-> 0, size |-> 0, bad |-> FALSE]
Tile(e, p, v, s, bad) == [kind |-> "tile", epoch |-> e, pos |-> p, tile |-> v, size |-> s, bad |-> bad]
Invalidate(e, p) == [kind |-> "invalidate", epoch |-> e, pos |-> p, tile |-> 0, size |-> 0, bad |-> FALSE]

NewRelay == [run |-> TRUE, active |-> FALSE, pending |-> FALSE, queue |-> <<>>, conn |-> 0, epoch |-> 0, heard |-> FALSE]
Blank == [p \in Positions |-> 0]

QuInit ==
    /\ generation = 1 /\ handle = 1 /\ relay = <<NewRelay>> /\ conn = <<>> /\ says = 0
    /\ quChannel = <<>> /\ frames = 0
    /\ overlay = [epoch |-> 0, applied |-> {}, canvas |-> Blank]
    /\ decodes = {} /\ want = Blank /\ overlapped = {}
    /\ native = [epoch |-> 0, tiles |-> Blank, used |-> 0]

\* --------------------------------------------------------------- the relay

\* The bound: generation - 1 setups, the connections, messages and frames so far.
EventsLeft == generation - 1 + Len(conn) + says + frames < MaxEvents

Room(q) == Len(q) < QueueRoom
Open(c) == conn[c].st \in {"read", "hold"}

\* A connection whose task ended; a relay that left.
Closed(c) == [c EXCEPT !.st = "gone", !.inbox = <<>>, !.hand = Config(0), !.out = <<>>, !.told = FALSE, !.missed = FALSE]
Departed == [NewRelay EXCEPT !.run = FALSE]

\* The loop of connection c comes back to its generation guard, after the wait for the next frame.
GuardHolds(c) == conn[c].of = generation
Loops(c, next) == IF GuardHolds(c) THEN next ELSE Closed(next)

\* The task of connection i is aborted: dropped at its wait, or at the end of the send it is in.
Cut(cs, i) ==
    IF i = 0 THEN cs
    ELSE [cs EXCEPT ![i] = IF @.st = "read" THEN Closed(@)
                           ELSE IF @.st = "hold" THEN [@ EXCEPT !.st = "aborted"] ELSE @]

\* accept: the new connection replaces the one there, and a kept subscription is replayed to it.  A
\* superseded relay accepts one more and leaves at its generation guard, and so does that connection.
Connect(g) ==
    /\ EventsLeft /\ relay[g].run
    /\ LET new == [of |-> g, st |-> "read", inbox |-> <<>>, hand |-> Config(0), told |-> FALSE, missed |-> FALSE, late |-> 0,
                   out |-> IF relay[g].pending THEN <<"subscribe">> ELSE <<>>]
       IN  conn' = Append(Cut(conn, relay[g].conn), IF g = generation THEN new ELSE Closed(new))
    /\ relay' = [relay EXCEPT ![g] = IF g = generation THEN [@ EXCEPT !.conn = Len(conn) + 1] ELSE Departed]
    /\ UNCHANGED <<generation, handle, says, quChannel, frames, clientVars>>

\* forward_client_msg: a subscription activates the relay first; then it, or a budget, is queued for
\* the relay's task, and silently dropped when the queue is full or the task has left.
ClientSays(kind) ==
    /\ EventsLeft /\ says' = says + 1
    /\ LET r == relay[handle]
           taken == r.run /\ Room(r.queue)
       IN  relay' = [relay EXCEPT ![handle].active = @ \/ kind = "subscribe",
                                  ![handle].queue = IF taken THEN Append(@, kind) ELSE @,
                                  ![handle].heard = @ \/ (taken /\ kind = "subscribe")]
    /\ UNCHANGED <<generation, handle, conn, quChannel, frames, clientVars>>

\* Mutant: a subscription is not kept for connections to come.
KeptNever(r) == [r EXCEPT !.queue = Tail(@)]

\* run_relay's other branch: a subscription is kept for connections to come, and any message is
\* passed to the connection there is, unless its queue is full; then the guard, which a superseded
\* relay leaves by.
Kept(r) == [r EXCEPT !.queue = Tail(@), !.pending = @ \/ Head(r.queue) = "subscribe"]
RelayTakes(g) ==
    /\ relay[g].run /\ relay[g].queue # <<>>
    /\ relay' = [relay EXCEPT ![g] = IF g = generation THEN Kept(@) ELSE Departed]
    /\ LET kind == Head(relay[g].queue)
           i == relay[g].conn
           fits == i # 0 /\ Open(i) /\ Room(conn[i].out)
           passed == IF i = 0 THEN conn
                     ELSE [conn EXCEPT ![i].out = IF fits THEN Append(@, kind) ELSE @,
                                       ![i].missed = @ \/ (~fits /\ kind = "subscribe")]
       IN  conn' = IF g = generation THEN passed ELSE Cut(passed, i)
    /\ UNCHANGED <<generation, handle, says, quChannel, frames, clientVars>>

\* WebRtcVideo::setup: the generation moves on and the new relay is dormant.  When its listener
\* cannot be bound there is no new relay, and the handle of the superseded one is kept.
Setup(bound) ==
    /\ EventsLeft /\ generation' = generation + 1
    /\ relay' = Append(relay, IF bound THEN NewRelay ELSE Departed)
    /\ handle' = IF bound THEN generation' ELSE handle
    /\ UNCHANGED <<conn, says, quChannel, frames, clientVars>>

\* A superseded relay whose wait ends (its handle was dropped, an accept failed) leaves by its guard
\* and aborts its connection.
RelayExits(g) ==
    /\ relay[g].run /\ g # generation
    /\ relay' = [relay EXCEPT ![g] = Departed]
    /\ conn' = Cut(conn, relay[g].conn)
    /\ UNCHANGED <<generation, handle, says, quChannel, frames, clientVars>>

\* ---------------------------------------------------------- one connection

\* The host writes a frame; it sends tiles only once subscribed, and begins with a configuration.
HostSends(c, f) ==
    /\ EventsLeft /\ frames < MaxFrames /\ frames' = frames + 1
    /\ c = Len(conn) /\ Open(c) /\ conn[c].inbox = <<>>
    /\ f.kind \in {"tile", "invalidate"} => conn[c].told /\ frames > 0
    /\ conn' = [conn EXCEPT ![c].inbox = Append(@, f)]
    /\ UNCHANGED <<generation, handle, says, relay, quChannel, clientVars>>

\* handle_socket_frame and relay_to_sink: CONFIG and EPOCH always pass, the others only of the current
\* epoch and once subscribed.
Relayed(r, f) == \/ f.kind = "config"
                 \/ r.epoch = f.epoch /\ r.active

\* run_connection reads a frame: the shared epoch moves at once, the frame is in hand until sent.
ConnReads(c) ==
    /\ c \in DOMAIN conn /\ conn[c].st = "read" /\ conn[c].inbox # <<>>
    /\ LET f == Head(conn[c].inbox)
           g == conn[c].of
       IN  /\ relay' = IF f.kind = "config" THEN [relay EXCEPT ![g].epoch = f.epoch] ELSE relay
           /\ conn' = [conn EXCEPT ![c] = IF Relayed(relay[g], f) THEN [@ EXCEPT !.inbox = Tail(@), !.hand = f, !.st = "hold"]
                                          ELSE Loops(c, [@ EXCEPT !.inbox = Tail(@)])]
    /\ UNCHANGED <<generation, handle, says, quChannel, frames, clientVars>>

\* The send completes, and the loop comes back to its guard.
ConnSends(c) ==
    /\ c \in DOMAIN conn /\ conn[c].st \in {"hold", "aborted"} /\ Len(quChannel) < ChannelRoom
    /\ quChannel' = Append(quChannel, conn[c].hand)
    /\ LET sent == [conn[c] EXCEPT !.hand = Config(0), !.st = "read", !.late = @ + (IF GuardHolds(c) THEN 0 ELSE 1)]
       IN  conn' = [conn EXCEPT ![c] = IF @.st = "hold" THEN Loops(c, sent) ELSE Closed(sent)]
    /\ UNCHANGED <<generation, handle, says, relay, frames, clientVars>>

\* The other branch of its wait: a message is written to the host.
ConnWrites(c) ==
    /\ c \in DOMAIN conn /\ conn[c].st = "read" /\ conn[c].out # <<>>
    /\ conn' = [conn EXCEPT ![c] = Loops(c, [@ EXCEPT !.out = Tail(@), !.told = @ \/ Head(conn[c].out) = "subscribe"])]
    /\ UNCHANGED <<generation, handle, says, relay, quChannel, frames, clientVars>>

\* The socket closes, a write fails, a frame is malformed, or an aborted task is dropped at its next wait.
ConnEnds(c) ==
    /\ c \in DOMAIN conn /\ conn[c].st \in {"read", "aborted"}
    /\ conn' = [conn EXCEPT ![c] = Closed(@)]
    /\ UNCHANGED <<generation, handle, says, relay, quChannel, frames, clientVars>>

\* -------------------------------------------------------------- the browser

\* QuOverlayState.apply with executeAction: a tile is marked applied before it is decoded.
Cleared(o, e) == [epoch |-> e, applied |-> {}, canvas |-> Blank]
Overlaid(o, f) ==
    IF f.kind = "config" THEN Cleared(o, f.epoch)
    ELSE IF f.epoch # o.epoch \/ f.pos \notin Positions THEN o
    ELSE IF f.kind = "tile" THEN [o EXCEPT !.applied = @ \union {f.pos}]
    ELSE IF f.pos \in o.applied THEN [o EXCEPT !.applied = @ \ {f.pos}, !.canvas[f.pos] = 0] ELSE o

StartsDecode(o, f) == f.kind = "tile" /\ f.epoch = o.epoch /\ f.pos \in Positions

\* apply_tile, apply_invalidate and set_epoch of the native composition.
Composed(n, f) ==
    IF f.kind = "config" THEN [epoch |-> f.epoch, tiles |-> Blank, used |-> 0]
    ELSE IF f.epoch # n.epoch \/ f.pos \notin Positions THEN n
    ELSE LET projected == n.used - n.tiles[f.pos] + f.size
         IN  IF f.kind = "tile" /\ (f.bad \/ projected > MaxBytes) THEN n
             ELSE [n EXCEPT !.tiles[f.pos] = f.size, !.used = projected]

\* The history: every message applied and painted at once.
Wanted(f) ==
    IF f.kind = "config" THEN Blank
    ELSE IF f.epoch # overlay.epoch \/ f.pos \notin Positions THEN want
    ELSE [want EXCEPT ![f.pos] = IF f.kind = "tile" /\ ~f.bad THEN f.tile ELSE 0]

Decoding(p) == \E d \in decodes : d.pos = p

\* The listener on the channel: parseQuMessage, then the overlay.
ClientGets ==
    /\ quChannel # <<>> /\ quChannel' = Tail(quChannel)
    /\ LET f == Head(quChannel)
       IN  /\ overlay' = Overlaid(overlay, f) /\ native' = Composed(native, f) /\ want' = Wanted(f)
           /\ decodes' = IF StartsDecode(overlay, f) THEN decodes \union {[pos |-> f.pos, tile |-> f.tile, bad |-> f.bad]} ELSE decodes
           /\ overlapped' = IF StartsDecode(overlay, f) /\ Decoding(f.pos) THEN overlapped \union {f.pos} ELSE overlapped
    /\ UNCHANGED <<relayVars, frames>>

\* isApplied: an invalidated tile is not painted when its decode completes.
PaintsStill(o, p) == p \in o.applied

\* drawTileAsync completes, in any order: a failed decode or a wrong checksum revokes and clears.
DecodeSettles(d) ==
    /\ d \in decodes /\ decodes' = decodes \ {d}
    /\ overlay' = IF d.bad THEN [overlay EXCEPT !.applied = @ \ {d.pos}, !.canvas[d.pos] = 0]
                  ELSE IF PaintsStill(overlay, d.pos) THEN [overlay EXCEPT !.canvas[d.pos] = d.tile] ELSE overlay
    /\ UNCHANGED <<relayVars, quChannel, frames, want, overlapped, native>>

\* ------------------------------------------------------------ specification

\* A tile that is bad or outside the grid is refused whatever its size.
QuFrames(v) ==
    {Config(e) : e \in Epochs} \union {Invalidate(e, p) : e \in Epochs, p \in Positions}
    \union {Tile(e, p, v, s, FALSE) : e \in Epochs, p \in Positions, s \in TileSizes}
    \union {Tile(e, p, v, 1, p # 0) : e \in Epochs, p \in Positions \union {0}}

QuNext ==
    \/ \E kind \in {"subscribe", "budget"} : ClientSays(kind)
    \/ \E bound \in BOOLEAN : Setup(bound)
    \/ \E g \in DOMAIN relay : Connect(g) \/ RelayTakes(g) \/ RelayExits(g)
    \/ \E c \in DOMAIN conn : \/ \E f \in QuFrames(frames + 1) : HostSends(c, f)
                              \/ ConnReads(c) \/ ConnSends(c) \/ ConnWrites(c) \/ ConnEnds(c)
    \/ ClientGets
    \/ \E d \in decodes : DecodeSettles(d)

QuSpec == QuInit /\ [][QuNext]_quVars

\* --------------------------------------------------------------- properties

\* Nothing stays on the canvas that an invalidation would skip: whatever completes late, painted
\* positions are marked applied (the stuck tile of drawTileAsync's guard).
NoStuckTile == \A p \in Positions : overlay.canvas[p] # 0 => p \in overlay.applied

\* Once its decodes settled, a position shows what the messages ask for, unless two decodes of that
\* position were in flight together (drawTileAsync does not order them).
StaleNeedsOverlap ==
    \A p \in Positions : ~Decoding(p) /\ p \notin overlapped => overlay.canvas[p] = want[p]

\* The composition's byte count is the sum of the tiles it holds and stays within the budget, through
\* replacements by tiles of another size, refusals, invalidations and new epochs (apply_tile).
BudgetExact ==
    /\ native.used <= MaxBytes
    /\ native.used = MapThenSumSet(LAMBDA p : native.tiles[p], Positions)

\* A connection of a superseded relay still sends at most one frame to the channel the new relay
\* uses: the one it was waiting for (the generation guard of run_connection).
GhostRelaysOnce == \A c \in DOMAIN conn : conn[c].late <= 1

\* A subscription that got into its relay's queue is forgotten only where a connection's own queue
\* was full: otherwise the open connection was told, or will be by what is queued, connections made
\* later included (forward_client_msg, pending_subscribe).  One that met the relay's full queue is
\* lost although the relay is active (let _ = try_send): the host then never starts to send.
SubscriptionKept ==
    \A g \in DOMAIN relay : relay[g].run /\ relay[g].heard /\ relay[g].conn # 0 /\ Open(relay[g].conn) =>
        LET c == conn[relay[g].conn]
        IN  c.told \/ c.missed \/ \E i \in DOMAIN (relay[g].queue \o c.out) : (relay[g].queue \o c.out)[i] = "subscribe"

\* The overlay shows the tiles it was sent, within its budget, from the relay
\* that is current (qu_overlay.ts, qu_composition.rs, qu_relay.rs).
OverlayHonest ==
    NoStuckTile /\ StaleNeedsOverlap /\ BudgetExact /\ GhostRelaysOnce /\ SubscriptionKept

=============================================================================
