------------------------------- MODULE RxCore -------------------------------
(***************************************************************************)
(* The shared receiver of the native client, client-transport/src/capi.rs. *)
(* Three kinds of thread feed the frame queue:                             *)
(*   "c"    a C-ABI caller of the standalone ingress, which holds the      *)
(*          lease mutex for the whole call;                                *)
(*   "cb"   the DataChannel callback of a session (runtime worker);        *)
(*   "tick" the session loop's 50 ms tick (its own thread).                *)
(* RxCore::on_message and RxCore::tick compute their events under the      *)
(* receiver mutex, release it, and then apply the events one by one, so    *)
(* the batches of "cb" and "tick" may be applied in either order.          *)
(*                                                                         *)
(* transport_core::VideoReceiver is represented by what it may emit (the   *)
(* contract that module VideoReceiver is checked against): frames in       *)
(* order, a discontinuity for every loss, and after a discontinuity no     *)
(* frame before a key, except behind the anchor a CRC failure leaves.      *)
(***************************************************************************)
EXTENDS FrameQueue

CONSTANTS MaxFrames,  \* bound on the frames of the host's stream
          MaxBatch,   \* bound on the events one message may produce
          MaxAck      \* bound on the source symbols that can be acknowledged

ASSUME RxAssumption ==
    /\ MaxFrames \in Nat
    /\ MaxBatch \in Nat
    /\ MaxAck \in Nat
    /\ 0 \in Epochs       \* a v1 stream carries epoch 0

VARIABLES
    pos,           \* frames of the host's stream consumed by the receiver
    held,          \* a completed frame waits behind a missing one (reorder)
    awaiting_idr,  \* VideoReceiver::awaiting_idr
    stale_anchor,  \* next_frame_id still names the frame behind a CRC failure
    needs_idr,     \* VideoReceiver::needs_idr, latched until polled
    discs,         \* history: discontinuities the receiver has emitted
    hfd,           \* highest_fully_decoded
    last_acked,    \* last_acked_highest
    rxHolder,      \* the thread inside VideoReceiver::on_message, or "none"
    batch,         \* video events computed by each thread, not applied yet
    acks,          \* the newest ACK among those events, 0 if none
    leaseHolder,   \* "c" while a standalone call is in progress, or "none"
    active,        \* LeaseState::active is Some
    ever_started, lease_closed,
    sess,          \* progress of the one session of this receiver
    codec,         \* FecCodec
    fec_epoch,     \* the epoch of FecCodec::V2, 0 otherwise
    v2_key_gate, fec_configured,
    decode_needs_idr, pending_ack,
    seen           \* history: the last event the consumer popped

frameVars == <<pos, held, awaiting_idr, stale_anchor, needs_idr, discs>>
rxVars    == <<frameVars, hfd, last_acked>>
leaseVars == <<leaseHolder, active, ever_started, lease_closed, sess>>
fecVars   == <<codec, fec_epoch, v2_key_gate, fec_configured>>
pollVars  == <<decode_needs_idr, pending_ack>>
coreVars  == <<rxVars, rxHolder, batch, acks, leaseVars, fecVars, pollVars>>
vars      == <<queueVars, coreVars, seen>>

Threads  == {"c", "cb", "tick"}
Phases   == {"none", "leased", "draining", "negotiating", "streaming", "ended"}
Codecs   == {"Unconfigured", "V1", "V2"}
NoAck    == 0

\* What the consumer has seen before its first event.
Start == [kind |-> "start", n |-> 0, key |-> FALSE, epoch |-> 0,
          gen |-> 0, ord |-> 0, src |-> "queue"]
Seen  == Event \cup {Start}

CoreInit ==
    /\ pos = 0 /\ held = FALSE /\ awaiting_idr = FALSE
    /\ stale_anchor = FALSE /\ needs_idr = FALSE /\ discs = 0
    /\ hfd = 0 /\ last_acked = 0
    /\ rxHolder = "none" /\ batch = [t \in Threads |-> << >>]
    /\ acks = [t \in Threads |-> NoAck]
    /\ leaseHolder = "none" /\ active = FALSE /\ ever_started = FALSE
    /\ lease_closed = FALSE /\ sess = "none"
    /\ codec = "V1" /\ fec_epoch = 0
    /\ v2_key_gate = FALSE /\ fec_configured = FALSE
    /\ decode_needs_idr = FALSE /\ pending_ack = NoAck

Init == QueueInit /\ CoreInit /\ seen = Start

-----------------------------------------------------------------------------
(* VideoReceiver, under the receiver mutex.                                *)

Idle(t) == batch[t] = << >> /\ acks[t] = NoAck /\ rxHolder # t
Src(t)  == IF t = "c" THEN "standalone" ELSE "session"
Room(t) == Len(batch[t]) < MaxBatch
Out(t, evs) == batch' = [batch EXCEPT ![t] = @ \o evs]
FrameAt(n, key, t) == FrameEvent(n, key, fec_epoch, discs, Src(t))

\* The next frame completes reassembly and passes the reorder stage.
EmitFrame(t, key) ==
    /\ rxHolder = t /\ Room(t) /\ pos < MaxFrames
    /\ ~held
    /\ ~awaiting_idr \/ key
    /\ pos' = pos + 1
    /\ awaiting_idr' = (awaiting_idr /\ ~key)
    /\ stale_anchor' = FALSE
    /\ Out(t, << FrameAt(pos + 1, key, t) >>)
    /\ UNCHANGED <<held, needs_idr, discs, hfd, last_acked, acks>>

\* A frame completes out of order and waits for the one before it ...
HoldFrame(t) ==
    /\ rxHolder = t /\ ~awaiting_idr /\ ~held /\ pos + 1 < MaxFrames
    /\ held' = TRUE
    /\ UNCHANGED <<batch, acks, pos, stale_anchor, awaiting_idr, needs_idr, discs,
                   hfd, last_acked>>

\* ... and when that one arrives the reorder stage releases both.
FillGap(t, key1, key2) ==
    /\ rxHolder = t /\ held /\ Len(batch[t]) + 2 <= MaxBatch
    /\ pos' = pos + 2
    /\ held' = FALSE
    /\ Out(t, << FrameAt(pos + 1, key1, t), FrameAt(pos + 2, key2, t) >>)
    /\ UNCHANGED <<awaiting_idr, stale_anchor, needs_idr, discs, hfd, last_acked,
                   acks>>

\* A key that completes behind a stale anchor ends the wait for an IDR but is
\* held until the anchored delta arrives; both are then released, delta first.
FillStaleAnchor(t) ==
    /\ rxHolder = t /\ awaiting_idr /\ stale_anchor
    /\ pos + 1 < MaxFrames /\ Len(batch[t]) + 2 <= MaxBatch
    /\ pos' = pos + 2
    /\ awaiting_idr' = FALSE
    /\ stale_anchor' = FALSE
    /\ Out(t, << FrameAt(pos + 1, FALSE, t), FrameAt(pos + 2, TRUE, t) >>)
    /\ UNCHANGED <<held, needs_idr, discs, hfd, last_acked, acks>>

\* Or the anchored delta completes first, is dropped and frees the anchor while
\* the key is half received: the key completes without claiming it, a delta
\* behind the key does, and the key stays in the reorder stage.
OvertakeKey(t) ==
    /\ rxHolder = t /\ awaiting_idr /\ stale_anchor
    /\ pos + 2 < MaxFrames /\ Room(t)
    /\ pos' = pos + 3
    /\ awaiting_idr' = FALSE
    /\ stale_anchor' = FALSE
    /\ Out(t, << FrameAt(pos + 3, FALSE, t) >>)
    /\ UNCHANGED <<held, needs_idr, discs, hfd, last_acked, acks>>

\* A complete delta is discarded while an IDR is awaited.
DropAwaitingIdr(t) ==
    /\ rxHolder = t /\ awaiting_idr /\ pos < MaxFrames
    /\ pos' = pos + 1
    /\ stale_anchor' = FALSE
    /\ UNCHANGED <<batch, acks, held, awaiting_idr, needs_idr, discs, hfd,
                   last_acked>>

\* VideoReceiver::discontinue: everything buffered is lost, deltas are gated.
Discontinue ==
    /\ pos < MaxFrames
    /\ pos' = IF held THEN pos + 2 ELSE pos + 1
    /\ held' = FALSE
    /\ awaiting_idr' = TRUE
    /\ needs_idr' = TRUE
    /\ discs' = discs + 1

\* A CRC failure sets next_frame_id again after the reset has cleared it.
EmitDiscontinuity(t, crc) ==
    /\ rxHolder = t /\ Room(t)
    /\ Discontinue
    /\ stale_anchor' = crc
    /\ Out(t, << DiscEvent(0, fec_epoch, discs + 1, Src(t)) >>)
    /\ UNCHANGED <<hfd, last_acked, acks>>

ReceiverStep(t) ==
    /\ \/ \E key \in BOOLEAN : EmitFrame(t, key)
       \/ HoldFrame(t)
       \/ \E k1, k2 \in BOOLEAN : FillGap(t, k1, k2)
       \/ DropAwaitingIdr(t)
       \/ FillStaleAnchor(t) \/ OvertakeKey(t)
       \/ \E crc \in BOOLEAN : EmitDiscontinuity(t, crc)
    /\ UNCHANGED <<queueVars, rxHolder, leaseVars, fecVars, pollVars, seen>>

\* A frame has waited too long in the reorder stage: the held one, one behind
\* the expected frame that nothing will ever ask for, or a key behind a stale
\* anchor.
ReorderGap(t) ==
    /\ ~awaiting_idr \/ stale_anchor
    /\ Discontinue
    /\ stale_anchor' = FALSE
    /\ Out(t, << DiscEvent(0, fec_epoch, discs + 1, Src(t)) >>)

TickAck(t) ==
    /\ hfd > last_acked
    /\ last_acked' = hfd
    /\ acks' = [acks EXCEPT ![t] = hfd]

\* VideoReceiver::tick_events: an expired reorder wait turns into a
\* discontinuity, and an outstanding advance into an ACK.
TickCompute(t) ==
    /\ rxHolder = "none" /\ Idle(t)
    /\ \/ ReorderGap(t) /\ UNCHANGED <<last_acked, acks>>
       \/ TickAck(t) /\ UNCHANGED <<pos, held, awaiting_idr, stale_anchor,
                                     needs_idr, discs, batch>>
       \/ ReorderGap(t) /\ TickAck(t)
    /\ UNCHANGED <<hfd, rxHolder>>

-----------------------------------------------------------------------------
(* Ingress: who may call the receiver, and with which locks held.          *)

\* push_symbol: the chunks a message recovers advance highest_fully_decoded
\* before any of them is delivered, so that the cadence gate (32 symbols or
\* 50 ms) fires at most once in a call.
AdvanceAck(t) ==
    /\ hfd' \in hfd..MaxAck
    /\ \/ UNCHANGED <<last_acked, acks>>
       \/ /\ hfd' > last_acked
          /\ last_acked' = hfd'
          /\ acks' = [acks EXCEPT ![t] = hfd']

\* Mutant: the lease is only checked, not held, for the call.
OnStandaloneUnleased ==
    /\ leaseHolder = "none" /\ ~active
    /\ codec # "Unconfigured" /\ rxHolder = "none" /\ Idle("c")
    /\ rxHolder' = "c"
    /\ UNCHANGED <<queueVars, rxVars, batch, acks, leaseVars, fecVars, pollVars, seen>>

OnStandaloneMessage ==
    /\ leaseHolder = "none" /\ ~active
    /\ codec # "Unconfigured" /\ rxHolder = "none" /\ Idle("c")
    /\ leaseHolder' = "c"
    /\ rxHolder' = "c"
    /\ AdvanceAck("c")
    /\ UNCHANGED <<queueVars, frameVars, batch, active, ever_started,
                   lease_closed, sess, fecVars, pollVars, seen>>

OnStandaloneTick ==
    /\ leaseHolder = "none" /\ ~active
    /\ leaseHolder' = "c"
    /\ TickCompute("c")
    /\ UNCHANGED <<queueVars, active, ever_started, lease_closed, sess,
                   fecVars, pollVars, seen>>

StandaloneReturn ==
    /\ leaseHolder = "c" /\ Idle("c")
    /\ leaseHolder' = "none"
    /\ UNCHANGED <<queueVars, rxVars, rxHolder, batch, acks, active, ever_started,
                   lease_closed, sess, fecVars, pollVars, seen>>

OnMessage ==
    /\ sess = "streaming" /\ codec # "Unconfigured"
    /\ rxHolder = "none" /\ Idle("cb")
    /\ rxHolder' = "cb"
    /\ AdvanceAck("cb")
    /\ UNCHANGED <<queueVars, frameVars, batch, leaseVars, fecVars, pollVars, seen>>

Tick ==
    /\ sess = "streaming"
    /\ TickCompute("tick")
    /\ UNCHANGED <<queueVars, leaseVars, fecVars, pollVars, seen>>

\* The end of the statement that computed the events: the mutex is released.
UnlockReceiver(t) ==
    /\ rxHolder = t
    /\ rxHolder' = "none"
    /\ UNCHANGED <<queueVars, rxVars, batch, acks, leaseVars, fecVars, pollVars, seen>>

\* consume_events, one video event: no receiver mutex is held.
ConsumeEvent(t) ==
    /\ batch[t] # << >> /\ rxHolder # t
    /\ LET ev == Head(batch[t]) IN
          \/ /\ ev.kind = "frame" /\ v2_key_gate /\ ~ev.key
             /\ UNCHANGED <<queueVars, v2_key_gate>>
          \/ /\ ev.kind = "frame" /\ (~v2_key_gate \/ ev.key)
             /\ v2_key_gate' = FALSE
             /\ PushFrame(ev)
          \/ /\ ev.kind = "disc"
             /\ PushDiscontinuity(ev)
             /\ UNCHANGED v2_key_gate
    /\ batch' = [batch EXCEPT ![t] = Tail(@)]
    /\ UNCHANGED <<rxVars, rxHolder, acks, leaseVars, codec, fec_epoch,
                   fec_configured, pollVars, seen>>

\* consume_events, the ACK: the slot takes whatever is applied last.
ConsumeAck(t) ==
    /\ acks[t] # NoAck /\ rxHolder # t
    /\ pending_ack' = acks[t]
    /\ acks' = [acks EXCEPT ![t] = NoAck]
    /\ UNCHANGED <<queueVars, rxVars, rxHolder, batch, leaseVars, fecVars,
                   decode_needs_idr, seen>>

-----------------------------------------------------------------------------
(* The life of the one session of this receiver.                           *)

AcquireSessionLease ==
    /\ leaseHolder = "none"
    /\ ~lease_closed /\ ~active /\ ~ever_started
    /\ active' = TRUE /\ ever_started' = TRUE
    /\ sess' = "leased"
    /\ UNCHANGED <<queueVars, rxVars, rxHolder, batch, acks, leaseHolder,
                   lease_closed, fecVars, pollVars, seen>>

\* begin_fec_negotiation up to clear_recovery: a fresh VideoReceiver and no
\* latched state.
BeginFecNegotiation ==
    /\ sess = "leased" /\ rxHolder = "none"
    /\ pos' = 0 /\ held' = FALSE /\ stale_anchor' = FALSE
    /\ awaiting_idr' = FALSE /\ needs_idr' = FALSE
    /\ discs' = 0 /\ hfd' = 0 /\ last_acked' = 0
    /\ codec' = "Unconfigured" /\ fec_epoch' = 0
    /\ v2_key_gate' = FALSE /\ fec_configured' = FALSE
    /\ pending_ack' = NoAck /\ decode_needs_idr' = FALSE
    /\ recovery' = NoRecovery
    /\ sess' = "draining"
    /\ UNCHANGED <<events, closed, overflowed, next_generation, rxHolder,
                   batch, acks, leaseHolder, active, ever_started, lease_closed, seen>>

\* The drain loop and take_overflowed at its end.  The history restarts: what
\* was popped before belongs to the previous stream.
DrainBeforeSession ==
    /\ sess = "draining"
    /\ events' = << >>
    /\ overflowed' = FALSE
    /\ seen' = Start
    /\ sess' = "negotiating"
    /\ UNCHANGED <<closed, next_generation, recovery, rxVars, rxHolder, batch,
                   acks, leaseHolder, active, ever_started, lease_closed, fecVars,
                   pollVars>>

\* ConnectionComplete with valid parameters: v1 without an epoch, or v2 with
\* a nonzero one.
ConfigureFec(e) ==
    /\ sess = "negotiating" /\ ~fec_configured
    /\ fec_configured' = TRUE
    /\ codec' = IF e = 0 THEN "V1" ELSE "V2"
    /\ fec_epoch' = e
    /\ v2_key_gate' = (e # 0)
    /\ sess' = "streaming"
    /\ UNCHANGED <<queueVars, rxVars, rxHolder, batch, acks, leaseHolder, active,
                   ever_started, lease_closed, pollVars, seen>>

\* RxCore::close, by the shell at any time.
Close ==
    /\ leaseHolder = "none" /\ ~lease_closed
    /\ lease_closed' = TRUE
    /\ CloseQueue
    /\ UNCHANGED <<rxVars, rxHolder, batch, acks, leaseHolder, active, ever_started,
                   sess, fecVars, pollVars, seen>>

\* The session thread ends, for whatever reason: its runtime is gone, so no
\* callback is running, and SessionCleanup closes and releases the receiver.
SessionEnd ==
    /\ sess \in {"negotiating", "streaming"}
    /\ Idle("cb") /\ Idle("tick") /\ leaseHolder = "none"
    /\ lease_closed' = TRUE
    /\ active' = FALSE
    /\ sess' = "ended"
    /\ CloseQueue
    /\ UNCHANGED <<rxVars, rxHolder, batch, acks, leaseHolder, ever_started, fecVars,
                   pollVars, seen>>

-----------------------------------------------------------------------------
(* Polling and consuming.                                                  *)

PollAck ==
    /\ pending_ack # NoAck
    /\ pending_ack' = NoAck
    /\ UNCHANGED <<queueVars, rxVars, rxHolder, batch, acks, leaseVars, fecVars,
                   decode_needs_idr, seen>>

RequestIdr ==
    /\ decode_needs_idr' = TRUE
    /\ UNCHANGED <<queueVars, rxVars, rxHolder, batch, acks, leaseVars, fecVars,
                   pending_ack, seen>>

\* poll_needs_idr: the three latches are each taken under their own lock, and
\* nothing else clears them, so one step is enough.
PollNeedsIdr ==
    /\ rxHolder = "none"
    /\ needs_idr \/ overflowed \/ decode_needs_idr
    /\ needs_idr' = FALSE /\ overflowed' = FALSE /\ decode_needs_idr' = FALSE
    /\ UNCHANGED <<events, closed, next_generation, recovery, pos, held,
                   awaiting_idr, stale_anchor, discs, hfd, last_acked, rxHolder, batch,
                   acks, leaseVars, fecVars, pending_ack, seen>>

\* A consumer of wait_event / try_event.
ConsumerPop ==
    /\ PopEvent
    /\ seen' = Head(events)
    /\ UNCHANGED coreVars

\* acknowledge_decoded_key, by a consumer that last popped a reset.
ConsumerAck ==
    /\ seen.kind = "disc"
    /\ AcknowledgeRecovery(seen.gen, seen.epoch)
    /\ UNCHANGED <<coreVars, seen>>

-----------------------------------------------------------------------------
Ingress(t) == ReceiverStep(t) \/ UnlockReceiver(t)
              \/ ConsumeEvent(t) \/ ConsumeAck(t)

SessionIngress ==
    \/ OnMessage \/ Tick
    \/ Ingress("cb") \/ ConsumeEvent("tick") \/ ConsumeAck("tick")

StandaloneIngress ==
    \/ OnStandaloneMessage \/ OnStandaloneTick \/ StandaloneReturn
    \/ Ingress("c")

Lifecycle ==
    \/ AcquireSessionLease \/ BeginFecNegotiation \/ DrainBeforeSession
    \/ \E e \in Epochs : ConfigureFec(e)
    \/ Close \/ SessionEnd

Consumer == ConsumerPop \/ ConsumerAck \/ RequestIdr \/ PollAck \/ PollNeedsIdr

Next == SessionIngress \/ StandaloneIngress \/ Lifecycle \/ Consumer

Spec == Init /\ [][Next]_vars

-----------------------------------------------------------------------------
(* Properties.                                                             *)

TypeOK ==
    /\ QueueTypeOK
    /\ pos \in Nat /\ discs \in Nat /\ hfd \in Nat /\ last_acked \in Nat
    /\ held \in BOOLEAN /\ stale_anchor \in BOOLEAN
    /\ awaiting_idr \in BOOLEAN /\ needs_idr \in BOOLEAN
    /\ rxHolder \in {"none", "c", "cb"}
    /\ batch \in [Threads -> Seq(Event)]
    /\ acks \in [Threads -> Nat]
    /\ leaseHolder \in {"none", "c"}
    /\ active \in BOOLEAN /\ ever_started \in BOOLEAN
    /\ lease_closed \in BOOLEAN /\ sess \in Phases
    /\ codec \in Codecs /\ fec_epoch \in Nat
    /\ v2_key_gate \in BOOLEAN /\ fec_configured \in BOOLEAN
    /\ decode_needs_idr \in BOOLEAN /\ pending_ack \in Nat
    /\ seen \in Seen

\* `next` may come right after `prev` on the consumer's side: a reset and a
\* key always may, a delta only after the frame it refers to, after a reset
\* (the decoder's gate is armed then) or as the first unit of a v1 stream.
Follows(prev, next) ==
    \/ next.kind = "disc"
    \/ next.key
    \/ prev.kind = "disc"
    \/ prev.kind = "frame" /\ next.n = prev.n + 1
    \/ prev.kind = "start" /\ codec # "V2"

\* What the consumer pops is an unbroken stream: whatever the interleaving of
\* the callback and the tick, and whatever the queue throws away when it is
\* full, no delta reaches the decoder side by side with a frame it does not
\* refer to, unless a reset stands between them.
NoGapWithoutReset ==
    /\ events # << >> => Follows(seen, events[1])
    /\ \A i \in 2..Len(events) : Follows(events[i - 1], events[i])

\* Generations identify recoveries: queued resets carry strictly increasing
\* ones, the newest recovery is the only one that can be open, and while its
\* reset is still queued it is open, so the consumer that pops the reset finds
\* it open (frame_queue.rs:84-87).
GenerationsOrdered ==
    /\ \A i, j \in 1..Len(events) :
          (i < j /\ events[i].kind = "disc" /\ events[j].kind = "disc")
             => events[i].gen < events[j].gen
    /\ recovery # NoRecovery => recovery.gen = next_generation
    /\ sess # "draining" =>
          \A i \in 1..Len(events) :
             (events[i].kind = "disc" /\ events[i].gen = next_generation)
                => recovery = [gen |-> events[i].gen, epoch |-> events[i].epoch]

\* The events of a pre-session C caller never survive into a session: the
\* lease is held for the whole standalone call, so nothing can be pushed
\* between the drain and the first session unit.
NoStaleIngress ==
    sess \in {"negotiating", "streaming"} =>
        /\ \A i \in 1..Len(events) : events[i].src # "standalone"
        /\ batch["c"] = << >>

\* G002 (frame_queue.rs:11-14): a transport reset is queued ahead of every
\* frame it gates, so no queued frame that the receiver emitted after a reset
\* stands before that reset.
ResetBeforeGatedFrames ==
    \A i, j \in 1..Len(events) :
        (i < j /\ events[i].kind = "frame"
               /\ events[j].kind = "disc" /\ events[j].src # "queue")
            => events[i].ord < events[j].ord

\* The standalone ingress keeps that contract: its calls hold the lease from
\* the computation of the events to the last push.
StandaloneResetOrder == ~ever_started => ResetBeforeGatedFrames

\* Pre-session ingress stays in order and out of the session.
IngressInOrder == NoStaleIngress /\ StandaloneResetOrder

=============================================================================
