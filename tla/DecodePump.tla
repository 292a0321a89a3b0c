----------------------------- MODULE DecodePump -----------------------------
(***************************************************************************)
(* The decoder thread of the native client (app-native/src/main.rs: the    *)
(* frame pump, drain_newest and DecodeState) composed with the session     *)
(* side of RxCore: the DataChannel callback and the session tick push      *)
(* concurrently while the pump drains, decodes and acknowledges.           *)
(*                                                                         *)
(* FFmpeg is represented by what a call may return (a picture, nothing or  *)
(* an error) and by `chain`, the last frame its reference state contains.  *)
(***************************************************************************)
EXTENDS RxCore, Integers

VARIABLES
    pc,                   \* where the pump is
    after,                \* where it continues once a picture is accounted
    newest, poisoned,     \* the locals of drain_newest
    unit,                 \* the unit whose picture is being accounted
    decoder,              \* DecodeState::decoder is Some
    wait_for_key, recovery_generation, epoch,
    chain,                \* last frame absorbed by the decoder; 0 after a flush
    dangling,             \* history: a delta was fed without its reference
    decoded, published,   \* a picture was produced / published for present
    device_removed, decode_stall_pending,
    idr_asked             \* a NeedsIdr has reached the host and is unanswered

None == -1

decodeVars == <<decoder, wait_for_key, recovery_generation, epoch, chain,
                dangling, decoded, published>>
signalVars == <<device_removed, decode_stall_pending>>
drainVars  == <<pc, after, newest, poisoned, unit>>
pumpVars   == <<decodeVars, signalVars, drainVars, idr_asked>>
allVars    == <<vars, pumpVars>>

PumpPcs == {"idle", "drain", "meta", "ack", "exit"}

\* Session::start has leased the receiver and drained it; the pump starts.
PumpInit ==
    /\ QueueInit /\ seen = Start
    /\ pos = 0 /\ held = FALSE /\ awaiting_idr = FALSE
    /\ stale_anchor = FALSE /\ needs_idr = FALSE /\ discs = 0 /\ hfd = 0 /\ last_acked = 0
    /\ rxHolder = "none" /\ batch = [t \in Threads |-> << >>]
    /\ acks = [t \in Threads |-> NoAck]
    /\ leaseHolder = "none" /\ active = TRUE /\ ever_started = TRUE
    /\ lease_closed = FALSE /\ sess = "negotiating"
    /\ codec = "Unconfigured" /\ fec_epoch = 0
    /\ v2_key_gate = FALSE /\ fec_configured = FALSE
    /\ decode_needs_idr = FALSE /\ pending_ack = NoAck
    /\ pc = "idle" /\ after = "idle" /\ newest = Start /\ poisoned = FALSE
    /\ unit = Start
    /\ decoder \in BOOLEAN
    /\ wait_for_key = 0 /\ recovery_generation = None /\ epoch = None
    /\ chain = 0 /\ dangling = FALSE
    /\ decoded = FALSE /\ published = FALSE
    /\ device_removed = FALSE /\ decode_stall_pending = FALSE
    /\ idr_asked = FALSE

\* What the pump never touches.
ProducerVars == <<rxVars, rxHolder, batch, acks, leaseVars, fecVars, pending_ack>>

-----------------------------------------------------------------------------
(* DecodeState.                                                            *)

\* Mutant: the gate is not armed.
OnDiscontinuityUngated(d) ==
    /\ epoch' = d.epoch
    /\ chain' = 0
    /\ recovery_generation' = d.gen
    /\ UNCHANGED <<decoder, wait_for_key, dangling, decoded, published>>

\* on_discontinuity: flush, arm the gate and track the generation.
OnDiscontinuity(d) ==
    /\ epoch' = d.epoch
    /\ chain' = 0
    /\ wait_for_key' = d.epoch
    /\ recovery_generation' = d.gen
    /\ UNCHANGED <<decoder, dangling, decoded, published>>

\* Where the pump continues once the picture of a unit is accounted: with the
\* drain when the unit was superseded (drop_unit), else with the next event.
Continue(cont) == pc' = cont /\ after' = cont

\* The shared body of on_unit and drop_unit up to the accounting of a
\* picture.  A device lost before the call swaps in a software decoder and
\* re-arms the gate (demote_removed_device); the outcome of the decode call
\* is FFmpeg's.
Feed(u, cont) ==
    LET gate0  == IF device_removed THEN epoch ELSE wait_for_key
        chain0 == IF device_removed THEN 0 ELSE chain
        adopt  == epoch = None
        gate   == IF adopt /\ gate0 # None THEN u.epoch ELSE gate0
        epoch1 == IF adopt THEN u.epoch ELSE epoch
    IN  /\ device_removed' = FALSE
        /\ unit' = u
        /\ decoder' \in (IF device_removed THEN BOOLEAN ELSE {decoder})
        /\ \/ /\ ~decoder'                                \* receive-only mode
              /\ wait_for_key' = gate0
              /\ chain' = chain0
              /\ decode_needs_idr' = (decode_needs_idr \/ device_removed)
              /\ Continue(cont)
              /\ UNCHANGED <<epoch, dangling, decoded, published>>
           \/ /\ decoder' /\ ~adopt /\ u.epoch # epoch    \* stale epoch
              /\ wait_for_key' = gate0
              /\ chain' = chain0
              /\ decode_needs_idr' = (decode_needs_idr \/ device_removed)
              /\ Continue(cont)
              /\ UNCHANGED <<epoch, dangling, decoded, published>>
           \/ /\ decoder' /\ u.epoch = epoch1             \* gated delta
              /\ gate # None /\ ~u.key
              /\ epoch' = epoch1
              /\ wait_for_key' = gate
              /\ chain' = chain0
              /\ decode_needs_idr' = TRUE
              /\ Continue(cont)
              /\ UNCHANGED <<dangling, decoded, published>>
           \/ /\ decoder' /\ u.epoch = epoch1             \* fed to FFmpeg
              /\ gate = None \/ u.key
              /\ epoch' = epoch1
              /\ dangling' = (dangling \/ (~u.key /\ chain0 # u.n - 1))
              /\ \/ /\ wait_for_key' = gate               \* Ok(Some(picture))
                    /\ chain' = u.n
                    /\ decode_needs_idr' = (decode_needs_idr \/ device_removed)
                    /\ decoded' = TRUE
                    /\ published' = (published \/ cont = "idle")
                    /\ \E is_key \in (IF u.key THEN BOOLEAN ELSE {FALSE}) :
                          IF gate = u.epoch /\ is_key
                          THEN pc' = "meta" /\ after' = cont
                          ELSE Continue(cont)
                 \/ /\ wait_for_key' = gate               \* Ok(None)
                    /\ chain' = u.n
                    /\ decode_needs_idr' = (decode_needs_idr \/ device_removed)
                    /\ Continue(cont)
                    /\ UNCHANGED <<decoded, published>>
                 \/ /\ wait_for_key' = epoch1             \* Err
                    /\ chain' = 0
                    /\ decode_needs_idr' = TRUE
                    /\ Continue(cont)
                    /\ UNCHANGED <<decoded, published>>
        /\ UNCHANGED recovery_generation

\* on_meta, first half: RxCore::recovery is read under the queue's lock.
OnMetaRead ==
    /\ pc = "meta"
    /\ \/ /\ recovery = [gen |-> recovery_generation, epoch |-> unit.epoch]
          /\ pc' = "ack"
          /\ UNCHANGED <<wait_for_key, recovery_generation, after>>
       \/ /\ recovery # [gen |-> recovery_generation, epoch |-> unit.epoch]
          /\ wait_for_key' = None
          /\ recovery_generation' = None
          /\ Continue(after)
    /\ UNCHANGED <<vars, signalVars, newest, poisoned, unit, decoder, epoch,
                   chain, dangling, decoded, published, idr_asked>>

\* on_meta, second half: the lock is taken again for the acknowledgement, and
\* a reset pushed in between makes it fail.
OnMetaAck ==
    /\ pc = "ack"
    /\ AcknowledgeRecovery(recovery_generation, unit.epoch)
    /\ IF recovery = [gen |-> recovery_generation, epoch |-> unit.epoch]
       THEN wait_for_key' = None /\ recovery_generation' = None
       ELSE UNCHANGED <<wait_for_key, recovery_generation>>
    /\ Continue(after)
    /\ UNCHANGED <<ProducerVars, decode_needs_idr, seen, signalVars, newest,
                   poisoned, unit, decoder, epoch, chain, dangling,
                   decoded, published, idr_asked>>

\* on_decode_stall, at the top of the pump's loop.
OnDecodeStall ==
    /\ pc = "idle" /\ decode_stall_pending
    /\ decode_stall_pending' = FALSE
    /\ chain' = 0
    /\ wait_for_key' = epoch
    /\ decode_needs_idr' = TRUE
    /\ UNCHANGED <<queueVars, ProducerVars, seen, drainVars, device_removed,
                   decoder, recovery_generation, epoch, dangling, decoded, published, idr_asked>>

-----------------------------------------------------------------------------
(* The pump's loop and drain_newest.                                       *)

Pop(kind) ==
    /\ PopEvent
    /\ Head(events).kind = kind
    /\ seen' = Head(events)

WaitReset ==
    /\ pc = "idle"
    /\ Pop("disc")
    /\ OnDiscontinuity(Head(events))
    /\ UNCHANGED <<ProducerVars, decode_needs_idr, signalVars, drainVars, idr_asked>>

WaitFrame ==
    /\ pc = "idle"
    /\ Pop("frame")
    /\ pc' = "drain"
    /\ newest' = Head(events)
    /\ poisoned' = FALSE
    /\ UNCHANGED <<ProducerVars, decode_needs_idr, signalVars, decodeVars,
                   after, unit, idr_asked>>

\* A later frame supersedes `newest`, which is decoded and dropped unless a
\* reset has poisoned it.
DrainFrame ==
    /\ pc = "drain"
    /\ Pop("frame")
    /\ newest' = Head(events)
    /\ poisoned' = FALSE
    /\ \/ /\ poisoned
          /\ UNCHANGED <<decode_needs_idr, signalVars, decodeVars, pc, after, unit>>
       \/ /\ ~poisoned
          /\ Feed(newest, "drain")
          /\ UNCHANGED decode_stall_pending
    /\ UNCHANGED <<ProducerVars, idr_asked>>

DrainReset ==
    /\ pc = "drain"
    /\ Pop("disc")
    /\ OnDiscontinuity(Head(events))
    /\ poisoned' = TRUE
    /\ UNCHANGED <<ProducerVars, decode_needs_idr, signalVars, pc, after,
                   newest, unit, idr_asked>>

\* The backlog is empty: the surviving frame is decoded and published.
DrainEnd ==
    /\ pc = "drain" /\ events = << >>
    /\ \/ /\ poisoned
          /\ pc' = "idle" /\ after' = "idle"
          /\ UNCHANGED <<decode_needs_idr, signalVars, decodeVars, unit>>
       \/ /\ ~poisoned
          /\ Feed(newest, "idle")
          /\ UNCHANGED decode_stall_pending
    /\ UNCHANGED <<queueVars, seen, ProducerVars, newest, poisoned, idr_asked>>

\* wait_event returns None on the closed, drained queue of a stopped session.
PumpExit ==
    /\ pc = "idle" /\ closed /\ events = << >>
    /\ pc' = "exit"
    /\ UNCHANGED <<vars, decodeVars, signalVars, after, newest, poisoned, unit,
                   idr_asked>>

Pump ==
    \/ WaitReset \/ WaitFrame \/ DrainFrame \/ DrainReset \/ DrainEnd
    \/ OnMetaRead \/ OnMetaAck \/ OnDecodeStall

-----------------------------------------------------------------------------
(* The pump's surroundings.                                                *)

\* The present thread finds the D3D11 device removed; it only runs with a
\* published picture.
DeviceRemoved ==
    /\ published /\ ~device_removed
    /\ device_removed' = TRUE
    /\ UNCHANGED <<vars, decodeVars, decode_stall_pending, drainVars, idr_asked>>

\* The watchdog's decode stage (armed by the first decoded picture) reports a
\* stall and the UI thread hands it to the pump.
DecodeStall ==
    /\ decoded /\ ~decode_stall_pending
    /\ decode_stall_pending' = TRUE
    /\ UNCHANGED <<vars, decodeVars, device_removed, drainVars, idr_asked>>

\* Mutant: NeedsIdr is sent once per latch and never repeated.
SendNeedsIdrOnce ==
    /\ sess = "streaming" /\ rxHolder = "none"
    /\ needs_idr \/ overflowed \/ decode_needs_idr
    /\ ~idr_asked
    /\ idr_asked' = TRUE
    /\ needs_idr' = FALSE /\ overflowed' = FALSE /\ decode_needs_idr' = FALSE
    /\ UNCHANGED <<events, closed, next_generation, recovery, pos, held,
                   awaiting_idr, stale_anchor, discs, hfd, last_acked, rxHolder, batch,
                   acks, leaseVars, fecVars, pending_ack, seen, decodeVars,
                   signalVars, drainVars>>

\* The session tick: NeedsIdr is (re)sent while a recovery is open, and once
\* for a bare latch.
SendNeedsIdr ==
    /\ sess = "streaming" /\ rxHolder = "none"
    /\ recovery # NoRecovery \/ needs_idr \/ overflowed \/ decode_needs_idr
    /\ ~idr_asked
    /\ idr_asked' = TRUE
    /\ needs_idr' = FALSE /\ overflowed' = FALSE /\ decode_needs_idr' = FALSE
    /\ UNCHANGED <<events, closed, next_generation, recovery, pos, held,
                   awaiting_idr, stale_anchor, discs, hfd, last_acked, rxHolder, batch,
                   acks, leaseVars, fecVars, pending_ack, seen, decodeVars,
                   signalVars, drainVars>>

\* The host answers with a key frame, which arrives whole.
AnswerIdr ==
    /\ idr_asked
    /\ EmitFrame("cb", TRUE)
    /\ idr_asked' = FALSE
    /\ UNCHANGED <<queueVars, rxHolder, leaseVars, fecVars, pollVars, seen,
                   decodeVars, signalVars, drainVars>>

\* The session streams ...
Streaming ==
    /\ \/ SessionIngress
       \/ \E e \in Epochs : ConfigureFec(e)
       \/ PollAck
    /\ UNCHANGED pumpVars

\* ... until the shell closes the receiver or the session thread ends.
Stopping == (Close \/ SessionEnd) /\ UNCHANGED pumpVars

Running ==
    \/ Streaming \/ AnswerIdr \/ SendNeedsIdr
    \/ Pump \/ DeviceRemoved \/ DecodeStall

PumpNext == Running \/ Stopping \/ PumpExit

PumpSpec == PumpInit /\ [][PumpNext]_allVars

\* The threads of a running session are scheduled: the pump and the
\* callback are not starved, the tick is a 50 ms timer that gets the receiver
\* mutex and gives up a held frame in the end (strong, for the callback takes
\* it again and again; a reset without a held frame is never owed), and a host
\* that is asked for a key again and again eventually gets one across.
PumpFairness ==
    /\ WF_allVars(Pump)
    /\ WF_allVars(OnMessage /\ UNCHANGED pumpVars)
    /\ WF_allVars(UnlockReceiver("cb") /\ UNCHANGED pumpVars)
    /\ WF_allVars(ConsumeEvent("cb") /\ UNCHANGED pumpVars)
    /\ SF_allVars(held /\ Tick /\ UNCHANGED pumpVars)
    /\ WF_allVars(ConsumeEvent("tick") /\ UNCHANGED pumpVars)
    /\ SF_allVars(SendNeedsIdr)
    /\ SF_allVars(AnswerIdr)

\* A session that nobody stops.
FairPumpSpec == PumpInit /\ [][Running]_allVars /\ PumpFairness

-----------------------------------------------------------------------------
(* Properties.                                                             *)

Units == Event \cup {Start}

PumpTypeOK ==
    /\ TypeOK
    /\ pc \in PumpPcs /\ after \in {"idle", "drain"}
    /\ newest \in Units /\ unit \in Units /\ poisoned \in BOOLEAN
    /\ decoder \in BOOLEAN
    /\ wait_for_key \in Nat \cup {None} /\ epoch \in Nat \cup {None}
    /\ recovery_generation \in Nat \cup {None}
    /\ chain \in Nat /\ dangling \in BOOLEAN
    /\ decoded \in BOOLEAN /\ published \in BOOLEAN
    /\ device_removed \in BOOLEAN /\ decode_stall_pending \in BOOLEAN
    /\ idr_asked \in BOOLEAN

\* A delta is never fed to FFmpeg without the frame it refers to, whatever
\* the queue dropped, the transport lost, the decoder rejected, and however
\* resets, stalls and device losses interleave with the drain.
NoDanglingDelta == ~dangling

\* A decoder whose reference state is empty (new, flushed, replaced or after
\* an error) is always behind an armed gate: nothing but a decoded key opens
\* it, not even a device loss before the first unit.
EmptyDecoderIsGated == chain = 0 => wait_for_key # None

\* No orphan recovery: an open recovery is always on its way to being closed.
\* Either its reset is still queued, or the pump tracks exactly that
\* generation behind an armed gate, so that the next decoded key acks it.
RecoveryTracked ==
    recovery # NoRecovery =>
        \/ \E i \in 1..Len(events) :
              events[i].kind = "disc" /\ events[i].gen = recovery.gen
        \/ /\ recovery_generation = recovery.gen
           /\ wait_for_key = recovery.epoch

\* What the decoder is fed is whole: no delta without its reference, no
\* ungated empty decoder, and no recovery that the pump has lost track of.
DecoderFedWhole ==
    PumpTypeOK /\ NoDanglingDelta /\ EmptyDecoderIsGated /\ RecoveryTracked

\* A bound of the model has been reached, or there is no decoder: nothing
\* more is promised.
Exhausted == pos + 1 >= MaxFrames \/ next_generation = MaxGen \/ ~decoder

\* Every recovery is eventually closed: NeedsIdr is re-sent for as long as
\* the recovery is open, so one lost key, one swallowed picture or one key
\* destroyed by a late reset does not leave the session waiting for ever.
RecoveryCloses == recovery # NoRecovery ~> (recovery = NoRecovery \/ Exhausted)

\* The handshake as the rest of the system sees it.
Handshake == INSTANCE RecoveryHandshake WITH
    gen   <- next_generation,
    phase <- IF recovery = NoRecovery THEN "closed"
             ELSE IF recovery_generation = recovery.gen THEN "flushed"
             ELSE "unflushed"

\* The composed system implements it: generations open one by one, and one is
\* only closed after the decoder has flushed for exactly that one.
ImplementsHandshake == Handshake!HSpec
=============================================================================
