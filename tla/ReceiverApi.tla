----------------------------- MODULE ReceiverApi -----------------------------
(***************************************************************************)
(* The C interface of the client transport (client-transport/src/capi.rs): *)
(* the receiver and session handles a shell owns, what it may poll beside  *)
(* a session, the decoder's pull loop with the recovery handshake, and the *)
(* cleanup of the session's thread.  A message is reduced to the one event *)
(* it produces (module RxCore has the batches and their interleaving), a   *)
(* latched value to its serial number.  A NULL handle or output pointer    *)
(* returns before anything is taken, so such calls change nothing and have *)
(* no action; neither has a ct_start that is refused.                      *)
(***************************************************************************)
EXTENDS Naturals, Sequences

CONSTANTS ApiCap, ApiEpochs, ApiMaxGen, MaxLatched

ASSUME ApiAssumption ==
    /\ ApiCap \in Nat \ {0}
    /\ ApiEpochs \subseteq Nat
    /\ ApiMaxGen \in Nat /\ MaxLatched \in Nat

VARIABLES
    q, shut, ov, gens, rec,  \* the frame queue; `shut` is also LeaseState::closed
    rcv,       \* the CtReceiver*: "live" or "freed"
    lease,     \* "never" taken, "active", or "over" (one-shot)
    ses,       \* the CtSession*: "none", "live" or "freed"
    thr,       \* the session's thread
    state,     \* the SessionState the shell reads
    pend,      \* the serial number waiting in each latch, 0 for None
    made,      \* latched values so far
    base,      \* `made` when begin_fec_negotiation cleared the latches
    cTook, sTook,  \* the newest serial the C caller and the session took
    incident,  \* WatchdogStatus::incident is Some
    reconnect, \* WatchdogStatus::reconnect
    hand,      \* the CtFrame* or CtVideoEvent* the decoder thread owns
    kept,      \* the (generation, epoch) it retained from the last reset
    flushed,   \* history: the newest generation it was shown
    ended      \* history: the newest generation an acknowledgement closed

FQ == INSTANCE FrameQueue WITH Cap <- ApiCap, Epochs <- ApiEpochs, MaxGen <- ApiMaxGen,
         events <- q, closed <- shut, overflowed <- ov, next_generation <- gens, recovery <- rec

apiQueue == <<q, shut, ov, gens, rec>>
apiLife  == <<rcv, lease, ses, thr, state>>
apiLatch == <<pend, made, base, cTook, sTook>>
apiDog   == <<incident, reconnect>>
apiPull  == <<hand, kept, flushed, ended>>
apiVars  == <<apiQueue, apiLife, apiLatch, apiDog, apiPull>>

Latches == {"ack", "idr", "disc", "decode", "present"}
Stages  == {"decode", "present"}
NoHandle == [kind |-> "none"]

ApiInit ==
    /\ FQ!QueueInit
    /\ rcv = "live" /\ lease = "never" /\ ses = "none" /\ thr = "none"
    /\ state = "Connecting"
    /\ pend = [l \in Latches |-> 0] /\ made = 0 /\ base = 0
    /\ cTook = [l \in Latches |-> 0] /\ sTook = [l \in Latches |-> 0]
    /\ incident = FALSE /\ reconnect = FALSE
    /\ hand = NoHandle /\ kept = FQ!NoRecovery /\ flushed = 0 /\ ended = 0

-----------------------------------------------------------------------------
(* What a message or a tick leaves behind, whoever fed it in.              *)

Latch(ls) ==
    /\ made < MaxLatched
    /\ made' = made + 1
    /\ pend' = [l \in Latches |-> IF l \in ls THEN made + 1 ELSE pend[l]]
    /\ UNCHANGED <<base, cTook, sTook>>

Take(l) == pend' = [pend EXCEPT ![l] = 0]

FrameArrives(key, e) ==
    /\ FQ!PushFrame(FQ!FrameEvent(0, key, e, 0, "session"))
    /\ UNCHANGED apiLatch

\* The reset enters the queue, the single-slot latch and the needs-IDR flag.
DiscontinuityArrives(e) ==
    /\ FQ!PushDiscontinuity(FQ!DiscEvent(0, e, 0, "session"))
    /\ Latch({"disc", "idr"})

AckArrives == Latch({"ack"}) /\ UNCHANGED apiQueue

Ingest ==
    /\ \/ \E e \in ApiEpochs, key \in BOOLEAN : FrameArrives(key, e)
       \/ \E e \in ApiEpochs : DiscontinuityArrives(e)
       \/ AckArrives
    /\ UNCHANGED <<apiLife, apiDog, apiPull>>

\* ct_receiver_on_message and ct_receiver_tick: refused beside a session.
OnStandalone == rcv = "live" /\ lease # "active" /\ Ingest

\* The session's own channel callback and its 50 ms tick.
OnSession == thr = "streaming" /\ Ingest

-----------------------------------------------------------------------------
(* The life of the handles.                                                *)

\* ct_receiver_close; ct_receiver_new is the initial state.
ReceiverClose ==
    /\ rcv = "live" /\ ~shut
    /\ FQ!CloseQueue
    /\ UNCHANGED <<apiLife, apiLatch, apiDog, apiPull>>

\* ct_receiver_free: the caller has stopped its session; the session's thread
\* holds the core itself until it has ended.
ReceiverFree ==
    /\ rcv = "live" /\ ses # "live" /\ hand = NoHandle
    /\ rcv' = "freed"
    /\ UNCHANGED <<apiQueue, lease, ses, thr, state, apiLatch, apiDog, apiPull>>

\* ct_start with a complete configuration: Session::try_start takes the lease ...
CtStart ==
    /\ rcv = "live" /\ ses = "none" /\ ~shut /\ lease = "never"
    /\ ses' = "live" /\ thr' = "leased" /\ lease' = "active"
    /\ UNCHANGED <<apiQueue, rcv, state, apiLatch, apiDog, apiPull>>

\* ... begin_fec_negotiation drops all that was latched or queued before, and
\* the thread is spawned, or cannot be and the receiver is closed at once.
BeginSession ==
    /\ thr = "leased"
    /\ q' = << >> /\ ov' = FALSE /\ rec' = FQ!NoRecovery
    /\ pend' = [l \in Latches |-> 0] /\ base' = made
    /\ \/ thr' = "connecting" /\ UNCHANGED <<shut, lease, state>>
       \/ thr' = "ended" /\ shut' = TRUE /\ lease' = "over" /\ state' = "Failed"
    /\ UNCHANGED <<gens, rcv, ses, made, cTook, sTook, apiDog, apiPull>>

\* The channel opens.
Streams ==
    /\ thr = "connecting"
    /\ thr' = "streaming" /\ state' = "Streaming"
    /\ UNCHANGED <<apiQueue, rcv, lease, ses, apiLatch, apiDog, apiPull>>

\* The thread leaves run_session and unwinds: SessionCleanup closes the
\* receiver, then gives the lease back, then shows the terminal state.
ThreadLeaves(how) ==
    /\ thr \in {"connecting", "streaming"}
    /\ thr' = how
    /\ UNCHANGED <<apiQueue, rcv, lease, ses, state, apiLatch, apiDog, apiPull>>

CleanupClose ==
    /\ thr \in {"Failed", "Stopped"} /\ ~shut
    /\ shut' = TRUE
    /\ UNCHANGED <<q, ov, gens, rec, apiLife, apiLatch, apiDog, apiPull>>

CleanupRelease ==
    /\ thr \in {"Failed", "Stopped"} /\ shut /\ lease = "active"
    /\ lease' = "over"
    /\ UNCHANGED <<apiQueue, rcv, ses, thr, state, apiLatch, apiDog, apiPull>>

CleanupExpose ==
    /\ thr \in {"Failed", "Stopped"} /\ shut /\ lease = "over"
    /\ state' = thr /\ thr' = "ended"
    /\ UNCHANGED <<apiQueue, rcv, lease, ses, apiLatch, apiDog, apiPull>>

\* ct_stop: the thread is asked to stop and joined before the handle is freed.
CtStop ==
    /\ ses = "live" /\ thr = "ended"
    /\ ses' = "freed"
    /\ UNCHANGED <<apiQueue, rcv, lease, thr, state, apiLatch, apiDog, apiPull>>

-----------------------------------------------------------------------------
(* Polling.                                                                *)

\* Mutant: the poll takes the latch whether or not a session runs.
PollUnleased(l) ==
    /\ rcv = "live"
    /\ pend[l] # 0 \/ (l = "idr" /\ ov)
    /\ Take(l)
    /\ cTook' = [cTook EXCEPT ![l] = pend[l]]
    /\ ov' = (ov /\ l # "idr")
    /\ UNCHANGED <<q, shut, gens, rec, apiLife, made, base, sTook, apiDog, apiPull>>

\* ct_receiver_poll_ack, _poll_needs_idr and _poll_discontinuity.
PollStandalone(l) ==
    /\ rcv = "live" /\ lease # "active"
    /\ pend[l] # 0 \/ (l = "idr" /\ ov)
    /\ Take(l)
    /\ cTook' = [cTook EXCEPT ![l] = IF pend[l] # 0 THEN pend[l] ELSE @]
    /\ ov' = (ov /\ l # "idr")
    /\ UNCHANGED <<q, shut, gens, rec, apiLife, made, base, sTook, apiDog, apiPull>>

\* The session loop's own polls, sent to the host at once.
PollSession(l) ==
    /\ thr = "streaming"
    /\ pend[l] # 0 \/ (l = "idr" /\ ov)
    /\ Take(l)
    /\ sTook' = [sTook EXCEPT ![l] = IF pend[l] # 0 THEN pend[l] ELSE @]
    /\ ov' = (ov /\ l # "idr")
    /\ UNCHANGED <<q, shut, gens, rec, apiLife, made, base, cTook, apiDog, apiPull>>

\* A watchdog stage acts: record_action latches the attempt and publishes the
\* snapshot of build_incident_snapshot.
StageActs(l) ==
    /\ thr = "streaming"
    /\ Latch({l})
    /\ incident' = TRUE
    /\ UNCHANGED <<apiQueue, apiLife, reconnect, apiPull>>

\* The last rung: the request is up before the thread has unwound.
LadderExhausted ==
    /\ thr = "streaming"
    /\ reconnect' = TRUE /\ thr' = "Failed"
    /\ UNCHANGED <<apiQueue, rcv, lease, ses, state, apiLatch, incident, apiPull>>

\* ct_session_poll_watchdog_action: a decode stall goes before a present stall.
PollWatchdogAction ==
    /\ ses = "live"
    /\ \E l \in Stages :
          /\ pend[l] # 0
          /\ l = "present" => pend["decode"] = 0
          /\ Take(l)
          /\ cTook' = [cTook EXCEPT ![l] = pend[l]]
    /\ UNCHANGED <<apiQueue, apiLife, made, base, sTook, apiDog, apiPull>>

\* ct_session_state, ct_session_reconnect_requested and ct_session_poll_incident
\* consume nothing and may be read at any moment.
Readback ==
    [over |-> state \in {"Failed", "Stopped"}, reconnect |-> reconnect, incident |-> incident]

-----------------------------------------------------------------------------
(* The decoder thread's pull loop.                                         *)

\* ct_receiver_wait_event and ct_receiver_try_event.
PullEvent ==
    /\ rcv = "live" /\ hand = NoHandle
    /\ FQ!PopEvent
    /\ hand' = Head(q)
    /\ UNCHANGED <<apiLife, apiLatch, apiDog, kept, flushed, ended>>

\* ct_receiver_wait_frame: resets in front are consumed and not shown; the
\* deadline may pass after one of them.
PullFrame ==
    /\ rcv = "live" /\ hand = NoHandle
    /\ \E k \in 1..Len(q) :
          /\ \A i \in 1..(k - 1) : q[i].kind = "disc"
          /\ q' = SubSeq(q, k + 1, Len(q))
          /\ hand' = IF q[k].kind = "frame" THEN q[k] ELSE NoHandle
    /\ UNCHANGED <<shut, ov, gens, rec, apiLife, apiLatch, apiDog, kept, flushed, ended>>

\* ct_event_kind and ct_event_discontinuity: the pair to retain.
RetainReset ==
    /\ hand.kind = "disc"
    /\ kept' = [gen |-> hand.gen, epoch |-> hand.epoch]
    /\ flushed' = hand.gen
    /\ hand' = NoHandle
    /\ UNCHANGED <<apiQueue, apiLife, apiLatch, apiDog, ended>>

\* ct_event_view / ct_frame_view of a key that decodes, the acknowledgement of
\* the retained pair, and ct_event_free / ct_frame_free.
DecodeKey ==
    /\ rcv = "live" /\ hand.kind = "frame" /\ hand.key
    /\ FQ!AcknowledgeRecovery(kept.gen, kept.epoch)
    /\ ended' = IF rec' # rec THEN rec.gen ELSE ended
    /\ hand' = NoHandle
    /\ UNCHANGED <<apiLife, apiLatch, apiDog, kept, flushed>>

DropHandle ==
    /\ hand.kind = "frame"
    /\ hand' = NoHandle
    /\ UNCHANGED <<apiQueue, apiLife, apiLatch, apiDog, kept, flushed, ended>>

-----------------------------------------------------------------------------
ApiNext ==
    \/ OnStandalone \/ OnSession
    \/ ReceiverClose \/ ReceiverFree \/ CtStart \/ BeginSession \/ Streams
    \/ \E how \in {"Failed", "Stopped"} : ThreadLeaves(how)
    \/ CleanupClose \/ CleanupRelease \/ CleanupExpose \/ CtStop
    \/ \E l \in {"ack", "idr", "disc"} : PollStandalone(l)
    \/ \E l \in {"ack", "idr"} : PollSession(l)
    \/ \E l \in Stages : StageActs(l)
    \/ LadderExhausted \/ PollWatchdogAction
    \/ PullEvent \/ PullFrame \/ RetainReset \/ DecodeKey \/ DropHandle

ApiSpec == ApiInit /\ [][ApiNext]_apiVars

-----------------------------------------------------------------------------
(* Properties.                                                             *)

\* A latched value is handed out at most once, to the session or to the C
\* caller, and the session sends only what was latched since it began: neither
\* a value of the standalone ingress before it nor one the caller has taken.
LatchesHandedOnce ==
    /\ \A l \in Latches : pend[l] = 0 \/ (pend[l] > cTook[l] /\ pend[l] > sTook[l])
    /\ \A l \in Latches : sTook[l] = 0 \/ (sTook[l] > base /\ sTook[l] # cTook[l])
    /\ lease = "active" /\ thr # "leased" => \A l \in {"ack", "idr", "disc"} : cTook[l] <= base

\* A terminal state is shown only behind a closed receiver whose lease is back,
\* so a shell that sees it never leaves a decoder thread asleep; a reconnect is
\* asked for only by a session that is over or on its way out.
TerminalStateLast ==
    /\ Readback.over => thr = "ended" /\ shut /\ lease = "over"
    /\ Readback.reconnect => thr \in {"Failed", "ended"}

\* An acknowledgement closes only a recovery whose reset the decoder was shown,
\* whatever mixture of ct_receiver_wait_frame and ct_receiver_wait_event popped
\* the queue, and the recovery that is open is never an older one.
AckOnlyWhatWasShown ==
    /\ ended <= flushed
    /\ rec # FQ!NoRecovery => rec.gen = gens /\ ended < rec.gen

\* The interface keeps its promises to the shell, the decoder and the session.
ApiSound == LatchesHandedOnce /\ TerminalStateLast /\ AckOnlyWhatWasShown

=============================================================================
