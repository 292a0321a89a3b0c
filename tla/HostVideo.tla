----------------------------- MODULE HostVideo -----------------------------
(***************************************************************************)
(* The host's video path in the streamer: the decode callback that hands   *)
(* every encoded frame to the FEC sender and to the RTP track, the FEC     *)
(* sender task of the current setup and those of earlier setups that have  *)
(* not ended yet, the RTP sample sender, and the one needs_idr flag they   *)
(* all share.                                                              *)
(*                                                                         *)
(* A queued frame is kept as TRUE when it is a key frame that repairs      *)
(* every loss so far, and as FALSE otherwise: a loss turns every queued    *)
(* key frame older than it into an ordinary frame.  Time is a choice: any  *)
(* frame may be found expired when its age is checked.                     *)
(***************************************************************************)
EXTENDS Integers, Sequences, FiniteSets

CONSTANTS
    QueueCapacity,   \* QUEUE_CAPACITY of the FEC queue
    ChannelQueueSize,\* video_frame_queue_size of the RTP queue
    AckCapacity,     \* capacity of the control channel
    MaxChunks,       \* bound on the chunks of one frame
    MaxGenerations,  \* bound on setups
    Modes            \* the sets of things that may happen in one stream: "fec_only" (the
                     \* client takes no RTP), "resetup", "feedback" (PLI and NeedsIdr),
                     \* "errors" (of the channel), "encoder" (its errors), "late" (frames expire)

ASSUME SizeAssumption ==
    /\ {QueueCapacity, AckCapacity, MaxChunks, MaxGenerations} \subseteq Nat \ {0}
    /\ ChannelQueueSize \in Nat
    /\ Modes \subseteq SUBSET {"fec_only", "resetup", "feedback", "errors", "encoder", "late"}

Reasons == {"SinkClosed", "EncodeFailed", "ChannelClosed", "AckChannelClosed", "Superseded"}
NoExit == "none"

VARIABLES
    mode,        \* what may happen in this stream
    generation,  \* fec_generation, which is also the sender epoch
    handle,      \* the generation whose handle send_decode_unit uses
    task,        \* generation -> the state of its sender task and handle
    dropped,     \* the WebRtcVideo, and with it the current handle, is gone
    needsIdr,    \* the shared flag
    idrAsked,    \* an IDR was requested of the encoder and has not arrived
    unit,        \* send_decode_unit: [pc, key, carried]
    rtp,         \* queue of the RTP track, oldest first
    fecBroken,   \* history: the FEC picture chain lacks a frame
    rtpBroken,   \* history: the RTP picture chain lacks a frame
    reported,    \* history: generation -> terminal codes sent
    silentUnits, \* history: 1 once a frame started after the death of the current sender
    ghost        \* history: symbols sent by superseded tasks, per task

flags == <<needsIdr, idrAsked>>
history == <<fecBroken, rtpBroken, reported, silentUnits, ghost>>
hostVideoVars == <<mode, generation, handle, task, dropped, flags, unit, rtp, history>>

Generations == 1 .. MaxGenerations
cur == task[handle]

\* video_over_fec_only of StartStream.
fecOnly == "fec_only" \in mode

\* Between two frames.
Waiting == [pc |-> "idle", key |-> FALSE, carried |-> FALSE]

\* A spawned task: dormant until the client subscribes.
NoFrame == [key |-> FALSE, left |-> 0, whole |-> FALSE, late |-> FALSE, repairs |-> 0]
Spawned == [pc |-> "select", active |-> FALSE, live |-> TRUE, exit |-> NoExit, slot |-> NoExit,
            queue |-> <<>>, permit |-> FALSE, acks |-> <<>>, hand |-> NoFrame]

\* Before the first setup the video path is idle; the first frame of a
\* stream is a key frame.
HostVideoInit ==
    /\ mode \in Modes
    /\ generation = 1 /\ handle = 1 /\ task = <<Spawned>> /\ dropped = FALSE
    /\ needsIdr = FALSE /\ idrAsked = TRUE
    /\ unit = Waiting
    /\ rtp = <<>>
    /\ fecBroken = FALSE /\ rtpBroken = FALSE
    /\ reported = <<0>> /\ silentUnits = 0 /\ ghost = <<0>>

IsActive(t) == t.active /\ t.live
Becomes(g, t) == task' = [task EXCEPT ![g] = t]
Running(t) == t.pc \in {"select", "drain", "chunk", "source", "repair", "sendrepair"}

\* ------------------------------------------------------------------ setup

\* The client's view of the FEC stream after losing the frame in question:
\* no queued key frame repairs this loss.
Stale(q) == [i \in 1 .. Len(q) |-> FALSE]
LoseFrame(g) ==
    /\ fecBroken' = (fecBroken \/ g = handle)

StaleTask(t) == [t EXCEPT !.queue = Stale(@), !.hand = [@ EXCEPT !.key = FALSE]]

\* WebRtcVideo::setup, first half: bump the generation, which retires the
\* running task; it notices by itself.
SetupBump ==
    /\ "resetup" \in mode /\ ~dropped /\ unit.pc = "idle" /\ generation < MaxGenerations
    /\ generation' = generation + 1
    /\ unit' = [unit EXCEPT !.pc = "setup"]
    /\ UNCHANGED <<mode, handle, task, dropped, flags, rtp, history>>

\* Second half: spawn the new task and drop the handle of the old one.  The
\* host starts the new stream with a key frame.
SetupSpawn ==
    /\ unit.pc = "setup"
    /\ handle' = generation
    /\ task' = Append([task EXCEPT ![handle] = StaleTask(@)], Spawned)
    /\ reported' = Append(reported, 0) /\ ghost' = Append(ghost, 0)
    /\ idrAsked' = TRUE /\ fecBroken' = FALSE /\ silentUnits' = 0
    /\ unit' = Waiting
    /\ UNCHANGED <<mode, generation, dropped, needsIdr, rtp, rtpBroken>>

\* The stream ends and drops the WebRtcVideo with its handle.
DropStream ==
    /\ ~dropped /\ unit.pc = "idle"
    /\ dropped' = TRUE
    /\ UNCHANGED <<mode, generation, handle, task, flags, unit, rtp, history>>

HandleDropped(g) == dropped \/ g # handle

\* ----------------------------------------------------- send_decode_unit

\* The encoder delivers a frame, a key frame only on request.  An inactive
\* sender is asked for its terminal reason instead.
DecodeUnit ==
    /\ ~dropped /\ unit.pc = "idle"
    /\ \E key \in {FALSE, idrAsked} :
        /\ unit' = [pc |-> IF IsActive(cur) THEN "enqueue" ELSE "terminal",
                    key |-> key, carried |-> FALSE]
        /\ idrAsked' = (idrAsked /\ ~key)
    /\ silentUnits' = IF cur.live THEN 0 ELSE 1
    /\ UNCHANGED <<mode, generation, handle, task, dropped, needsIdr, rtp, fecBroken, rtpBroken, reported, ghost>>

ErrorCode(reason) == reason \notin {NoExit, "Superseded"}

\* take_terminal_exit and fec_terminal_error_code: the reason of a task that
\* is no longer live is claimed once, and reported when the client has only FEC.
TakeTerminal ==
    /\ unit.pc = "terminal"
    /\ IF cur.live
       THEN UNCHANGED <<task, reported>>
       ELSE /\ Becomes(handle, [cur EXCEPT !.slot = NoExit])
            /\ reported' = [reported EXCEPT ![handle] =
                              @ + IF fecOnly /\ ErrorCode(cur.slot) THEN 1 ELSE 0]
    /\ unit' = [unit EXCEPT !.pc = "rtp"]
    /\ UNCHANGED <<mode, generation, handle, dropped, flags, rtp, fecBroken, rtpBroken, silentUnits, ghost>>

\* enqueue refuses the frame before it takes the lock: inactive, waiting for
\* an IDR, or too large for the wire.
EnqueueRefuse ==
    /\ unit.pc = "enqueue"
    /\ \/ ~IsActive(cur) /\ UNCHANGED <<needsIdr, task, fecBroken>>
       \/ ~unit.key /\ needsIdr /\ Becomes(handle, StaleTask(cur))
          /\ LoseFrame(handle) /\ UNCHANGED needsIdr
       \/ (unit.key \/ ~needsIdr) /\ IsActive(cur) /\ needsIdr' = TRUE
          /\ Becomes(handle, StaleTask(cur)) /\ LoseFrame(handle)
    /\ unit' = [unit EXCEPT !.pc = "rtp"]
    /\ UNCHANGED <<mode, generation, handle, dropped, idrAsked, rtp, rtpBroken, reported, silentUnits, ghost>>

EnqueueAdmit ==
    /\ unit.pc = "enqueue" /\ IsActive(cur) /\ (unit.key \/ ~needsIdr)
    /\ unit' = [unit EXCEPT !.pc = "locked"]
    /\ UNCHANGED <<mode, generation, handle, task, dropped, flags, rtp, history>>

\* Under the queue lock: recheck, expire the oldest frames, let a key frame
\* replace the queue, refuse another frame at capacity.
EnqueueLocked ==
    /\ unit.pc = "locked"
    /\ IF ~IsActive(cur)
       THEN /\ unit' = [unit EXCEPT !.pc = "rtp"]
            /\ UNCHANGED <<task, needsIdr, fecBroken>>
       ELSE \E expired \in IF "late" \in mode THEN 0 .. Len(cur.queue) ELSE {0} :
            LET kept == SubSeq(cur.queue, expired + 1, Len(cur.queue))
                full == ~unit.key /\ Len(kept) >= QueueCapacity
                lost == expired > 0 \/ full
                base == IF lost THEN StaleTask([cur EXCEPT !.queue = kept])
                                ELSE [cur EXCEPT !.queue = kept]
            IN  /\ needsIdr' = (needsIdr \/ lost)
                /\ fecBroken' = (fecBroken \/ lost)
                /\ Becomes(handle, IF full THEN base
                     ELSE [base EXCEPT !.queue = IF unit.key THEN <<TRUE>> ELSE Append(@, FALSE)])
                /\ unit' = IF full THEN [unit EXCEPT !.pc = "rtp"]
                                   ELSE [unit EXCEPT !.pc = "notify", !.carried = TRUE]
    /\ UNCHANGED <<mode, generation, handle, dropped, idrAsked, rtp, rtpBroken, reported, silentUnits, ghost>>

EnqueueNotify ==
    /\ unit.pc = "notify"
    /\ Becomes(handle, [cur EXCEPT !.permit = Running(cur)])
    /\ unit' = [unit EXCEPT !.pc = "rtp"]
    /\ UNCHANGED <<mode, generation, handle, dropped, flags, rtp, history>>

SkipRtpTrack == fecOnly /\ unit.carried

\* enqueue_frame: a key frame replaces the queue and is always accepted, any
\* other frame respects the limit.
EnqueueFrame(queue, key) ==
    IF key THEN [accepted |-> TRUE, queue |-> <<~fecOnly>>]
    ELSE IF Len(queue) < ChannelQueueSize THEN [accepted |-> TRUE, queue |-> Append(queue, FALSE)]
    ELSE [accepted |-> FALSE, queue |-> queue]

\* What send_single_frame does with the answer of send_samples: a refused
\* frame empties the queue and raises needs_idr.
AfterSendSamples(sent) ==
    IF sent.accepted THEN rtp' = sent.queue /\ UNCHANGED <<needsIdr, rtpBroken>>
    ELSE rtp' = <<>> /\ rtpBroken' = ~fecOnly /\ needsIdr' = TRUE

\* The RTP half of send_decode_unit.
SendSingleFrame ==
    /\ unit.pc = "rtp"
    /\ IF SkipRtpTrack THEN UNCHANGED <<rtp, needsIdr, rtpBroken>>
       ELSE AfterSendSamples(EnqueueFrame(rtp, unit.key))
    /\ unit' = [Waiting EXCEPT !.pc = "idr"]
    /\ UNCHANGED <<mode, generation, handle, task, dropped, idrAsked, fecBroken, reported, silentUnits, ghost>>

\* compare_exchange_weak on needs_idr, which may fail for no reason; success
\* returns NeedIdr and the client library asks the encoder for a key frame.
ConsumeNeedsIdr ==
    /\ unit.pc = "idr"
    /\ \/ needsIdr /\ needsIdr' = FALSE /\ idrAsked' = TRUE
       \/ UNCHANGED flags
    /\ unit' = Waiting
    /\ UNCHANGED <<mode, generation, handle, task, dropped, rtp, history>>

\* --------------------------------------------- RTP track and RTCP reader

\* sample_sender writes the oldest frame; a key frame that follows every loss
\* repairs the chain.
SampleSender ==
    /\ rtp # <<>>
    /\ rtp' = Tail(rtp) /\ rtpBroken' = (rtpBroken /\ ~Head(rtp))
    /\ UNCHANGED <<mode, generation, handle, task, dropped, flags, unit, fecBroken, reported, silentUnits, ghost>>

PictureLossIndication ==
    /\ "feedback" \in mode
    /\ needsIdr' = TRUE
    /\ UNCHANGED <<mode, generation, handle, task, dropped, idrAsked, unit, rtp, history>>

\* ---------------------------------------------------- control messages

\* forward_control: only the current handle is reached, only for its own
\* epoch, and a full channel drops the message.
ForwardControl(cmd, epoch) ==
    /\ ~dropped /\ epoch = handle /\ Running(cur) /\ Len(cur.acks) < AckCapacity
    /\ Becomes(handle, [cur EXCEPT !.acks = Append(@, cmd)])
    /\ UNCHANGED <<mode, generation, handle, dropped, flags, unit, rtp, history>>

\* ----------------------------------------------------------- sender task

\* The task leaves its loop; nobody reads its channel, its permit or its
\* frame any more.
Exiting(t, reason) ==
    [t EXCEPT !.pc = "deactivate", !.exit = reason, !.acks = <<>>, !.permit = FALSE, !.hand = NoFrame]

\* The control branch of the select.
ReceiveControl(g) ==
    LET t == task[g] IN
    /\ t.pc = "select" /\ t.acks # <<>>
    /\ Becomes(g, [t EXCEPT !.acks = Tail(@), !.active = @ \/ Head(t.acks) = "subscribe"])
    /\ needsIdr' = (needsIdr \/ Head(t.acks) = "needs_idr")
    /\ UNCHANGED <<mode, generation, handle, dropped, idrAsked, unit, rtp, history>>

\* The control channel is closed and drained: a retired task leaves quietly.
ControlClosed(g) ==
    /\ task[g].pc = "select" /\ task[g].acks = <<>> /\ HandleDropped(g)
    /\ Becomes(g, Exiting(task[g], IF g # generation THEN "Superseded" ELSE "AckChannelClosed"))
    /\ UNCHANGED <<mode, generation, handle, dropped, flags, unit, rtp, history>>

\* The queue branch of the select consumes the permit and drains the queue.
Notified(g) ==
    /\ task[g].pc = "select" /\ task[g].permit
    /\ Becomes(g, [task[g] EXCEPT !.permit = FALSE, !.pc = "drain"])
    /\ UNCHANGED <<mode, generation, handle, dropped, flags, unit, rtp, history>>

\* The number of chunks matters only to a frame that expires between two.
Chunks == IF "late" \in mode THEN 1 .. MaxChunks ELSE {1}

\* Pop the oldest frame, to be sent in some number of chunks, or drop it as
\* expired or unfit for the wire; an empty queue ends the drain.
PopFrame(g) ==
    LET t == task[g] IN
    /\ t.pc = "drain"
    /\ IF t.queue = <<>>
       THEN Becomes(g, [t EXCEPT !.pc = "select"]) /\ UNCHANGED <<needsIdr, fecBroken>>
       ELSE \/ \E n \in Chunks :
               /\ Becomes(g, [t EXCEPT !.queue = Tail(@), !.pc = "chunk",
                             !.hand = [NoFrame EXCEPT !.key = Head(t.queue), !.left = n, !.whole = TRUE]])
               /\ UNCHANGED <<needsIdr, fecBroken>>
            \/ /\ "late" \in mode /\ Becomes(g, [t EXCEPT !.queue = Tail(@)])
               /\ needsIdr' = TRUE /\ LoseFrame(g)
    /\ UNCHANGED <<mode, generation, handle, dropped, idrAsked, unit, rtp, rtpBroken, reported, silentUnits, ghost>>

\* What becomes of the frame in hand: its next chunk is skipped or sent, its repairs are skipped or sent.
SkipChunk(hand) == [hand EXCEPT !.left = @ - 1, !.late = TRUE, !.whole = FALSE]
SentChunk(hand, repairs) == [hand EXCEPT !.left = @ - 1, !.repairs = repairs]
SkipRepairs(hand) == [hand EXCEPT !.repairs = 0, !.late = TRUE]
SentRepair(hand) == [hand EXCEPT !.repairs = @ - 1]

\* Mutant: an expired chunk is skipped without asking for a key frame.
NextChunkSilent(g) ==
    LET t == task[g] IN
    /\ t.pc = "chunk"
    /\ IF t.hand.left = 0
       THEN /\ Becomes(g, [t EXCEPT !.pc = "drain", !.hand = NoFrame])
            /\ fecBroken' = IF g = handle /\ t.hand.key /\ t.hand.whole THEN FALSE ELSE fecBroken
            /\ UNCHANGED needsIdr
       ELSE \/ /\ "late" \in mode
               /\ Becomes(g, [t EXCEPT !.hand = SkipChunk(@)])
               /\ LoseFrame(g) /\ UNCHANGED needsIdr
            \/ /\ ~t.hand.late
               /\ Becomes(g, IF g # generation THEN Exiting(t, "Superseded") ELSE [t EXCEPT !.pc = "source"])
               /\ UNCHANGED <<needsIdr, fecBroken>>
    /\ UNCHANGED <<mode, generation, handle, dropped, idrAsked, unit, rtp, rtpBroken, reported, silentUnits, ghost>>

\* The head of the chunk loop: an expired frame skips its remaining chunks, a
\* superseded task leaves; when all chunks are done the drain goes on.
NextChunk(g) ==
    LET t == task[g] IN
    /\ t.pc = "chunk"
    /\ IF t.hand.left = 0
       THEN /\ Becomes(g, [t EXCEPT !.pc = "drain", !.hand = NoFrame])
            /\ fecBroken' = IF g = handle /\ t.hand.key /\ t.hand.whole THEN FALSE ELSE fecBroken
            /\ UNCHANGED needsIdr
       ELSE \/ /\ "late" \in mode
               /\ Becomes(g, [t EXCEPT !.hand = SkipChunk(@)])
               /\ needsIdr' = TRUE /\ LoseFrame(g)
            \/ /\ ~t.hand.late
               /\ Becomes(g, IF g # generation THEN Exiting(t, "Superseded") ELSE [t EXCEPT !.pc = "source"])
               /\ UNCHANGED <<needsIdr, fecBroken>>
    /\ UNCHANGED <<mode, generation, handle, dropped, idrAsked, unit, rtp, rtpBroken, reported, silentUnits, ghost>>

GhostSend(g) == ghost' = IF g # generation THEN [ghost EXCEPT ![g] = @ + 1] ELSE ghost

\* How encoding and sending a symbol may fail.
Failures(closed) ==
    (IF "encoder" \in mode THEN {"EncodeFailed"} ELSE {}) \union (IF "errors" \in mode THEN {closed} ELSE {})

\* Encode and send the source symbol; it may come with a repair symbol.
SendSource(g) ==
    LET t == task[g] IN
    /\ t.pc = "source"
    /\ \/ \E repairs \in 0 .. 1 :
            /\ Becomes(g, [t EXCEPT !.pc = "repair", !.hand = SentChunk(@, repairs)])
            /\ GhostSend(g)
       \/ \E reason \in Failures("SinkClosed") : Becomes(g, Exiting(t, reason)) /\ UNCHANGED ghost
    /\ UNCHANGED <<mode, generation, handle, dropped, flags, unit, rtp, fecBroken, rtpBroken, reported, silentUnits>>

\* The head of the repair loop: expiry drops the rest of the repairs only.
NextRepair(g) ==
    LET t == task[g] IN
    /\ t.pc = "repair"
    /\ \/ t.hand.repairs = 0 /\ Becomes(g, [t EXCEPT !.pc = "chunk"]) /\ UNCHANGED needsIdr
       \/ /\ t.hand.repairs > 0 /\ "late" \in mode
          /\ Becomes(g, [t EXCEPT !.pc = "chunk", !.hand = SkipRepairs(@)])
          /\ needsIdr' = TRUE
       \/ /\ t.hand.repairs > 0
          /\ Becomes(g, IF g # generation THEN Exiting(t, "Superseded") ELSE [t EXCEPT !.pc = "sendrepair"])
          /\ UNCHANGED needsIdr
    /\ UNCHANGED <<mode, generation, handle, dropped, idrAsked, unit, rtp, history>>

SendRepair(g) ==
    LET t == task[g] IN
    /\ t.pc = "sendrepair"
    /\ \/ /\ Becomes(g, [t EXCEPT !.pc = "repair", !.hand = SentRepair(@)])
          /\ GhostSend(g)
       \/ \E reason \in Failures("ChannelClosed") : Becomes(g, Exiting(t, reason)) /\ UNCHANGED ghost
    /\ UNCHANGED <<mode, generation, handle, dropped, flags, unit, rtp, fecBroken, rtpBroken, reported, silentUnits>>

\* The end of run_fec_sender, one store at a time: active, needs_idr, the
\* exit slot, live, and last the queue.
EndOfTask(g) ==
    LET t == task[g] IN
    /\ \/ t.pc = "deactivate" /\ Becomes(g, [t EXCEPT !.active = FALSE, !.pc = "flag"])
          /\ UNCHANGED needsIdr
       \/ t.pc = "flag" /\ Becomes(g, [t EXCEPT !.pc = "slot"])
          /\ needsIdr' = (needsIdr \/ t.exit # "Superseded")
       \/ t.pc = "slot" /\ Becomes(g, [t EXCEPT !.slot = t.exit, !.pc = "die"])
          /\ UNCHANGED needsIdr
       \/ t.pc = "die" /\ Becomes(g, [t EXCEPT !.live = FALSE, !.pc = "clear"])
          /\ UNCHANGED needsIdr
       \/ t.pc = "clear" /\ unit.pc # "locked"
          /\ Becomes(g, [t EXCEPT !.pc = "gone", !.queue = <<>>])
          /\ UNCHANGED needsIdr
    /\ UNCHANGED <<mode, generation, handle, dropped, idrAsked, unit, rtp, history>>

DecodeThread ==
    \/ DecodeUnit \/ TakeTerminal \/ EnqueueRefuse \/ EnqueueAdmit \/ EnqueueLocked \/ EnqueueNotify
    \/ SendSingleFrame \/ ConsumeNeedsIdr
SenderTask(g) ==
    \/ ReceiveControl(g) \/ ControlClosed(g) \/ Notified(g) \/ PopFrame(g) \/ NextChunk(g)
    \/ SendSource(g) \/ NextRepair(g) \/ SendRepair(g) \/ EndOfTask(g)
Client == \E cmd \in {"subscribe"} \union (IF "feedback" \in mode THEN {"needs_idr"} ELSE {}), epoch \in 1 .. handle : ForwardControl(cmd, epoch)

HostVideoNext ==
    \/ SetupBump \/ SetupSpawn \/ DropStream \/ DecodeThread \/ SampleSender \/ PictureLossIndication \/ Client
    \/ \E g \in 1 .. handle : SenderTask(g)

HostVideoSpec == HostVideoInit /\ [][HostVideoNext]_hostVideoVars

\* ------------------------------------------------------------- properties

HostVideoTypeOK ==
    /\ generation \in Generations /\ Len(task) = handle /\ handle \in {generation - 1, generation}
    /\ unit.pc \in {"idle", "enqueue", "terminal", "locked", "notify", "rtp", "idr", "setup"}
    /\ \A g \in 1 .. handle :
        /\ Len(task[g].queue) <= QueueCapacity /\ Len(task[g].acks) <= AckCapacity
        /\ task[g].exit \in Reasons \union {NoExit} /\ task[g].slot \in {NoExit, task[g].exit}
        /\ task[g].hand.left \in 0 .. MaxChunks
    /\ Len(rtp) <= ChannelQueueSize \/ Len(rtp) = 1

Repairing == needsIdr \/ idrAsked \/ unit.key

\* A client that has lost a frame on the FEC path gets a key frame: as long
\* as the sender is subscribed and running, one is requested, on its way from
\* the encoder, or queued behind every lost frame, whoever consumed the
\* shared flag in the meantime.
FecChainHeals ==
    (fecBroken /\ cur.active /\ ~dropped) =>
        \/ Repairing \/ cur.pc \in {"deactivate", "flag"}
        \/ (cur.hand.key /\ cur.hand.whole)
        \/ \E i \in 1 .. Len(cur.queue) : cur.queue[i]

\* The same for the RTP track, which shares the flag with the FEC path.
RtpChainHeals ==
    (rtpBroken /\ ~dropped /\ ~fecOnly) => Repairing \/ \E i \in 1 .. Len(rtp) : rtp[i]

\* The death of the sender of a client that has only FEC is reported exactly
\* once, with the first frame that starts after it, and a superseded task
\* never reports anything.
TerminalExactlyOnce ==
    \A g \in 1 .. handle :
        /\ reported[g] <= 1
        /\ reported[g] = 1 => fecOnly /\ task[g].exit \notin {NoExit, "Superseded"}
        /\ (fecOnly /\ g = handle /\ unit.pc = "idle" /\ ErrorCode(task[g].exit) /\ silentUnits > 0)
             => reported[g] = 1

\* An accepted frame is not left behind: a task that waits has a permit for
\* a queue that is not empty, and a task that is gone leaves no frame.
NoStrandedFrame ==
    \A g \in 1 .. handle :
        /\ task[g].pc = "select" /\ task[g].queue # <<>> =>
             task[g].permit \/ (g = handle /\ unit.pc = "notify")
        /\ task[g].pc = "gone" => task[g].queue = <<>>

\* A task superseded by a new setup sends at most the one symbol it had
\* already decided to send.
GhostIsolation == \A g \in 1 .. handle : ghost[g] <= 1

\* A task retired by a new setup that meets no error of its own ends as
\* superseded, so that its closed control channel raises no IDR request.
RetiredQuietly == \A g \in 1 .. handle - 1 : task[g].exit # "AckChannelClosed"

\* Whichever path broke, a key frame is on its way to the client
\* (FecFrameSender, RTP track, the shared needs_idr flag).
ChainHeals == FecChainHeals /\ RtpChainHeals

\* Every frame and every sender task has one end: frames are sent or dropped
\* with their task, a task's death is reported once, and a superseded task
\* goes quietly (fec_sender.rs run, take_terminal, retire).
TasksEndOnce ==
    HostVideoTypeOK /\ TerminalExactlyOnce /\ NoStrandedFrame /\ GhostIsolation /\ RetiredQuietly

\* Broken pictures are repaired and frames and tasks end, across errors, expiry
\* and repeated setups (fec_sender.rs, transport/webrtc/video.rs).
HostVideoSound == ChainHeals /\ TasksEndOnce

=============================================================================
