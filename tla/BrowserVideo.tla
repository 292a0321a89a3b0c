---------------------------- MODULE BrowserVideo ----------------------------
(***************************************************************************)
(* The browser's FEC video path behind the FEC decoder: FecDecodePipe      *)
(* reassembles chunks, orders frames and gates deltas after a              *)
(* discontinuity; VideoDecoderPipe feeds the WebCodecs decoder; after each *)
(* message Stream polls for a key frame and sends NEEDS_IDR.  The host and *)
(* its channel are what the code expects of them: the first frame of a     *)
(* subscription is a key, and so is the first one after a request.  The    *)
(* FEC decoder hands over a chunk, reports it lost, or loses it unnoticed. *)
(* A fragment is one byte; frame numbers are not near their wrap.          *)
(***************************************************************************)
EXTENDS Integers, Sequences, FiniteSets, SequencesExt

CONSTANTS
    MaxFrames,      \* bound on the frames of the stream
    WideFrames,     \* the frames of two chunks; the others have one
    MaxPending,     \* MAX_PENDING_FRAMES
    MaxCompleted,   \* MAX_COMPLETED_FRAMES
    MaxFragments,   \* MAX_REASSEMBLY_REORDER_BYTES, in fragments
    MaxConfigs,     \* bound on the negotiated epochs
    MaxMishaps,     \* bound on lost, garbled and mismatched chunks
    Backlog         \* decodeQueueSize at which the decoder is given up

ASSUME BrowserVideoAssumption ==
    /\ {MaxFrames, MaxPending, MaxCompleted, MaxFragments, MaxConfigs, Backlog} \subseteq Nat \ {0}
    /\ MaxMishaps \in Nat /\ WideFrames \subseteq 1 .. MaxFrames

VARIABLES
    px,       \* FecDecodePipe; px.crc is history: a frame failed its CRC
    vd,       \* VideoDecoderPipe
    host,     \* external: the last frame sent, the keys, a request at hand
    air,      \* external: chunks between the host and the FEC decoder
    mishaps,  \* faults so far
    seen      \* history: a chunk lost unnoticed, a broken chain of deltas

bvVars == <<px, vd, host, air, mishaps, seen>>

Frames == 1 .. MaxFrames
NoFrame == 0
Parts(f) == IF f \in WideFrames THEN {1, 2} ELSE {1}
Empty == [got |-> {}, bad |-> FALSE]

PendingOf(p) == {f \in Frames : p.pending[f].got # {}}
DoneOf(p) == {p.done[i].id : i \in 1 .. Len(p.done)}

BvInit ==
    /\ \E v \in {1, 2} :
        px = [version |-> v, epoch |-> 1, pending |-> [f \in Frames |-> Empty], done |-> <<>>,
              bytes |-> 0, next |-> NoFrame, needsIdr |-> FALSE, awaitingIdr |-> v = 2, out |-> <<>>,
              crc |-> FALSE]
    /\ vd = [ready |-> FALSE, held |-> <<>>, needsKey |-> TRUE, asked |-> FALSE, translates |-> FALSE,
             queue |-> 0, errored |-> FALSE, prev |-> NoFrame]
    /\ host = [sent |-> 0, keys |-> {}, idr |-> TRUE]
    /\ air = {} /\ mishaps = 0
    /\ seen = [silent |-> FALSE, broken |-> FALSE]

\* ----- FecDecodePipe

\* discontinue.
BvDiscontinue(p) ==
    [p EXCEPT !.pending = [f \in Frames |-> Empty], !.done = <<>>, !.bytes = 0,
              !.next = NoFrame, !.needsIdr = TRUE, !.awaitingIdr = TRUE]

\* The end of deliverChunk: a gated delta is dropped and gives the anchor
\* back; any other frame goes to the reorder stage, a key opens the gate.
FrameComplete(p, f, keys) ==
    LET taken == [p EXCEPT !.pending[f] = Empty]
    IN  IF p.awaitingIdr /\ f \notin keys
        THEN [taken EXCEPT !.bytes = @ - Cardinality(Parts(f)),
                           !.next = IF @ = f THEN NoFrame ELSE @]
        ELSE [taken EXCEPT !.awaitingIdr = @ /\ f \notin keys,
                           !.done = Append(@, [id |-> f, bad |-> p.pending[f].bad, old |-> FALSE])]

\* Only a key may claim the ordering anchor while one is awaited.
Claim(p, f, keys) ==
    IF p.next = NoFrame /\ (~p.awaitingIdr \/ f \in keys) THEN f ELSE p.next

\* deliverChunk: refuse what is done or behind the anchor, discontinue at a
\* cap or on metadata that disagree, store the fragment, complete the frame.
BvDeliverChunk(p, f, n, fault, keys) ==
    LET new == p.pending[f].got = {}
        full == Cardinality(PendingOf(p)) + Len(p.done) >= MaxPending
        over == p.bytes + 1 > MaxFragments
        stored == [p EXCEPT !.pending[f] = [got |-> @.got \union {n}, bad |-> @.bad \/ fault = "garbled"],
                            !.bytes = @ + 1,
                            !.next = IF new THEN Claim(p, f, keys) ELSE @]
    IN  IF f \in DoneOf(p) \/ (p.next # NoFrame /\ f < p.next) THEN p
        ELSE IF (new /\ full) \/ over \/ (~new /\ fault = "mismatch") THEN BvDiscontinue(p)
        ELSE IF stored.pending[f].got = Parts(f) THEN FrameComplete(stored, f, keys)
        ELSE stored

\* One turn of flushReorder's loop: the expected frame is emitted, or the
\* wait for it goes on or is given up.  A v2 frame that fails its CRC ends in
\* a discontinuity, and the anchor is still set behind it.
FlushOne(p) ==
    LET want == IF p.next = NoFrame THEN p.done[1].id ELSE p.next
        c == p.done[CHOOSE i \in 1 .. Len(p.done) : p.done[i].id = want]
        taken == [p EXCEPT !.done = SelectSeq(@, LAMBDA x : x.id # want),
                           !.bytes = @ - Cardinality(Parts(want)), !.next = want + 1]
    IN  IF p.done = <<>> THEN p
        ELSE IF want \notin DoneOf(p)
             THEN IF Len(p.done) <= MaxCompleted /\ ~p.done[1].old THEN p ELSE BvDiscontinue(p)
        ELSE IF p.version = 2 /\ c.bad THEN [BvDiscontinue(taken) EXCEPT !.next = want + 1, !.crc = TRUE]
        ELSE [taken EXCEPT !.out = Append(@, want)]

\* flushReorder.
BvFlush(p) ==
    LET f[i \in 0 .. MaxPending + 1] == IF i = 0 THEN p ELSE FlushOne(f[i - 1])
    IN  f[MaxPending + 1]

\* ----- VideoDecoderPipe

\* Whether a unit ends the wait for a key: any does, but of a translator only one that carries its
\* parameter sets, by which the decoder is reset and configured anew.
Renews(d, f, keys) == ~d.translates \/ f \in keys
Queued(d, f, keys) == IF d.translates /\ f \in keys THEN 1 ELSE IF d.queue <= Backlog THEN d.queue + 1 ELSE d.queue

\* Mutant: a reset decoder takes deltas.
DecodeAny(d, f, keys) ==
    IF d.errored THEN d
    ELSE [d EXCEPT !.needsKey = FALSE, !.asked = @ /\ ~Renews(d, f, keys), !.prev = f, !.queue = Queued(d, f, keys)]

\* submitDecodeUnit once the decoder is set up.  Nothing is decoded before the first key: the flag
\* needsKeyFrame, or a translator without a description.
DecodeUnit(d, f, keys) ==
    IF d.errored \/ (d.needsKey /\ f \notin keys) THEN d
    ELSE [d EXCEPT !.needsKey = FALSE, !.asked = @ /\ ~Renews(d, f, keys), !.prev = f, !.queue = Queued(d, f, keys)]

\* submitDecodeUnit: units wait for the setup, and go first when it is done.
SubmitUnits(d, fs, keys) ==
    IF fs = <<>> \/ d.errored THEN d
    ELSE IF ~d.ready THEN [d EXCEPT !.held = @ \o fs]
    ELSE FoldLeft(LAMBDA e, f : DecodeUnit(e, f, keys), [d EXCEPT !.held = <<>>], d.held \o fs)

\* history: whether a delta reaches the decoder without its predecessor.
Breaks(d, fs, keys) ==
    LET all == (IF d.ready THEN d.held ELSE <<>>) \o fs
        st == [i \in 0 .. Len(all) |->
                 FoldLeft(LAMBDA e, f : DecodeUnit(e, f, keys), [d EXCEPT !.held = <<>>], SubSeq(all, 1, i))]
    IN  d.ready /\ fs # <<>> /\ \E i \in 1 .. Len(all) :
            st[i].prev = all[i] /\ st[i] # st[i - 1] /\ all[i] \notin keys /\ st[i - 1].prev # all[i] - 1

Overloaded(d) == d.queue > Backlog

\* pollRequestIdr of the decoder: a backlog flushes it, unless it decodes what a translator makes,
\* and asks once.
DecoderPoll(d) ==
    IF Overloaded(d) /\ ~d.asked
    THEN IF d.translates THEN [d EXCEPT !.asked = TRUE]
         ELSE [d EXCEPT !.queue = 0, !.needsKey = TRUE, !.asked = TRUE, !.prev = NoFrame]
    ELSE d

\* ----- the loop

\* FecDecodePipe.pollRequestIdr: the pipe's own flag is taken, the decoder is
\* asked only if it was not set.
Asks(p, d) == p.needsIdr \/ (Overloaded(d) /\ ~d.asked)

\* One message of the video_fec channel: the chunks go to the pipe, what the
\* pipe emits goes to the decoder, and a request goes to the host.
AfterMessage(p) ==
    LET q == BvFlush(p)
        d == SubmitUnits(vd, q.out, host.keys)
    IN  /\ px' = [q EXCEPT !.out = <<>>, !.needsIdr = FALSE]
        /\ vd' = IF q.needsIdr THEN d ELSE DecoderPoll(d)
        /\ host' = [host EXCEPT !.idr = @ \/ Asks(q, d)]
        /\ seen' = [seen EXCEPT !.broken = @ \/ Breaks(vd, q.out, host.keys)]

\* submitPacket with a chunk of another epoch returns before the decoder, but
\* the poll follows every message.
OnChunk(c, fault) ==
    /\ c \in air /\ air' = air \ {c}
    /\ fault # "none" => mishaps < MaxMishaps
    /\ mishaps' = IF fault = "none" THEN mishaps ELSE mishaps + 1
    /\ IF c.epoch = px.epoch
       THEN AfterMessage(BvDeliverChunk(px, c.id, c.part, fault, host.keys))
       ELSE AfterMessage(px)

\* A lossSpan or an eviction reported by the FEC decoder.
OnLoss(c) ==
    /\ c \in air /\ c.epoch = px.epoch /\ mishaps < MaxMishaps
    /\ air' = air \ {c} /\ mishaps' = mishaps + 1
    /\ AfterMessage(BvDiscontinue(px))

\* external: a chunk is gone and the FEC decoder never says so.
LoseUnnoticed(c) ==
    /\ c \in air /\ mishaps < MaxMishaps
    /\ air' = air \ {c} /\ mishaps' = mishaps + 1
    /\ seen' = [seen EXCEPT !.silent = TRUE]
    /\ UNCHANGED <<px, vd, host>>

\* tickTimer: flush with the clock, nothing is polled.
TickTimer ==
    LET q == BvFlush(px)
    IN  /\ px.done # <<>> /\ px.done[1].old
        /\ px' = [q EXCEPT !.out = <<>>] /\ vd' = SubmitUnits(vd, q.out, host.keys)
        /\ seen' = [seen EXCEPT !.broken = @ \/ Breaks(vd, q.out, host.keys)]
        /\ UNCHANGED <<host, air, mishaps>>

\* REORDER_MAX_WAIT_MS passes for the frames that wait.
WaitElapses ==
    /\ \E i \in 1 .. Len(px.done) : ~px.done[i].old
    /\ px' = [px EXCEPT !.done = [i \in DOMAIN @ |-> [@[i] EXCEPT !.old = TRUE]]]
    /\ UNCHANGED <<vd, host, air, mishaps, seen>>

\* external: the host's encoder.
HostFrame ==
    /\ host.sent < MaxFrames
    /\ LET f == host.sent + 1
       IN  /\ host' = [sent |-> f, keys |-> host.keys \union (IF host.idr THEN {f} ELSE {}), idr |-> FALSE]
           /\ air' = air \union {[id |-> f, part |-> n, epoch |-> px.epoch] : n \in Parts(f)}
    /\ UNCHANGED <<px, vd, mishaps, seen>>

\* configure with another epoch, and the subscription that follows.
Configure ==
    /\ px.version = 2 /\ px.epoch < MaxConfigs
    /\ px' = [BvDiscontinue(px) EXCEPT !.epoch = @ + 1]
    /\ host' = [host EXCEPT !.idr = TRUE]
    /\ UNCHANGED <<vd, air, mishaps, seen>>

\* setup ends: the decoder is configured, or a translator is to configure it out of band.
SetupDone ==
    /\ ~vd.ready /\ \E b \in BOOLEAN : vd' = [vd EXCEPT !.ready = TRUE, !.needsKey = TRUE, !.translates = b]
    /\ UNCHANGED <<px, host, air, mishaps, seen>>

\* external: WebCodecs outputs a frame, or fails for good.
DecoderOutput ==
    /\ vd.queue > 0 /\ vd' = [vd EXCEPT !.queue = @ - 1]
    /\ UNCHANGED <<px, host, air, mishaps, seen>>

OnError ==
    /\ ~vd.errored /\ mishaps < MaxMishaps
    /\ vd' = [vd EXCEPT !.errored = TRUE] /\ mishaps' = mishaps + 1
    /\ UNCHANGED <<px, host, air, seen>>

BvNext ==
    \/ \E c \in air : \E fault \in {"none", "garbled", "mismatch"} : OnChunk(c, fault)
    \/ \E c \in air : OnLoss(c)
    \/ \E c \in air : LoseUnnoticed(c)
    \/ TickTimer \/ WaitElapses
    \/ HostFrame \/ Configure
    \/ SetupDone \/ DecoderOutput \/ OnError

BvSpec == BvInit /\ [][BvNext]_bvVars

-----------------------------------------------------------------------------

\* The pipe, the decoder and the channel hold frames of the stream.
BvTypeOK ==
    /\ PendingOf(px) \subseteq Frames /\ px.next \in 0 .. MaxFrames + 1 /\ px.epoch \in 1 .. MaxConfigs
    /\ vd.held \in Seq(Frames) /\ vd.queue \in 0 .. Backlog + 1
    /\ mishaps \in 0 .. MaxMishaps /\ air \subseteq [id : Frames, part : {1, 2}, epoch : 1 .. MaxConfigs]

\* bytesBuffered is what pending and completed frames hold, on every path, so
\* the memory cap never fires on bytes that are gone (deliverChunk, emitFrame).
BytesExact ==
    px.bytes = FoldLeft(LAMBDA s, f : s + Cardinality(px.pending[f].got), 0, SetToSeq(PendingOf(px)))
             + FoldLeft(LAMBDA s, f : s + Cardinality(Parts(f)), 0, SetToSeq(DoneOf(px)))

\* The decoder gets a delta only right after its predecessor, across losses,
\* reordering, epochs and decoder resets; only the anchor flushReorder leaves
\* behind a frame that failed its CRC lets one through (flushReorder,
\* submitDecodeUnit).
DecodedChain == seen.broken => px.crc

\* A key that will still be decoded: it waits in a stage, or all of it has
\* arrived or is on its way.
KeyComing ==
    \/ host.keys \intersect (DoneOf(px) \union ToSet(vd.held)) # {}
    \/ \E k \in host.keys :
        /\ px.next = NoFrame \/ px.next <= k
        /\ \A n \in Parts(k) : n \in px.pending[k].got \/ [id |-> k, part |-> n, epoch |-> px.epoch] \in air

\* While the pipe or, on a v2 stream, the decoder withholds deltas, a key
\* frame is on its way or has been asked for: the picture cannot freeze with
\* nobody about to ask, however losses, timers, decoder resets and epochs
\* interleave, unless the FEC decoder loses a chunk without a word
\* (discontinue, pollRequestIdr, configure).
GateHasReason ==
    px.awaitingIdr \/ (px.version = 2 /\ vd.needsKey /\ ~vd.errored) =>
        px.needsIdr \/ host.idr \/ KeyComing \/ seen.silent

\* fec_decode_pipe.ts:357-361: while a key is awaited the anchor is free or a
\* pending key's, so a complete key does not wait behind a frame that never
\* comes; the anchor behind a CRC failure is the exception.
AnchorIsKey ==
    px.awaitingIdr => px.next = NoFrame \/ px.next \in host.keys \intersect PendingOf(px) \/ px.crc

\* The picture is whole or about to be: no delta without its predecessor, no
\* closed gate without a key asked for, no anchor on a frame that never comes,
\* exact byte accounting (fec_decode_pipe.ts, video decoder pipe).
PictureWhole == BvTypeOK /\ BytesExact /\ DecodedChain /\ GateHasReason /\ AnchorIsKey

=============================================================================
