---------------------------- MODULE VideoReceiver ----------------------------
(***************************************************************************)
(* The receive-side state machine of one video_fec subscription,           *)
(* transport-core/src/video_rx.rs: chunks recovered by the FEC decoder in  *)
(* any order are reassembled into frames, frames are put back in order     *)
(* behind a bounded wait, and after any discontinuity deltas are withheld  *)
(* until a key frame is admitted.                                          *)
(*                                                                         *)
(* One message runs accept_epoch, process_decoder_events (a loss first,    *)
(* then every recovered chunk) and flush_reorder as a whole: the receiver  *)
(* is behind one mutex.  Its state is the record `rx`, and the functions   *)
(* of the code are operators from record to record.  The FEC decoder is    *)
(* represented by what it reports: each chunk at most once, or its loss.   *)
(* A fragment is one byte; frame ids and epochs are not near their wrap.   *)
(***************************************************************************)
EXTENDS Integers, Sequences, FiniteSets, SequencesExt

CONSTANTS
    MaxId,          \* bound on the frame ids of the stream
    KeyIds,         \* the key frames among them
    WideIds,        \* the frames of two chunks; the others have one
    CorruptIds,     \* frames whose bytes fail the v2 CRC ({} for a v1 stream)
    MAX_PENDING_FRAMES, REORDER_MAX_COMPLETED_FRAMES,
    REORDER_MAX_WAIT,    \* in units of the clock
    MAX_BYTES,           \* RX_DECODER_MAX_BYTES, in fragments
    MaxRecovered,        \* bound on the chunks recovered by one message
    MaxEpoch             \* bound on the epochs

ASSUME ReceiverAssumption ==
    /\ MaxId \in Nat
    /\ KeyIds \subseteq 1..MaxId /\ WideIds \subseteq 1..MaxId
    /\ CorruptIds \subseteq 1..MaxId
    /\ {MAX_PENDING_FRAMES, REORDER_MAX_COMPLETED_FRAMES, REORDER_MAX_WAIT,
        MAX_BYTES, MaxRecovered, MaxEpoch} \subseteq Nat

VARIABLES rx,      \* the receiver
          got,     \* chunks the FEC decoder has reported, or given up on
          delivered, \* the events returned by the last call
          last     \* history: the last event returned by earlier calls

receiverVars == <<rx, got, delivered, last>>

FrameIds == 1..MaxId
NoFrame == 0
Chunks == { c \in FrameIds \X {1, 2} : c[2] = 1 \/ c[1] \in WideIds }
Count(id) == IF id \in WideIds THEN 2 ELSE 1

FrameOut(id) == [kind |-> "frame", n |-> id, key |-> id \in KeyIds]
\* DiscontinuityReason: FrameCrc, or any other.
Reset(crc) == [kind |-> "disc", n |-> 0, key |-> FALSE, crc |-> crc]
AtStart     == [kind |-> "start", n |-> 0,  key |-> FALSE]

ReceiverInit ==
    /\ rx = [pending |-> [id \in FrameIds |-> {}], completed |-> << >>,
             buffered_bytes |-> 0, next_frame_id |-> NoFrame, epoch |-> 0,
             needs_idr |-> FALSE, awaiting_idr |-> FALSE, out |-> << >>]
    /\ got = {} /\ delivered = << >> /\ last = AtStart

PendingIds(s) == { id \in FrameIds : s.pending[id] # {} }
Waiting(s)    == { s.completed[i].id : i \in 1..Len(s.completed) }

-----------------------------------------------------------------------------
\* Mutant: deltas are not gated after the loss.
DiscontinueUngated(s, crc) ==
    [s EXCEPT !.pending = [id \in FrameIds |-> {}], !.completed = << >>,
              !.buffered_bytes = 0, !.next_frame_id = NoFrame,
              !.needs_idr = TRUE, !.out = Append(@, Reset(crc))]

Discontinue(s, crc) ==
    [s EXCEPT !.pending = [id \in FrameIds |-> {}], !.completed = << >>,
              !.buffered_bytes = 0, !.next_frame_id = NoFrame,
              !.needs_idr = TRUE, !.awaiting_idr = TRUE,
              !.out = Append(@, Reset(crc))]

\* The end of deliver_chunk: the frame is complete.  A delta is dropped while
\* an IDR is awaited and gives the ordering anchor back.
Complete(s, id) ==
    LET taken == [s EXCEPT !.pending[id] = {}] IN
    IF s.awaiting_idr /\ id \notin KeyIds
    THEN [taken EXCEPT !.buffered_bytes = @ - Count(id),
                       !.next_frame_id = IF @ = id THEN NoFrame ELSE @]
    ELSE [taken EXCEPT !.awaiting_idr = @ /\ id \notin KeyIds,
                       !.completed = Append(@, [id |-> id, age |-> 0])]

\* The first chunk of a frame may claim the ordering anchor; while an IDR is
\* awaited only a key's may.
Anchor(s, id) ==
    IF /\ s.pending[id] = {} /\ s.next_frame_id = NoFrame
       /\ ~s.awaiting_idr \/ id \in KeyIds
    THEN [s EXCEPT !.next_frame_id = id] ELSE s

\* deliver_chunk.  `bad` is a chunk whose metadata disagree with those of the
\* frame it claims to belong to.
DeliverChunk(s, chunk, bad) ==
    LET id == chunk[1]
        new == s.pending[id] = {}
        full == new /\ Cardinality(PendingIds(s)) + Len(s.completed)
                          >= MAX_PENDING_FRAMES
        mismatch == ~new /\ bad
        over == s.buffered_bytes + 1 > MAX_BYTES
        stored == [Anchor(s, id) EXCEPT !.pending[id] = @ \cup {chunk[2]},
                                        !.buffered_bytes = @ + 1]
    IN  IF id \in Waiting(s) THEN s
        ELSE IF full \/ mismatch \/ over THEN Discontinue(s, FALSE)
        ELSE IF Cardinality(stored.pending[id]) = Count(id) THEN Complete(stored, id)
        ELSE stored

-----------------------------------------------------------------------------
\* The wait of flush_reorder: completed frames whose predecessor is missing
\* stay, unless there are too many or the oldest has waited too long.
AwaitPredecessor(s) ==
    IF \/ s.completed = << >>
       \/ /\ Len(s.completed) <= REORDER_MAX_COMPLETED_FRAMES
          /\ s.completed[1].age < REORDER_MAX_WAIT
    THEN s ELSE Discontinue(s, FALSE)

\* Frames first..upto are assembled, emitted and leave the reorder stage.
Deliver(s, first, upto) ==
    [s EXCEPT !.completed = SelectSeq(@, LAMBDA c : c.id \notin first..upto),
              !.buffered_bytes =
                  @ - Cardinality({ c \in Chunks : c[1] \in first..upto }),
              !.next_frame_id = upto + 1,
              !.out = @ \o [i \in 1..(upto + 1 - first) |-> FrameOut(first + i - 1)]]

\* flush_reorder.  The loop delivers the run of frames that starts at the
\* expected one.  A frame that fails its CRC ends it with a discontinuity,
\* after which next_frame_id is still set behind the failed frame.
FlushReorder(s) ==
    LET expected == IF s.next_frame_id = NoFrame THEN s.completed[1].id
                                              ELSE s.next_frame_id
        run == { id \in Waiting(s) : expected..id \subseteq Waiting(s)
                                     /\ id >= expected }
        bad == run \cap CorruptIds
        first_bad == CHOOSE id \in bad : \A j \in bad : id <= j
        end == CHOOSE id \in run : \A j \in run : j <= id
    IN  IF s.completed = << >> THEN s
        ELSE IF run = {} THEN AwaitPredecessor(s)
        ELSE IF bad = {} THEN AwaitPredecessor(Deliver(s, expected, end))
        ELSE [Discontinue(Deliver(s, expected, first_bad - 1), TRUE)
                  EXCEPT !.next_frame_id = first_bad + 1]

Return(s) ==
    /\ rx' = [s EXCEPT !.out = << >>]
    /\ delivered' = s.out
    /\ last' = IF delivered = << >> THEN last ELSE delivered[Len(delivered)]

\* on_message: the symbols of one message may reveal a permanent loss and
\* recover several chunks.
OnMessage(chunks, bad) ==
    /\ got' = got \cup ToSet(chunks)
    /\ Return(FlushReorder(
          FoldLeft(LAMBDA s, c : DeliverChunk(s, c, bad), rx, chunks)))

OnMessageWithLoss(lost, chunks) ==
    /\ got' = got \cup {lost} \cup ToSet(chunks)
    /\ Return(FlushReorder(
          FoldLeft(LAMBDA s, c : DeliverChunk(s, c, FALSE),
                   Discontinue(rx, FALSE), chunks)))

\* accept_epoch: a newer epoch starts over with a fresh FEC decoder.
OnNewEpoch(chunk) ==
    /\ rx.epoch < MaxEpoch
    /\ got' = {chunk}
    /\ Return(FlushReorder(
          DeliverChunk(Discontinue([rx EXCEPT !.epoch = @ + 1], FALSE), chunk, FALSE)))

TickEvents == Return(FlushReorder(rx)) /\ UNCHANGED got

PollNeedsIdr ==
    /\ rx.needs_idr
    /\ rx' = [rx EXCEPT !.needs_idr = FALSE]
    /\ UNCHANGED <<got, delivered, last>>

\* Time passes for the frames in the reorder stage.
Clock ==
    /\ \E i \in 1..Len(rx.completed) : rx.completed[i].age < REORDER_MAX_WAIT
    /\ rx' = [rx EXCEPT !.completed =
                 [i \in DOMAIN @ |-> [@[i] EXCEPT !.age =
                     IF @ < REORDER_MAX_WAIT THEN @ + 1 ELSE @]]]
    /\ UNCHANGED <<got, delivered, last>>

FreshChunks == Chunks \ got

\* What one message can recover: distinct chunks, in some order.
Recoveries == { s \in BoundedSeq(FreshChunks, MaxRecovered) : IsInjective(s) }

ReceiverNext ==
    \/ \E s \in Recoveries, bad \in BOOLEAN : s # << >> /\ OnMessage(s, bad)
    \/ \E lost \in FreshChunks, s \in Recoveries :
          lost \notin ToSet(s) /\ OnMessageWithLoss(lost, s)
    \/ \E c \in Chunks : OnNewEpoch(c)
    \/ TickEvents \/ PollNeedsIdr \/ Clock

ReceiverSpec == ReceiverInit /\ [][ReceiverNext]_receiverVars

-----------------------------------------------------------------------------
(* Properties.                                                             *)

ReceiverTypeOK ==
    /\ rx.pending \in [FrameIds -> SUBSET {1, 2}]
    /\ rx.completed \in Seq([id : FrameIds, age : 0..REORDER_MAX_WAIT])
    /\ rx.buffered_bytes \in Nat
    /\ rx.next_frame_id \in Nat /\ rx.epoch \in 0..MaxEpoch
    /\ rx.needs_idr \in BOOLEAN /\ rx.awaiting_idr \in BOOLEAN
    /\ got \subseteq Chunks

\* The contract the rest of the client relies on: a delta is returned only
\* right after the frame it refers to (or first, for a client that joins in
\* the middle of a GOP), and after a discontinuity the first frame is a key.
Follows(prev, next) ==
    \/ next.kind = "disc"
    \/ next.key
    \/ prev.kind = "start"
    \/ prev.kind = "frame" /\ next.n = prev.n + 1

Pairs == { <<(IF i = 1 THEN last ELSE delivered[i - 1]), delivered[i]>> : i \in 1..Len(delivered) }

\* video_rx.rs:74: deltas are gated until an IDR is admitted.
UnbrokenStream == \A p \in Pairs : Follows(p[1], p[2])

\* What holds of the code: only the reset of a frame that failed its CRC, whose
\* cleared anchor flush_reorder sets again, may be followed by a delta.
StreamContinuity ==
    \A p \in Pairs :
        \/ Follows(p[1], p[2])
        \/ p[1].kind = "disc" /\ p[1].crc

\* fec-framing.md "Resource limits": at most MAX_PENDING_FRAMES records and
\* MAX_BYTES of fragments are retained, and the running byte count is exactly
\* what is buffered, so no path leaks budget until the cap fires on nothing.
BuffersBounded ==
    /\ Cardinality(PendingIds(rx)) + Len(rx.completed) <= MAX_PENDING_FRAMES
    /\ rx.buffered_bytes <= MAX_BYTES
    /\ rx.buffered_bytes =
          Cardinality({ c \in Chunks : c[2] \in rx.pending[c[1]] })
        + Cardinality({ c \in Chunks : c[1] \in Waiting(rx) })

\* video_rx.rs:472-476: while an IDR is awaited, the ordering anchor is free
\* or belongs to a pending key frame, so that the next complete key is
\* emitted at once instead of waiting behind a frame that never comes; the
\* anchor that flush_reorder leaves behind a CRC failure is the exception.
AnchorIsPendingKey ==
    rx.awaiting_idr =>
        \/ rx.next_frame_id = NoFrame
        \/ rx.next_frame_id \in KeyIds \cap PendingIds(rx)
        \/ rx.next_frame_id - 1 \in CorruptIds

\* What the receiver hands on and what it keeps (video_rx.rs deliver_chunk,
\* flush_reorder, discontinue).
ReceiverSound == ReceiverTypeOK /\ StreamContinuity /\ AnchorIsPendingKey /\ BuffersBounded

=============================================================================
