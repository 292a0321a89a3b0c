-------------------------- MODULE DecodePumpProofs --------------------------
(***************************************************************************)
(* What the decoder thread is fed, for every queue capacity, every bound   *)
(* and every interleaving of callback, tick, pump, device loss and stall.  *)
(*                                                                         *)
(* The invariant joins that of the shared receiver (IInv) to three facts   *)
(* about the pump: every event on its way is of this session's epoch       *)
(* (ItemsInv, EpochInv), the generation the pump tracks is older than      *)
(* every queued reset (TrackInv), and the locals of drain_newest relate    *)
(* the last event popped to the decoder's reference state (PumpState).     *)
(***************************************************************************)
EXTENDS DecodePump, RxCoreProofs

\* An event of this session: it carries the negotiated epoch and frames are
\* numbered from one.
Whole(e) == e.epoch = fec_epoch /\ (e.kind = "frame" => e.n > 0)

ItemsInv ==
    /\ \A i \in 1..Len(events) : Whole(events[i])
    /\ \A t \in Threads : \A i \in 1..Len(batch[t]) : Whole(batch[t][i])
    /\ seen.kind # "start" => Whole(seen)
    /\ sess \in {"negotiating", "streaming", "ended"} /\ leaseHolder = "none"

\* The pump follows the session's epoch once it has adopted it.
EpochInv ==
    /\ newest.kind # "start" => Whole(newest)
    /\ unit.kind # "start" => Whole(unit)
    /\ epoch # None => epoch = fec_epoch /\ wait_for_key \in {None, fec_epoch}
    /\ seen.kind = "start" =>
          /\ newest.kind = "start" /\ unit.kind = "start" /\ epoch = None
          /\ wait_for_key # None /\ pc \in {"idle", "exit"}

\* A tracked generation has been popped, so that every queued one is newer.
TrackInv ==
    recovery_generation # None =>
       /\ recovery_generation <= next_generation /\ epoch # None
       /\ \A i \in 1..Len(events) :
             events[i].kind = "disc" => events[i].gen > recovery_generation

Refers(u, d) == d.key \/ d.n = u.n + 1

\* Where the pump is says how the event popped last, the frame kept by
\* drain_newest and the decoder's reference state fit together.
PumpState ==
    /\ pc \in {"meta", "ack"} =>
          /\ unit.kind = "frame" /\ chain = unit.n /\ wait_for_key = unit.epoch
          /\ epoch # None
          /\ after = "idle" => seen = unit
          /\ after = "drain" => /\ seen = newest /\ newest.kind = "frame"
                                /\ ~poisoned /\ Refers(unit, newest)
    /\ pc = "drain" =>
          /\ newest.kind = "frame"
          /\ poisoned => wait_for_key # None
          /\ ~poisoned => /\ seen = newest
                          /\ decoder => \/ newest.key \/ wait_for_key # None
                                        \/ newest.n = chain + 1
    /\ pc = "idle" /\ decoder => wait_for_key # None \/ (seen.kind = "frame" /\ chain = seen.n)

\* What the other threads report about the decoder has happened.
ReportInv ==
    /\ device_removed => published
    /\ published => decoded
    /\ decoded => epoch # None
    /\ decode_stall_pending => decoded

PumpInv ==
    /\ IInv /\ ItemsInv
    /\ PumpTypeOK /\ EpochInv /\ TrackInv /\ PumpState /\ ReportInv
    /\ NoDanglingDelta /\ EmptyDecoderIsGated /\ RecoveryTracked

-----------------------------------------------------------------------------
(* What the other threads do.                                              *)

\* A step that leaves what ItemsInv is about alone.
LEMMA ItemsAside ==
    ASSUME ItemsInv, UNCHANGED <<events, batch, seen, fec_epoch, leaseHolder>>,
           sess' = sess \/ sess' = "ended"
    PROVE  ItemsInv'
  BY DEF ItemsInv, Whole

\* What the callback computes under the receiver mutex is of this session.
LEMMA ReceiverItems ==
    ASSUME TypeOK, ItemsInv, ReceiverStep("cb")
    PROVE  ItemsInv'
  <1> DEFINE b == batch["cb"]
             F(n, key) == FrameAt(n, key, "cb")
             D == DiscEvent(0, fec_epoch, discs + 1, Src("cb"))
             AllWhole(c) == c \in Seq(Event) /\ \A i \in 1..Len(c) : Whole(c[i])
  <1>1. /\ b \in Seq(Event) /\ fec_epoch \in Nat /\ discs \in Nat /\ discs + 1 \in Nat
        /\ Src("cb") \in Sources
    BY DEF TypeOK, Threads, Src, Sources
  <1>2. /\ UNCHANGED <<events, seen, fec_epoch, leaseHolder, sess>>
        /\ \A u \in Threads : u # "cb" => batch'[u] = batch[u]
    BY ReceiverFrame DEF queueVars, leaseVars, fecVars
  <1>3. \A n \in Nat, key \in BOOLEAN : F(n, key) \in Event /\ (n > 0 => Whole(F(n, key)))
    BY <1>1, EventTypes DEF FrameAt, FrameEvent, Whole
  <1>4. D \in Event /\ Whole(D)
    BY <1>1, EventTypes DEF DiscEvent, Whole
  <1>5. ASSUME NEW c, AllWhole(c), NEW e \in Event, Whole(e)
        PROVE  AllWhole(Append(c, e))
    BY <1>5, AppendElements
  <1>6. AllWhole(b)
    BY <1>1 DEF ItemsInv, Threads
  <1> HIDE DEF AllWhole, F, D, b
  <1>7. AllWhole(batch'["cb"])
    <2>1. CASE UNCHANGED batch
      BY <1>6, <2>1 DEF b
    <2>2. ASSUME NEW n \in Nat, NEW k \in BOOLEAN, n > 0, batch'["cb"] = Append(b, F(n, k))
          PROVE  AllWhole(batch'["cb"])
      BY <1>3, <1>5, <1>6, <2>2
    <2>3. ASSUME NEW n \in Nat, NEW m \in Nat, NEW k \in BOOLEAN, NEW l \in BOOLEAN,
                 n > 0, m > 0, batch'["cb"] = Append(Append(b, F(n, k)), F(m, l))
          PROVE  AllWhole(batch'["cb"])
      <3>1. AllWhole(Append(b, F(n, k)))
        BY <1>3, <1>5, <1>6, <2>3
      <3> QED
        BY <1>3, <1>5, <2>3, <3>1
    <2>4. CASE batch'["cb"] = Append(b, D)
      BY <1>4, <1>5, <1>6, <2>4
    <2> QED
      BY <2>1, <2>2, <2>3, <2>4, ReceiverOut DEF b, F, D
  <1>8. \A t \in Threads : \A i \in 1..Len(batch'[t]) : Whole(batch'[t][i])
    BY <1>2, <1>7 DEF AllWhole, ItemsInv
  <1> QED
    BY <1>2, <1>8 DEF ItemsInv, Whole

\* The session side of the composition: callback, tick, host and shell.
SessionStep == Streaming \/ Stopping \/ AnswerIdr \/ SendNeedsIdr

\* Each of its steps is a step of the shared receiver.
LEMMA SessionIInv ==
    ASSUME IInv, SessionStep
    PROVE  IInv'
  <1>1. CASE Streaming \/ Stopping
    <2>1. Next
      BY <1>1 DEF Streaming, Stopping, Next, Lifecycle, Consumer
    <2> QED
      BY <2>1, InvStep
  <1>2. CASE AnswerIdr
    <2>1. ReceiverStep("cb")
      BY <1>2 DEF AnswerIdr, ReceiverStep
    <2>2. Next
      BY <2>1 DEF Next, SessionIngress, Ingress
    <2> QED
      BY <2>2, InvStep
  <1>3. CASE SendNeedsIdr
    <2>1. CASE needs_idr \/ overflowed \/ decode_needs_idr
      <3>1. PollNeedsIdr
        BY <1>3, <2>1 DEF SendNeedsIdr, PollNeedsIdr
      <3>2. Next
        BY <3>1 DEF Next, Consumer
      <3> QED
        BY <3>2, InvStep
    <2>2. CASE ~(needs_idr \/ overflowed \/ decode_needs_idr)
      <3>1. needs_idr = FALSE /\ overflowed = FALSE /\ decode_needs_idr = FALSE
        BY <2>2 DEF IInv, TypeOK, QueueTypeOK
      <3>2. UNCHANGED vars
        BY <1>3, <3>1 DEF SendNeedsIdr, vars, queueVars, coreVars, rxVars, frameVars,
                          leaseVars, fecVars, pollVars
      <3> QED
        BY <3>2, InvStep
    <2> QED
      BY <2>1, <2>2
  <1> QED
    BY <1>1, <1>2, <1>3 DEF SessionStep

\* Pushing it keeps queue and batches of this session.
LEMMA ConsumeItems ==
    ASSUME TypeOK, ItemsInv, NEW t \in Threads, ConsumeEvent(t)
    PROVE  ItemsInv'
  <1> DEFINE ev == batch[t][1]
  <1>1. /\ ev \in Event /\ Whole(ev)
        /\ \/ UNCHANGED queueVars
           \/ ev.kind = "frame" /\ PushFrame(ev)
           \/ ev.kind = "disc" /\ PushDiscontinuity(ev)
        /\ UNCHANGED <<seen, fec_epoch, leaseHolder, sess>>
    BY ConsumePushes DEF ItemsInv
  <1>2. \A u \in Threads : \A i \in 1..Len(batch'[u]) : Whole(batch'[u][i])
    BY ConsumePushes DEF ItemsInv
  <1> HIDE DEF ev
  <1>3. \A j \in 1..Len(events') : Whole(events'[j])
    <2>1. CASE UNCHANGED queueVars
      BY <2>1 DEF ItemsInv, queueVars
    <2>2. CASE \/ ev.kind = "frame" /\ PushFrame(ev)
               \/ ev.kind = "disc" /\ PushDiscontinuity(ev)
      BY <1>1, <2>2, PushEffect DEF ItemsInv, Whole
    <2> QED
      BY <1>1, <2>1, <2>2
  <1> QED
    BY <1>1, <1>2, <1>3 DEF ItemsInv, Whole

\* What the session side does to the queue, and that it leaves the pump alone.
LEMMA SessionFrame ==
    ASSUME IInv, ItemsInv, SessionStep
    PROVE  /\ ItemsInv'
           /\ UNCHANGED <<seen, decodeVars, signalVars, drainVars>>
           /\ fec_epoch' = fec_epoch \/ seen = Start
           /\ \A j \in 1..Len(events') : events'[j].kind = "disc" =>
                 \/ \E i \in 1..Len(events) : events'[j] = events[i]
                 \/ events'[j].gen = next_generation + 1
           /\ \/ /\ UNCHANGED <<next_generation, recovery>>
                 /\ \A i \in 1..Len(events) :
                       i \in 1..Len(events') /\ events'[i] = events[i]
              \/ /\ next_generation' = next_generation + 1
                 /\ recovery'.gen = next_generation + 1
                 /\ \E j \in 1..Len(events') :
                       events'[j].kind = "disc" /\ events'[j].gen = next_generation + 1
  <1> DEFINE Quiet == UNCHANGED <<events, next_generation, recovery, fec_epoch, seen>>
  <1>0. TypeOK /\ PhaseInv
    BY DEF IInv
  <1>1. UNCHANGED <<decodeVars, signalVars, drainVars>>
    BY DEF SessionStep, Streaming, Stopping, AnswerIdr, SendNeedsIdr, pumpVars
  <1>2. ASSUME NEW t \in {"cb", "tick"}, ConsumeEvent(t)
        PROVE  ItemsInv' /\ (Quiet \/
               /\ UNCHANGED <<seen, fec_epoch>>
               /\ \A j \in 1..Len(events') : events'[j].kind = "disc" =>
                     \/ \E i \in 1..Len(events) : events'[j] = events[i]
                     \/ events'[j].gen = next_generation + 1
               /\ \/ /\ UNCHANGED <<next_generation, recovery>>
                     /\ \A i \in 1..Len(events) :
                           i \in 1..Len(events') /\ events'[i] = events[i]
                  \/ /\ next_generation' = next_generation + 1
                     /\ recovery'.gen = next_generation + 1
                     /\ \E j \in 1..Len(events') :
                           events'[j].kind = "disc" /\ events'[j].gen = next_generation + 1)
    <2> DEFINE ev == batch[t][1]
    <2>1. t \in Threads
      BY DEF Threads
    <2>2. /\ ev \in Event
          /\ \/ UNCHANGED queueVars
             \/ ev.kind = "frame" /\ PushFrame(ev)
             \/ ev.kind = "disc" /\ PushDiscontinuity(ev)
          /\ UNCHANGED <<seen, fec_epoch>>
      BY <1>0, <1>2, <2>1, ConsumePushes
    <2> HIDE DEF ev
    <2>3. CASE UNCHANGED queueVars
      BY <1>0, <1>2, <2>1, <2>2, <2>3, ConsumeItems DEF queueVars
    <2>4. CASE \/ ev.kind = "frame" /\ PushFrame(ev)
               \/ ev.kind = "disc" /\ PushDiscontinuity(ev)
      <3>1. ItemsInv'
        BY <1>0, <1>2, <2>1, ConsumeItems
      <3>2. \A j \in 1..Len(events') : events'[j].kind = "disc" =>
                     \/ \E i \in 1..Len(events) : events'[j] = events[i]
                     \/ events'[j].gen = next_generation + 1
        BY <1>0, <2>2, <2>4, PushEffect
      <3>3. \/ /\ UNCHANGED <<next_generation, recovery>>
               /\ \A i \in 1..Len(events) :
                     i \in 1..Len(events') /\ events'[i] = events[i]
            \/ /\ next_generation' = next_generation + 1
               /\ recovery'.gen = next_generation + 1
               /\ \E j \in 1..Len(events') :
                     events'[j].kind = "disc" /\ events'[j].gen = next_generation + 1
        BY <1>0, <2>2, <2>4, PushEffect
      <3> QED
        BY <2>2, <3>1, <3>2, <3>3
    <2> QED
      BY <2>2, <2>3, <2>4
  <1>3. CASE ReceiverStep("cb")
    BY <1>0, <1>1, <1>3, ReceiverItems DEF ReceiverStep, queueVars, fecVars
  <1>4. CASE Tick
    <2>1. /\ UNCHANGED <<queueVars, leaseVars, fecVars, seen>> /\ TickCompute("tick")
      BY <1>4 DEF Tick
    <2>2. \A u \in Threads : u # "tick" => batch'[u] = batch[u]
      BY <1>0, <2>1, TickFrame
    <2>3. UNCHANGED batch
          \/ batch'["tick"] = << DiscEvent(0, fec_epoch, discs + 1, Src("tick")) >>
      BY <1>0, <2>1, TickFrame
    <2>4. \A i \in 1..Len(batch'["tick"]) : Whole(batch'["tick"][i])
      <3>1. CASE UNCHANGED batch
        BY <3>1 DEF ItemsInv, Threads
      <3>2. CASE batch'["tick"] = << DiscEvent(0, fec_epoch, discs + 1, Src("tick")) >>
        BY <3>2 DEF DiscEvent, Whole
      <3> QED
        BY <2>3, <3>1, <3>2
    <2>5. ItemsInv'
      BY <2>1, <2>2, <2>4 DEF ItemsInv, Whole, queueVars, leaseVars, fecVars
    <2> QED
      BY <1>1, <2>1, <2>5 DEF queueVars, fecVars
  <1>5. CASE UNCHANGED <<events, next_generation, recovery, batch, seen, fec_epoch, leaseHolder>>
             /\ (sess' = sess \/ sess' = "ended")
    BY <1>1, <1>5, ItemsAside
  <1>6. ASSUME NEW e \in Epochs, ConfigureFec(e) PROVE ItemsInv' /\ seen = Start
               /\ UNCHANGED <<events, next_generation, recovery, seen>>
    <2>1. /\ sess = "negotiating" /\ sess' = "streaming"
          /\ UNCHANGED <<events, next_generation, recovery, seen, batch, leaseHolder>>
      BY <1>6 DEF ConfigureFec, queueVars
    <2>2. events = << >> /\ seen = Start /\ \A t \in Threads : batch[t] = << >>
      BY <1>0, <2>1 DEF PhaseInv, ItemsInv, Threads
    <2>3. Len(events) = 0 /\ \A t \in Threads : Len(batch[t]) = 0
      BY <2>2
    <2> QED
      BY <2>1, <2>2, <2>3 DEF ItemsInv, Start
  <1>7. CASE OnMessage \/ UnlockReceiver("cb") \/ ConsumeAck("cb") \/ ConsumeAck("tick") \/ PollAck
    BY <1>5, <1>7 DEF OnMessage, UnlockReceiver, ConsumeAck, PollAck, queueVars, leaseVars, fecVars
  <1>8. CASE Stopping
    BY <1>5, <1>8 DEF Stopping, Close, SessionEnd, CloseQueue, fecVars
  <1>9. CASE SendNeedsIdr
    BY <1>5, <1>9 DEF SendNeedsIdr, leaseVars, fecVars
  <1>10. CASE AnswerIdr
    BY <1>3, <1>10 DEF AnswerIdr, ReceiverStep
  <1>11. CASE Streaming
    <2>1. CASE \E e \in Epochs : ConfigureFec(e)
      BY <1>1, <1>6, <2>1
    <2>2. CASE ConsumeEvent("cb") \/ ConsumeEvent("tick")
      BY <1>1, <1>2, <2>2
    <2> QED
      BY <1>3, <1>4, <1>7, <1>11, <2>1, <2>2 DEF Streaming, SessionIngress, Ingress
  <1> QED
    BY <1>8, <1>9, <1>10, <1>11 DEF SessionStep

-----------------------------------------------------------------------------
(* The pump.                                                               *)

\* A pop takes an event of this session.
LEMMA PopItems ==
    ASSUME TypeOK, ItemsInv, Popping
    PROVE  ItemsInv' /\ Whole(seen')
  <1>1. /\ \A j \in 1..Len(events') : \E i \in 2..Len(events) : events'[j] = events[i]
        /\ seen' = events[1] /\ 1 \in 1..Len(events) /\ Len(events) \in Nat
        /\ UNCHANGED <<batch, fec_epoch, sess, leaseHolder>>
    BY PopEffect, QueueFacts
  <1>2. \A i \in 2..Len(events) : i \in 1..Len(events)
    BY <1>1
  <1> QED
    BY <1>1, <1>2 DEF ItemsInv, Whole

\* The gate and the adopted epoch of on_unit, for a frame of this session:
\* whatever the decode call returns, an empty decoder ends up behind the gate,
\* a gated recovery stays gated, and only a decoded key goes on to on_meta.
LEMMA FeedEffect ==
    ASSUME PumpInv, pc = "drain", ~poisoned, NEW cont \in {"idle", "drain"},
           Feed(newest, cont)
    PROVE  /\ decoder' \in BOOLEAN /\ decoded' \in BOOLEAN /\ published' \in BOOLEAN
           /\ decode_needs_idr' \in BOOLEAN /\ chain' \in Nat
           /\ wait_for_key' \in Nat \cup {None} /\ epoch' \in Nat \cup {None}
           /\ unit' = newest /\ recovery_generation' = recovery_generation
           /\ device_removed' = FALSE
           /\ dangling' = FALSE
           /\ chain' = 0 => wait_for_key' # None
           /\ epoch' # None => epoch' = fec_epoch /\ wait_for_key' \in {None, fec_epoch}
           /\ epoch # None => epoch' = epoch
           /\ recovery_generation # None /\ wait_for_key # None => wait_for_key' = fec_epoch
           /\ decoder' => wait_for_key' # None \/ chain' = newest.n
           /\ published' => decoded'
           /\ decoded' => epoch' # None
           /\ after' = cont
           /\ \/ pc' = cont
              \/ /\ pc' = "meta" /\ chain' = newest.n
                 /\ wait_for_key' = newest.epoch /\ epoch' # None
  <1> DEFINE gate0  == IF device_removed THEN epoch ELSE wait_for_key
             chain0 == IF device_removed THEN 0 ELSE chain
             adopt  == epoch = None
             gate   == IF adopt /\ gate0 # None THEN newest.epoch ELSE gate0
             epoch1 == IF adopt THEN newest.epoch ELSE epoch
  <1>1. /\ newest \in Event /\ newest.kind = "frame" /\ newest.n \in Nat /\ newest.n > 0
        /\ newest.epoch = fec_epoch /\ fec_epoch \in Nat /\ newest.key \in BOOLEAN
    <2>1. newest.kind = "frame" /\ newest \in Units
      BY DEF PumpInv, PumpState, PumpTypeOK
    <2>2. newest \in Event
      BY <2>1 DEF Units, Start
    <2> QED
      BY <2>1, <2>2 DEF PumpInv, EpochInv, Whole, Event, PumpTypeOK, TypeOK
  <1>2. /\ decoder \in BOOLEAN /\ decoded \in BOOLEAN /\ published \in BOOLEAN
        /\ decode_needs_idr \in BOOLEAN /\ device_removed \in BOOLEAN
        /\ chain \in Nat /\ wait_for_key \in Nat \cup {None} /\ epoch \in Nat \cup {None}
        /\ recovery_generation \in Nat \cup {None} /\ dangling = FALSE
    BY DEF PumpInv, PumpTypeOK, TypeOK, NoDanglingDelta
  <1>3. /\ device_removed => published
        /\ published => decoded
        /\ decoded => epoch # None
        /\ chain = 0 => wait_for_key # None
        /\ epoch # None => epoch = fec_epoch /\ wait_for_key \in {None, fec_epoch}
        /\ recovery_generation # None => epoch # None
        /\ decoder => newest.key \/ wait_for_key # None \/ newest.n = chain + 1
    BY DEF PumpInv, ReportInv, EmptyDecoderIsGated, EpochInv, TrackInv, PumpState
  <1>4. None \notin Nat
    BY DEF None
  <1>5. /\ gate0 \in Nat \cup {None} /\ chain0 \in Nat
        /\ gate \in Nat \cup {None} /\ epoch1 = fec_epoch /\ epoch1 # None
        /\ chain0 = 0 => gate0 # None /\ gate # None
        /\ epoch # None => gate0 \in {None, fec_epoch} /\ gate = gate0
        /\ gate \in {None, fec_epoch}
        /\ recovery_generation # None /\ wait_for_key # None => gate0 = fec_epoch /\ gate = fec_epoch
        /\ device_removed => gate0 # None /\ gate # None
        /\ ~device_removed => chain0 = chain /\ (gate = None <=> wait_for_key = None)
    BY <1>1, <1>2, <1>3, <1>4
  <1> HIDE DEF gate0, chain0, gate, epoch1
  <1>6. /\ device_removed' = FALSE /\ unit' = newest
        /\ decoder' \in (IF device_removed THEN BOOLEAN ELSE {decoder})
        /\ UNCHANGED recovery_generation
    BY DEF Feed
  <1>7. \/ /\ ~decoder' \/ (~adopt /\ newest.epoch # epoch)
           /\ wait_for_key' = gate0 /\ chain' = chain0
           /\ decode_needs_idr' = (decode_needs_idr \/ device_removed)
           /\ Continue(cont) /\ UNCHANGED <<epoch, dangling, decoded, published>>
        \/ /\ gate # None /\ epoch' = epoch1 /\ wait_for_key' = gate /\ chain' = chain0
           /\ decode_needs_idr' = TRUE
           /\ Continue(cont) /\ UNCHANGED <<dangling, decoded, published>>
        \/ /\ decoder' /\ (gate = None \/ newest.key)
           /\ epoch' = epoch1
           /\ dangling' = (dangling \/ (~newest.key /\ chain0 # newest.n - 1))
           /\ \/ /\ wait_for_key' = gate /\ chain' = newest.n
                 /\ decode_needs_idr' = (decode_needs_idr \/ device_removed)
                 /\ decoded' = TRUE /\ published' = (published \/ cont = "idle")
                 /\ \/ gate = newest.epoch /\ pc' = "meta" /\ after' = cont
                    \/ Continue(cont)
              \/ /\ wait_for_key' = gate /\ chain' = newest.n
                 /\ decode_needs_idr' = (decode_needs_idr \/ device_removed)
                 /\ Continue(cont) /\ UNCHANGED <<decoded, published>>
              \/ /\ wait_for_key' = epoch1 /\ chain' = 0 /\ decode_needs_idr' = TRUE
                 /\ Continue(cont) /\ UNCHANGED <<decoded, published>>
    BY DEF Feed, gate0, chain0, gate, epoch1
  <1>8. dangling' = FALSE
    <2>1. decoder' /\ gate = None /\ ~newest.key => chain0 = newest.n - 1
      <3> SUFFICES ASSUME decoder', gate = None, ~newest.key PROVE chain0 = newest.n - 1
        OBVIOUS
      <3>1. ~device_removed /\ wait_for_key = None /\ chain0 = chain
        BY <1>5
      <3>2. decoder
        BY <1>6, <3>1
      <3> QED
        BY <1>1, <1>2, <1>3, <3>1, <3>2
    <2> QED
      BY <1>2, <1>7, <2>1
  <1>9. /\ decoder' \in BOOLEAN /\ decoded' \in BOOLEAN /\ published' \in BOOLEAN
        /\ decode_needs_idr' \in BOOLEAN
    BY <1>2, <1>6, <1>7
  <1>10. /\ chain' \in Nat
         /\ wait_for_key' \in Nat \cup {None} /\ epoch' \in Nat \cup {None}
         /\ chain' = 0 => wait_for_key' # None
         /\ epoch' # None => epoch' = fec_epoch /\ wait_for_key' \in {None, fec_epoch}
         /\ epoch # None => epoch' = epoch
         /\ recovery_generation # None /\ wait_for_key # None => wait_for_key' = fec_epoch
         /\ decoder' => wait_for_key' # None \/ chain' = newest.n
    BY <1>1, <1>2, <1>3, <1>5, <1>7
  <1>11. /\ published' => decoded'
         /\ decoded' => epoch' # None
    BY <1>2, <1>3, <1>5, <1>7
  <1>12. /\ after' = cont
         /\ \/ pc' = cont
            \/ /\ pc' = "meta" /\ chain' = newest.n
               /\ wait_for_key' = newest.epoch /\ epoch' # None
    BY <1>5, <1>7 DEF Continue
  <1> QED
    BY <1>6, <1>8, <1>9, <1>10, <1>11, <1>12

\* A step of the pump that touches nothing of the receiver but the latch.
LEMMA LatchOnly ==
    ASSUME IInv, ItemsInv, UNCHANGED <<queueVars, seen, ProducerVars>>,
           decode_needs_idr' \in BOOLEAN
    PROVE  IInv' /\ ItemsInv'
  <1> USE DEF ProducerVars, queueVars, rxVars, frameVars, leaseVars, fecVars
  <1>1. TypeOK'
    BY DEF IInv, TypeOK, QueueTypeOK
  <1>2. PhaseInv' /\ ReceiverInv' /\ GenInv'
    BY DEF IInv, PhaseInv, ReceiverInv, GenInv, GenerationsOrdered
  <1>3. Producer' = Producer
    BY DEF Producer
  <1>4. Pipeline'
    BY <1>3, Aside DEF IInv
  <1>5. ItemsInv'
    BY ItemsAside
  <1> QED
    BY <1>1, <1>2, <1>4, <1>5 DEF IInv

\* Whatever the session side does, the pump's state still fits: only the
\* queue ahead of it has grown or been reset.
LEMMA SessionPump ==
    ASSUME PumpInv, SessionStep
    PROVE  PumpInv'
  <1>1. IInv' /\ ItemsInv'
    BY SessionIInv, SessionFrame DEF PumpInv
  <1>2. /\ UNCHANGED <<seen, decodeVars, signalVars, drainVars>>
        /\ fec_epoch' = fec_epoch \/ seen = Start
    BY SessionFrame DEF PumpInv
  <1>3. PumpTypeOK'
    <2>1. idr_asked' \in BOOLEAN
      BY DEF SessionStep, Streaming, Stopping, AnswerIdr, SendNeedsIdr, pumpVars, PumpInv, PumpTypeOK
    <2> QED
      BY <1>1, <1>2, <2>1 DEF IInv, PumpInv, PumpTypeOK, decodeVars, signalVars, drainVars
  <1>4. EpochInv'
    BY <1>2 DEF PumpInv, EpochInv, Whole, Start, decodeVars, drainVars
  <1>5. TrackInv'
    <2>1. ASSUME recovery_generation # None PROVE TrackInv'
      <3>1. /\ recovery_generation \in Nat /\ next_generation \in Nat
            /\ recovery_generation <= next_generation /\ epoch # None
            /\ \A i \in 1..Len(events) :
                  events[i].kind = "disc" => events[i].gen > recovery_generation
        BY <2>1 DEF PumpInv, TrackInv, PumpTypeOK, TypeOK, QueueTypeOK
      <3>2. recovery_generation <= next_generation'
        BY <3>1, SessionFrame DEF PumpInv
      <3>3. \A j \in 1..Len(events') :
               events'[j].kind = "disc" => events'[j].gen > recovery_generation
        <4> SUFFICES ASSUME NEW j \in 1..Len(events'), events'[j].kind = "disc"
                     PROVE  events'[j].gen > recovery_generation
          OBVIOUS
        <4>1. \/ \E i \in 1..Len(events) : events'[j] = events[i]
              \/ events'[j].gen = next_generation + 1
          BY SessionFrame DEF PumpInv
        <4> QED
          BY <3>1, <4>1
      <3> QED
        BY <1>2, <3>1, <3>2, <3>3 DEF TrackInv, decodeVars
    <2> QED
      BY <1>2, <2>1 DEF TrackInv, decodeVars
  <1>6. RecoveryTracked'
    <2>1. CASE /\ UNCHANGED <<next_generation, recovery>>
               /\ \A i \in 1..Len(events) : i \in 1..Len(events') /\ events'[i] = events[i]
      <3>1. UNCHANGED <<recovery_generation, wait_for_key>>
        BY <1>2 DEF decodeVars
      <3> QED
        BY <2>1, <3>1 DEF PumpInv, RecoveryTracked
    <2>2. CASE /\ recovery'.gen = next_generation + 1
               /\ \E j \in 1..Len(events') :
                     events'[j].kind = "disc" /\ events'[j].gen = next_generation + 1
      BY <2>2 DEF RecoveryTracked
    <2> QED
      BY <2>1, <2>2, SessionFrame DEF PumpInv
  <1>7. PumpState' /\ ReportInv' /\ NoDanglingDelta' /\ EmptyDecoderIsGated'
    BY <1>2 DEF PumpInv, PumpState, Refers, ReportInv, NoDanglingDelta, EmptyDecoderIsGated,
                decodeVars, signalVars, drainVars
  <1> QED
    BY <1>1, <1>3, <1>4, <1>5, <1>6, <1>7 DEF PumpInv

\* A popped reset is the generation to track: the queued ones are newer, and
\* if it is the newest the recovery it opened is still open.
LEMMA PopReset ==
    ASSUME PumpInv, Popping, seen'.kind = "disc",
           recovery_generation' = seen'.gen, wait_for_key' = seen'.epoch, epoch' = seen'.epoch
    PROVE  TrackInv' /\ RecoveryTracked'
  <1>1. IInv /\ TypeOK /\ GenerationsOrdered /\ ItemsInv
    BY DEF PumpInv, IInv, GenInv
  <1>2. /\ seen' = events[1] /\ seen' \in Event /\ 1 \in 1..Len(events)
        /\ \A j \in 1..Len(events') : \E i \in 2..Len(events) : events'[j] = events[i]
        /\ \A i \in 2..Len(events) : \E j \in 1..Len(events') : events'[j] = events[i]
        /\ UNCHANGED <<next_generation, recovery>>
    BY <1>1, PopEffect
  <1>3. Len(events) \in Nat /\ next_generation \in Nat /\ seen'.gen \in Nat /\ seen'.epoch \in Nat
        /\ \A i \in 1..Len(events) : events[i].gen \in Nat
    BY <1>1, <1>2, QueueFacts DEF Event
  <1>4. seen'.gen <= next_generation
    BY <1>1, <1>2 DEF IInv, GenInv
  <1>5. \A i \in 2..Len(events) : i \in 1..Len(events) /\ 1 < i
    BY <1>3
  <1>6. \A i \in 2..Len(events) : events[i].kind = "disc" => events[i].gen > seen'.gen
    BY <1>1, <1>2, <1>3, <1>5 DEF GenerationsOrdered
  <1>7. seen'.epoch # None
    BY <1>3 DEF None
  <1>8. TrackInv'
    BY <1>2, <1>4, <1>6, <1>7 DEF TrackInv
  <1>9. ASSUME recovery # NoRecovery PROVE RecoveryTracked'
    <2>1. recovery.gen = next_generation /\ sess # "draining"
      BY <1>1, <1>9 DEF GenerationsOrdered, ItemsInv
    <2>2. CASE seen'.gen = next_generation
      <3>1. recovery = [gen |-> seen'.gen, epoch |-> seen'.epoch]
        BY <1>1, <1>2, <2>1, <2>2 DEF GenerationsOrdered
      <3> QED
        BY <1>2, <3>1 DEF RecoveryTracked
    <2>3. CASE seen'.gen # next_generation
      <3>1. recovery_generation # recovery.gen
        BY <1>2, <1>3, <1>4, <2>1 DEF PumpInv, TrackInv, PumpTypeOK, None
      <3>2. PICK i \in 1..Len(events) :
                   events[i].kind = "disc" /\ events[i].gen = recovery.gen
        BY <1>9, <3>1 DEF PumpInv, RecoveryTracked
      <3>3. i # 1
        BY <1>2, <2>1, <2>3, <3>2
      <3>4. i \in 2..Len(events)
        BY <1>3, <3>3
      <3> QED
        BY <1>2, <3>2, <3>4 DEF RecoveryTracked
    <2> QED
      BY <2>2, <2>3
  <1> QED
    BY <1>2, <1>8, <1>9 DEF RecoveryTracked

\* A popped frame leaves the queued resets where they are.
LEMMA PopFrame ==
    ASSUME PumpInv, Popping, seen'.kind = "frame",
           UNCHANGED recovery_generation, epoch # None => epoch' = epoch,
           recovery_generation # None /\ wait_for_key # None => wait_for_key' = fec_epoch
    PROVE  TrackInv' /\ RecoveryTracked'
  <1>1. TypeOK
    BY DEF PumpInv, IInv
  <1>2. /\ seen' = events[1]
        /\ \A j \in 1..Len(events') : \E i \in 2..Len(events) : events'[j] = events[i]
        /\ \A i \in 2..Len(events) : \E j \in 1..Len(events') : events'[j] = events[i]
        /\ UNCHANGED <<next_generation, recovery>> /\ Len(events) \in Nat
    BY <1>1, PopEffect, QueueFacts
  <1>3. \A i \in 2..Len(events) : i \in 1..Len(events)
    BY <1>2
  <1>4. TrackInv'
    BY SMTT(30), <1>2, <1>3 DEF PumpInv, TrackInv
  <1>5. ASSUME recovery # NoRecovery PROVE RecoveryTracked'
    <2>1. CASE \E i \in 1..Len(events) : events[i].kind = "disc" /\ events[i].gen = recovery.gen
      <3>1. PICK i \in 1..Len(events) : events[i].kind = "disc" /\ events[i].gen = recovery.gen
        BY <2>1
      <3>2. i # 1
        BY <1>2, <3>1
      <3>3. i \in 2..Len(events)
        BY <1>2, <3>2
      <3> QED
        BY <1>2, <3>1, <3>3 DEF RecoveryTracked
    <2>2. CASE recovery_generation = recovery.gen /\ wait_for_key = recovery.epoch
      <3>1. recovery.gen \in Nat /\ recovery.epoch \in Nat
        BY <1>1 DEF TypeOK, QueueTypeOK
      <3>2. recovery_generation # None /\ wait_for_key # None
        BY <2>2, <3>1 DEF None
      <3>3. wait_for_key = fec_epoch
        BY <3>2 DEF PumpInv, TrackInv, EpochInv
      <3> QED
        BY <1>2, <2>2, <3>2, <3>3 DEF RecoveryTracked
    <2> QED
      BY <1>5, <2>1, <2>2 DEF PumpInv, RecoveryTracked
  <1> QED
    BY <1>2, <1>4, <1>5 DEF RecoveryTracked

\* What a pump that pops knows of the event it gets.
LEMMA PopKnown ==
    ASSUME PumpInv, PopEvent, seen' = Head(events), UNCHANGED ProducerVars,
           decode_needs_idr' \in BOOLEAN
    PROVE  /\ Popping /\ IInv' /\ ItemsInv' /\ Whole(seen') /\ UNCHANGED fec_epoch
           /\ seen' \in Event /\ Follows(seen, seen') /\ Head(events) = seen'
           /\ seen'.n \in Nat /\ seen'.epoch \in Nat /\ seen'.gen \in Nat
           /\ seen'.epoch = fec_epoch /\ seen'.epoch # None
  <1>1. Popping
    BY DEF Popping, ProducerVars
  <1>2. TypeOK /\ NoGapWithoutReset /\ IInv /\ ItemsInv
    BY DEF PumpInv, IInv, Pipeline
  <1>3. seen' = events[1] /\ seen' \in Event /\ events # << >> /\ UNCHANGED fec_epoch
    BY <1>1, <1>2, PopEffect DEF PopEvent
  <1>4. Follows(seen, seen')
    BY <1>2, <1>3 DEF NoGapWithoutReset
  <1>5. IInv' /\ ItemsInv' /\ Whole(seen')
    BY <1>1, <1>2, InvPop, PopItems
  <1>6. seen'.n \in Nat /\ seen'.epoch \in Nat /\ seen'.gen \in Nat
    BY <1>3 DEF Event
  <1>7. seen'.epoch # None /\ seen'.epoch = fec_epoch
    BY <1>5, <1>6 DEF None, Whole
  <1> QED
    BY <1>1, <1>3, <1>4, <1>5, <1>6, <1>7

\* on_discontinuity, outside or inside drain_newest.
LEMMA ResetStep ==
    ASSUME PumpInv, WaitReset \/ DrainReset
    PROVE  PumpInv'
  <1>1. /\ PopEvent /\ seen' = Head(events) /\ Head(events).kind = "disc"
        /\ OnDiscontinuity(Head(events))
        /\ UNCHANGED <<ProducerVars, decode_needs_idr, signalVars, pc, after, newest, unit, idr_asked>>
        /\ \/ pc = "idle" /\ UNCHANGED poisoned
           \/ pc = "drain" /\ poisoned' = TRUE
    BY DEF WaitReset, DrainReset, Pop, drainVars
  <1>2. decode_needs_idr' \in BOOLEAN
    BY <1>1 DEF PumpInv, PumpTypeOK, TypeOK
  <1>3. /\ Popping /\ IInv' /\ ItemsInv' /\ UNCHANGED fec_epoch
        /\ Head(events) = seen' /\ seen'.epoch \in Nat /\ seen'.gen \in Nat
        /\ seen'.epoch = fec_epoch /\ seen'.epoch # None
    BY <1>1, <1>2, PopKnown
  <1>4. /\ seen'.kind = "disc" /\ recovery_generation' = seen'.gen
        /\ wait_for_key' = seen'.epoch /\ epoch' = seen'.epoch /\ chain' = 0
        /\ UNCHANGED <<decoder, dangling, decoded, published>>
    BY <1>1, <1>3 DEF OnDiscontinuity
  <1>5. TrackInv' /\ RecoveryTracked'
    BY <1>3, <1>4, PopReset
  <1>6. PumpTypeOK'
    BY <1>1, <1>3, <1>4 DEF IInv, PumpInv, PumpTypeOK, signalVars
  <1>7. EpochInv'
    BY <1>1, <1>3, <1>4 DEF PumpInv, EpochInv, Whole
  <1>8. PumpState'
    BY <1>1, <1>3, <1>4 DEF PumpInv, PumpState
  <1>9. ReportInv' /\ NoDanglingDelta' /\ EmptyDecoderIsGated'
    BY <1>1, <1>3, <1>4 DEF PumpInv, ReportInv, NoDanglingDelta, EmptyDecoderIsGated, signalVars
  <1> QED
    BY <1>3, <1>5, <1>6, <1>7, <1>8, <1>9 DEF PumpInv

\* The first frame of a drain, or a frame behind a poisoned one.
LEMMA KeepStep ==
    ASSUME PumpInv, \/ WaitFrame
                    \/ DrainFrame /\ poisoned
    PROVE  PumpInv'
  <1>1. /\ PopEvent /\ seen' = Head(events) /\ Head(events).kind = "frame"
        /\ pc' = "drain" /\ newest' = Head(events) /\ poisoned' = FALSE
        /\ UNCHANGED <<ProducerVars, decode_needs_idr, signalVars, decodeVars, after, unit, idr_asked>>
        /\ pc = "idle" \/ (pc = "drain" /\ poisoned)
    BY DEF WaitFrame, DrainFrame, Pop
  <1>2. decode_needs_idr' \in BOOLEAN
    BY <1>1 DEF PumpInv, PumpTypeOK, TypeOK
  <1>3. /\ Popping /\ IInv' /\ ItemsInv' /\ UNCHANGED fec_epoch /\ Whole(seen')
        /\ Head(events) = seen' /\ seen' \in Event /\ Follows(seen, seen')
        /\ seen'.n \in Nat
    BY <1>1, <1>2, PopKnown
  <1>4. /\ seen'.kind = "frame"
        /\ UNCHANGED <<decoder, wait_for_key, recovery_generation, epoch, chain, dangling, decoded, published>>
    BY <1>1 DEF decodeVars
  <1>5. TrackInv' /\ RecoveryTracked'
    <2>1. recovery_generation # None /\ wait_for_key # None => wait_for_key = fec_epoch
      BY DEF PumpInv, TrackInv, EpochInv
    <2> QED
      BY <1>3, <1>4, <2>1, PopFrame
  <1>6. PumpTypeOK'
    BY ZenonT(60), <1>1, <1>3, <1>4 DEF IInv, PumpInv, PumpTypeOK, signalVars, Units, PumpPcs
  <1>7. EpochInv'
    BY <1>1, <1>3, <1>4 DEF PumpInv, EpochInv, Whole
  <1>8. PumpState'
    <2>1. decoder => seen'.key \/ wait_for_key # None \/ seen'.n = chain + 1
      BY <1>1, <1>3, <1>4 DEF PumpInv, PumpState, Follows, EpochInv
    <2> QED
      BY <1>1, <1>4, <2>1 DEF PumpState
  <1>9. ReportInv' /\ NoDanglingDelta' /\ EmptyDecoderIsGated'
    BY <1>1, <1>4 DEF PumpInv, ReportInv, NoDanglingDelta, EmptyDecoderIsGated, signalVars
  <1> QED
    BY <1>3, <1>5, <1>6, <1>7, <1>8, <1>9 DEF PumpInv

\* A superseded frame is decoded and dropped (drop_unit).
LEMMA DropStep ==
    ASSUME PumpInv, DrainFrame, ~poisoned
    PROVE  PumpInv'
  <1>1. /\ PopEvent /\ seen' = Head(events) /\ Head(events).kind = "frame"
        /\ pc = "drain" /\ newest' = Head(events) /\ poisoned' = FALSE
        /\ Feed(newest, "drain")
        /\ UNCHANGED <<ProducerVars, decode_stall_pending, idr_asked>>
    BY DEF DrainFrame, Pop
  <1>2. /\ decoder' \in BOOLEAN /\ decoded' \in BOOLEAN /\ published' \in BOOLEAN
        /\ decode_needs_idr' \in BOOLEAN /\ chain' \in Nat
        /\ wait_for_key' \in Nat \cup {None} /\ epoch' \in Nat \cup {None}
        /\ unit' = newest /\ recovery_generation' = recovery_generation
        /\ device_removed' = FALSE
        /\ dangling' = FALSE
        /\ chain' = 0 => wait_for_key' # None
        /\ epoch' # None => epoch' = fec_epoch /\ wait_for_key' \in {None, fec_epoch}
        /\ epoch # None => epoch' = epoch
        /\ recovery_generation # None /\ wait_for_key # None => wait_for_key' = fec_epoch
        /\ decoder' => wait_for_key' # None \/ chain' = newest.n
        /\ published' => decoded'
        /\ decoded' => epoch' # None
        /\ after' = "drain"
        /\ \/ pc' = "drain"
           \/ /\ pc' = "meta" /\ chain' = newest.n
              /\ wait_for_key' = newest.epoch /\ epoch' # None
    BY <1>1, FeedEffect
  <1>3. /\ Popping /\ IInv' /\ ItemsInv' /\ UNCHANGED fec_epoch /\ Whole(seen')
        /\ Head(events) = seen' /\ seen' \in Event /\ Follows(seen, seen')
        /\ seen'.kind = "frame"
    BY <1>1, <1>2, PopKnown
  <1>4. /\ newest.kind = "frame" /\ seen = newest /\ Whole(newest) /\ newest \in Units
        /\ recovery_generation \in Nat \cup {None}
        /\ decoded \in BOOLEAN /\ decode_stall_pending \in BOOLEAN /\ idr_asked \in BOOLEAN
        /\ decode_stall_pending => decoded
    BY <1>1 DEF PumpInv, PumpState, EpochInv, PumpTypeOK, ReportInv
  <1>5. TrackInv' /\ RecoveryTracked'
    BY <1>2, <1>3, PopFrame
  <1>6. PumpTypeOK'
    BY <1>1, <1>2, <1>3, <1>4 DEF IInv, PumpTypeOK, Units, PumpPcs
  <1>7. EpochInv'
    BY <1>1, <1>2, <1>3, <1>4 DEF EpochInv, Whole
  <1>8. Refers(newest, seen')
    BY <1>3, <1>4 DEF Refers, Follows
  <1>9. PumpState'
    <2>1. CASE pc' = "drain"
      <3>1. decoder' => seen'.key \/ wait_for_key' # None \/ seen'.n = chain' + 1
        BY <1>2, <1>8 DEF Refers
      <3> QED
        BY <1>1, <1>3, <2>1, <3>1 DEF PumpState
    <2>2. CASE /\ pc' = "meta" /\ chain' = newest.n
               /\ wait_for_key' = newest.epoch /\ epoch' # None
      BY <1>1, <1>2, <1>3, <1>4, <1>8, <2>2 DEF PumpState, Refers
    <2> QED
      BY <1>2, <2>1, <2>2
  <1>10. decoded => decoded'
    BY <1>1, <1>4 DEF Feed
  <1>11. ReportInv' /\ NoDanglingDelta' /\ EmptyDecoderIsGated'
    BY <1>1, <1>2, <1>4, <1>10 DEF ReportInv, NoDanglingDelta, EmptyDecoderIsGated
  <1> QED
    BY <1>3, <1>5, <1>6, <1>7, <1>9, <1>11 DEF PumpInv

\* A step that leaves the queue alone keeps a tracked recovery tracked.
LEMMA QueueKept ==
    ASSUME PumpInv, UNCHANGED <<events, next_generation, recovery, recovery_generation>>,
           epoch # None => epoch' = epoch,
           recovery_generation # None /\ wait_for_key # None => wait_for_key' = fec_epoch
    PROVE  TrackInv' /\ RecoveryTracked'
  <1>1. TrackInv'
    BY DEF PumpInv, TrackInv
  <1>2. ASSUME recovery_generation = recovery.gen, wait_for_key = recovery.epoch
        PROVE  wait_for_key' = wait_for_key
    <2>1. recovery.gen \in Nat /\ recovery.epoch \in Nat
      BY DEF PumpInv, IInv, TypeOK, QueueTypeOK
    <2>2. recovery_generation # None /\ wait_for_key # None
      BY <1>2, <2>1 DEF None
    <2> QED
      BY <2>2 DEF PumpInv, TrackInv, EpochInv
  <1>3. RecoveryTracked'
    BY <1>2 DEF PumpInv, RecoveryTracked
  <1> QED
    BY <1>1, <1>3

\* The backlog is empty: the kept frame goes to on_unit, a poisoned one is
\* dropped.
LEMMA EndStep ==
    ASSUME PumpInv, DrainEnd
    PROVE  PumpInv'
  <1>1. /\ pc = "drain"
        /\ UNCHANGED <<queueVars, seen, ProducerVars, newest, poisoned, idr_asked>>
    BY DEF DrainEnd
  <1>2. UNCHANGED <<events, next_generation, recovery, fec_epoch>>
    BY <1>1 DEF queueVars, ProducerVars, fecVars
  <1>3. CASE /\ poisoned /\ pc' = "idle" /\ after' = "idle"
             /\ UNCHANGED <<decode_needs_idr, signalVars, decodeVars, unit>>
    <2>1. decode_needs_idr' \in BOOLEAN /\ wait_for_key # None
          /\ UNCHANGED <<decoder, wait_for_key, recovery_generation, epoch, chain, dangling, decoded, published>>
      BY <1>1, <1>3 DEF PumpInv, PumpTypeOK, TypeOK, PumpState, decodeVars
    <2>2. IInv' /\ ItemsInv'
      BY <1>1, <2>1, LatchOnly DEF PumpInv
    <2>3. TrackInv' /\ RecoveryTracked'
      BY <1>2, <2>1 DEF PumpInv, TrackInv, RecoveryTracked
    <2>4. PumpTypeOK'
      BY <1>1, <1>3, <2>1, <2>2 DEF IInv, PumpInv, PumpTypeOK, signalVars, PumpPcs
    <2>5. EpochInv' /\ PumpState'
      BY <1>1, <1>2, <1>3, <2>1 DEF PumpInv, EpochInv, Whole, PumpState
    <2>6. ReportInv' /\ NoDanglingDelta' /\ EmptyDecoderIsGated'
      BY <1>3, <2>1 DEF PumpInv, ReportInv, NoDanglingDelta, EmptyDecoderIsGated, signalVars
    <2> QED
      BY <2>2, <2>3, <2>4, <2>5, <2>6 DEF PumpInv
  <1>4. CASE ~poisoned /\ Feed(newest, "idle") /\ UNCHANGED decode_stall_pending
    <2>1. /\ decoder' \in BOOLEAN /\ decoded' \in BOOLEAN /\ published' \in BOOLEAN
          /\ decode_needs_idr' \in BOOLEAN /\ chain' \in Nat
          /\ wait_for_key' \in Nat \cup {None} /\ epoch' \in Nat \cup {None}
          /\ unit' = newest /\ recovery_generation' = recovery_generation
          /\ device_removed' = FALSE
          /\ dangling' = FALSE
          /\ chain' = 0 => wait_for_key' # None
          /\ epoch' # None => epoch' = fec_epoch /\ wait_for_key' \in {None, fec_epoch}
          /\ epoch # None => epoch' = epoch
          /\ recovery_generation # None /\ wait_for_key # None => wait_for_key' = fec_epoch
          /\ decoder' => wait_for_key' # None \/ chain' = newest.n
          /\ published' => decoded'
          /\ decoded' => epoch' # None
          /\ after' = "idle"
          /\ \/ pc' = "idle"
             \/ /\ pc' = "meta" /\ chain' = newest.n
                /\ wait_for_key' = newest.epoch /\ epoch' # None
      BY <1>1, <1>4, FeedEffect
    <2>2. IInv' /\ ItemsInv'
      BY <1>1, <2>1, LatchOnly DEF PumpInv
    <2>3. TrackInv' /\ RecoveryTracked'
      BY <1>2, <2>1, QueueKept
    <2>4. /\ newest.kind = "frame" /\ seen = newest /\ Whole(newest) /\ newest \in Units
          /\ recovery_generation \in Nat \cup {None} /\ poisoned \in BOOLEAN
          /\ decoded \in BOOLEAN /\ decode_stall_pending \in BOOLEAN /\ idr_asked \in BOOLEAN
          /\ decode_stall_pending => decoded
      BY <1>1, <1>4 DEF PumpInv, PumpState, EpochInv, PumpTypeOK, ReportInv
    <2>5. PumpTypeOK'
      BY <1>1, <1>4, <2>1, <2>2, <2>4 DEF IInv, PumpTypeOK, PumpPcs
    <2>6. EpochInv'
      BY <1>1, <1>2, <2>1, <2>4 DEF EpochInv, Whole
    <2>7. PumpState'
      BY <1>1, <2>1, <2>4 DEF PumpState
    <2>8. decoded => decoded'
      BY <1>4, <2>4 DEF Feed
    <2>9. ReportInv' /\ NoDanglingDelta' /\ EmptyDecoderIsGated'
      BY <1>4, <2>1, <2>4, <2>8 DEF ReportInv, NoDanglingDelta, EmptyDecoderIsGated
    <2> QED
      BY <2>2, <2>3, <2>5, <2>6, <2>7, <2>9 DEF PumpInv
  <1> QED
    BY <1>3, <1>4 DEF DrainEnd

\* The pump goes on where the unit came from, with the gate open or armed.
LEMMA MetaResumes ==
    ASSUME PumpInv, pc \in {"meta", "ack"}, Continue(after),
           UNCHANGED <<seen, newest, poisoned, unit, decoder, chain, epoch, fec_epoch>>,
           wait_for_key' \in {None, wait_for_key}
    PROVE  PumpState' /\ EmptyDecoderIsGated' /\ EpochInv'
  <1>1. /\ unit.kind = "frame" /\ chain = unit.n /\ epoch # None
        /\ after \in {"idle", "drain"} /\ pc' = after /\ after' = after
    BY DEF PumpInv, PumpState, PumpTypeOK, Continue
  <1>2. chain # 0
    BY <1>1 DEF PumpInv, EpochInv, Whole, PumpTypeOK
  <1>3. PumpState'
    <2>1. CASE after = "idle"
      BY <1>1, <2>1 DEF PumpInv, PumpState
    <2>2. CASE after = "drain"
      BY <1>1, <2>2 DEF PumpInv, PumpState, Refers
    <2> QED
      BY <1>1, <2>1, <2>2
  <1>4. EmptyDecoderIsGated'
    BY <1>2 DEF EmptyDecoderIsGated
  <1>5. EpochInv'
    BY <1>1 DEF PumpInv, EpochInv, Whole
  <1> QED
    BY <1>3, <1>4, <1>5

\* on_meta, the look at the open recovery: it is not the tracked one only if
\* it is closed or its reset is still ahead in the queue.
LEMMA MetaReadStep ==
    ASSUME PumpInv, OnMetaRead
    PROVE  PumpInv'
  <1>1. /\ pc = "meta"
        /\ UNCHANGED <<vars, signalVars, newest, poisoned, unit, decoder, epoch,
                       chain, dangling, decoded, published, idr_asked>>
    BY DEF OnMetaRead
  <1>2. /\ UNCHANGED <<events, next_generation, recovery, fec_epoch, seen, decode_needs_idr>>
        /\ UNCHANGED <<queueVars, ProducerVars>>
    BY <1>1 DEF vars, queueVars, coreVars, fecVars, pollVars, ProducerVars
  <1>3. decode_needs_idr' \in BOOLEAN
    BY <1>2 DEF PumpInv, PumpTypeOK, TypeOK
  <1>4. IInv' /\ ItemsInv'
    BY <1>2, <1>3, LatchOnly DEF PumpInv
  <1>5. ReportInv' /\ NoDanglingDelta'
    BY <1>1 DEF PumpInv, ReportInv, NoDanglingDelta, signalVars
  <1>6. CASE pc' = "ack" /\ UNCHANGED <<wait_for_key, recovery_generation, after>>
    <2>1. PumpTypeOK'
      BY <1>1, <1>4, <1>6 DEF IInv, PumpInv, PumpTypeOK, signalVars, PumpPcs
    <2>2. TrackInv' /\ RecoveryTracked'
      BY <1>1, <1>2, <1>6 DEF PumpInv, TrackInv, RecoveryTracked
    <2>3. EpochInv' /\ PumpState' /\ EmptyDecoderIsGated'
      BY <1>1, <1>2, <1>6 DEF PumpInv, EpochInv, Whole, PumpState, Refers, EmptyDecoderIsGated
    <2> QED
      BY <1>4, <1>5, <2>1, <2>2, <2>3 DEF PumpInv
  <1>7. CASE /\ recovery # [gen |-> recovery_generation, epoch |-> unit.epoch]
             /\ wait_for_key' = None /\ recovery_generation' = None /\ Continue(after)
    <2>1. PumpTypeOK'
      BY <1>1, <1>4, <1>7 DEF IInv, PumpInv, PumpTypeOK, signalVars, PumpPcs, Continue
    <2>2. EpochInv' /\ PumpState' /\ EmptyDecoderIsGated'
      BY <1>1, <1>2, <1>7, MetaResumes
    <2>3. TrackInv'
      BY <1>7 DEF TrackInv
    <2>4. RecoveryTracked'
      <3>1. wait_for_key = unit.epoch /\ recovery \in [gen : Nat, epoch : Nat]
        BY <1>1 DEF PumpInv, PumpState, IInv, TypeOK, QueueTypeOK
      <3>2. ~(recovery_generation = recovery.gen /\ wait_for_key = recovery.epoch)
        BY <1>7, <3>1
      <3> QED
        BY <1>2, <3>2 DEF PumpInv, RecoveryTracked
    <2> QED
      BY <1>4, <1>5, <2>1, <2>2, <2>3, <2>4 DEF PumpInv
  <1> QED
    BY <1>6, <1>7 DEF OnMetaRead

\* on_meta, the acknowledgement: a reset pushed since the look makes it fail,
\* and the pump goes on waiting for the key of the newer generation.
LEMMA MetaAckStep ==
    ASSUME PumpInv, OnMetaAck
    PROVE  PumpInv'
  <1>1. /\ pc = "ack" /\ AcknowledgeRecovery(recovery_generation, unit.epoch)
        /\ Continue(after)
        /\ UNCHANGED <<ProducerVars, decode_needs_idr, seen, signalVars, newest,
                       poisoned, unit, decoder, epoch, chain, dangling,
                       decoded, published, idr_asked>>
        /\ \/ /\ wait_for_key' = None /\ recovery_generation' = None
              /\ recovery = [gen |-> recovery_generation, epoch |-> unit.epoch]
           \/ /\ UNCHANGED <<wait_for_key, recovery_generation>>
              /\ recovery # [gen |-> recovery_generation, epoch |-> unit.epoch]
    BY DEF OnMetaAck
  <1>2. UNCHANGED <<coreVars, seen, events, next_generation, fec_epoch>>
    BY <1>1 DEF coreVars, ProducerVars, pollVars, fecVars, AcknowledgeRecovery
  <1>3. \A i \in 1..Len(events) : events[i].kind = "disc" => events[i].gen # recovery_generation
    <2>1. recovery_generation \in Nat \cup {None} /\ TypeOK
      BY DEF PumpInv, PumpTypeOK
    <2> QED
      BY <2>1, QueueFacts DEF PumpInv, TrackInv, None
  <1>4. IInv'
    BY <1>1, <1>2, <1>3, InvAck DEF PumpInv
  <1>5. ItemsInv'
    BY <1>2, ItemsAside DEF PumpInv, coreVars, leaseVars
  <1>6. ReportInv' /\ NoDanglingDelta'
    BY <1>1 DEF PumpInv, ReportInv, NoDanglingDelta, signalVars
  <1>7. PumpTypeOK'
    BY <1>1, <1>4 DEF IInv, PumpInv, PumpTypeOK, signalVars, PumpPcs, Continue
  <1>8. EpochInv' /\ PumpState' /\ EmptyDecoderIsGated'
    BY <1>1, <1>2, MetaResumes
  <1>9. TrackInv' /\ RecoveryTracked'
    BY <1>1, <1>2 DEF PumpInv, TrackInv, RecoveryTracked, AcknowledgeRecovery
  <1> QED
    BY <1>4, <1>5, <1>6, <1>7, <1>8, <1>9 DEF PumpInv

\* on_decode_stall flushes and gates the decoder.
LEMMA StallStep ==
    ASSUME PumpInv, OnDecodeStall
    PROVE  PumpInv'
  <1>1. /\ pc = "idle" /\ decode_stall_pending /\ decode_stall_pending' = FALSE
        /\ chain' = 0 /\ wait_for_key' = epoch /\ decode_needs_idr' = TRUE
        /\ UNCHANGED <<queueVars, ProducerVars, seen, drainVars, device_removed,
                   decoder, recovery_generation, epoch, dangling, decoded, published, idr_asked>>
    BY DEF OnDecodeStall
  <1>2. epoch # None /\ epoch = fec_epoch
    BY <1>1 DEF PumpInv, ReportInv, EpochInv
  <1>3. UNCHANGED <<events, next_generation, recovery, fec_epoch>>
    BY <1>1 DEF queueVars, ProducerVars, fecVars
  <1>4. IInv' /\ ItemsInv'
    BY <1>1, LatchOnly DEF PumpInv
  <1>5. TrackInv' /\ RecoveryTracked'
    BY <1>1, <1>2, <1>3, QueueKept
  <1>6. PumpTypeOK'
    BY <1>1, <1>4 DEF IInv, PumpInv, PumpTypeOK, drainVars
  <1>7. EpochInv' /\ PumpState'
    BY <1>1, <1>2, <1>3 DEF PumpInv, EpochInv, Whole, PumpState, drainVars
  <1>8. ReportInv' /\ NoDanglingDelta' /\ EmptyDecoderIsGated'
    BY <1>1, <1>2 DEF PumpInv, ReportInv, NoDanglingDelta, EmptyDecoderIsGated
  <1> QED
    BY <1>4, <1>5, <1>6, <1>7, <1>8 DEF PumpInv

\* Reports of other threads, the end of the pump, and stuttering.
LEMMA ReportStep ==
    ASSUME PumpInv, DeviceRemoved \/ DecodeStall \/ PumpExit \/ UNCHANGED allVars
    PROVE  PumpInv'
  <1>1. /\ UNCHANGED <<vars, decodeVars, after, newest, poisoned, unit, idr_asked>>
        /\ pc' = pc \/ pc' = "exit"
        /\ UNCHANGED device_removed \/ (device_removed' = TRUE /\ published)
        /\ UNCHANGED decode_stall_pending \/ (decode_stall_pending' = TRUE /\ decoded)
    BY DEF DeviceRemoved, DecodeStall, PumpExit, allVars, pumpVars, signalVars, drainVars
  <1>2. UNCHANGED <<queueVars, ProducerVars, seen, decode_needs_idr, events, next_generation,
                    recovery, fec_epoch, decoder, wait_for_key, recovery_generation, epoch,
                    chain, dangling, decoded, published>>
    BY <1>1 DEF vars, queueVars, coreVars, fecVars, pollVars, ProducerVars, decodeVars
  <1>3. decode_needs_idr' \in BOOLEAN
    BY <1>2 DEF PumpInv, PumpTypeOK, TypeOK
  <1>4. IInv' /\ ItemsInv'
    BY <1>2, <1>3, LatchOnly DEF PumpInv
  <1>5. PumpTypeOK'
    <2>1. pc' \in PumpPcs /\ device_removed' \in BOOLEAN /\ decode_stall_pending' \in BOOLEAN
      BY <1>1 DEF PumpInv, PumpTypeOK, PumpPcs
    <2> QED
      BY <1>1, <1>2, <1>4, <2>1 DEF IInv, PumpInv, PumpTypeOK
  <1>6. EpochInv' /\ PumpState' /\ TrackInv' /\ RecoveryTracked'
    BY <1>1, <1>2 DEF PumpInv, EpochInv, Whole, PumpState, Refers, TrackInv, RecoveryTracked
  <1>7. ReportInv' /\ NoDanglingDelta' /\ EmptyDecoderIsGated'
    BY <1>1, <1>2 DEF PumpInv, ReportInv, NoDanglingDelta, EmptyDecoderIsGated
  <1> QED
    BY <1>4, <1>5, <1>6, <1>7 DEF PumpInv

-----------------------------------------------------------------------------
(* The theorems.                                                           *)

\* A session that has just been leased and drained.
LEMMA PumpStart == PumpInit => PumpInv
  <1> SUFFICES ASSUME PumpInit PROVE PumpInv
    OBVIOUS
  <1> USE DEF PumpInit, QueueInit
  <1>1. TypeOK
    <2>1. /\ events \in Seq(Event) /\ batch \in [Threads -> Seq(Event)]
          /\ acks \in [Threads -> Nat] /\ seen \in Seen
      BY DEF Seen, NoAck
    <2> QED
      BY <2>1 DEF TypeOK, QueueTypeOK, Phases, Codecs, NoRecovery, NoAck
  <1>2. PhaseInv /\ ReceiverInv
    BY DEF PhaseInv, ReceiverInv, Threads
  <1>3. GenInv
    BY DEF GenInv, GenerationsOrdered, Start, NoRecovery
  <1>4. Pipeline
    BY DEF Pipeline, NoGapWithoutReset, Continues, Linked, LastOut, LastQueued, Producer,
           Anchored, Start, Threads
  <1>5. ItemsInv
    BY DEF ItemsInv, Start, Threads
  <1>6. PumpTypeOK
    BY <1>1 DEF PumpTypeOK, PumpPcs, Units, None
  <1>7. EpochInv /\ TrackInv /\ PumpState /\ ReportInv
    BY DEF EpochInv, TrackInv, PumpState, ReportInv, Start, None
  <1>8. NoDanglingDelta /\ EmptyDecoderIsGated /\ RecoveryTracked
    BY DEF NoDanglingDelta, EmptyDecoderIsGated, RecoveryTracked, None
  <1> QED
    BY <1>1, <1>2, <1>3, <1>4, <1>5, <1>6, <1>7, <1>8 DEF PumpInv, IInv

\* One step per action of the pump and of its surroundings.
LEMMA PumpStep == PumpInv /\ [PumpNext]_allVars => PumpInv'
  <1> SUFFICES ASSUME PumpInv, [PumpNext]_allVars PROVE PumpInv'
    OBVIOUS
  <1>1. CASE DrainFrame
    BY <1>1, KeepStep, DropStep
  <1> QED
    BY <1>1, SessionPump, ResetStep, KeepStep, EndStep, MetaReadStep, MetaAckStep, StallStep, ReportStep
    DEF PumpNext, Running, Pump, SessionStep

\* What the decoder is fed is whole (main.rs, drain_newest and DecodeState),
\* for every capacity of the queue, every epoch, every loss and overflow,
\* every outcome of a decode call, and every interleaving of the callback, the
\* tick, the pump, a device loss and a stall report: no delta without its
\* reference, no empty decoder without an armed gate, no orphan recovery.
THEOREM DecoderSafety == PumpSpec => []DecoderFedWhole
  <1>1. PumpInit => PumpInv
    BY PumpStart
  <1>2. PumpInv /\ [PumpNext]_allVars => PumpInv'
    BY PumpStep
  <1>3. PumpInv => DecoderFedWhole
    BY DEF PumpInv, DecoderFedWhole
  <1> QED
    BY <1>1, <1>2, <1>3, PTL DEF PumpSpec

\* The phase of the handshake after a step that leaves the queue's recovery
\* alone and what the pump tracks too.
LEMMA HandshakeStutters ==
    ASSUME UNCHANGED <<next_generation, recovery, recovery_generation>>
    PROVE  UNCHANGED Handshake!handshakeVars
  BY DEF Handshake!handshakeVars

\* Pushes open generations, a popped reset flushes for the newest one or for
\* one that is superseded already, and only on_meta's acknowledgement closes.
LEMMA HandshakeStep ==
    PumpInv /\ [PumpNext]_allVars => [Handshake!HNext]_(Handshake!handshakeVars)
  <1> SUFFICES ASSUME PumpInv, [PumpNext]_allVars
               PROVE  [Handshake!HNext]_(Handshake!handshakeVars)
    OBVIOUS
  <1> DEFINE phase == IF recovery = NoRecovery THEN "closed"
                      ELSE IF recovery_generation = recovery.gen THEN "flushed"
                      ELSE "unflushed"
  <1>1. /\ next_generation \in Nat /\ recovery \in [gen : Nat, epoch : Nat]
        /\ recovery_generation \in Nat \cup {None} /\ TypeOK /\ GenerationsOrdered
        /\ recovery_generation # None => recovery_generation <= next_generation
        /\ recovery # NoRecovery => recovery.gen = next_generation
        /\ None \notin Nat
    BY DEF PumpInv, PumpTypeOK, TypeOK, QueueTypeOK, TrackInv, IInv, GenInv, GenerationsOrdered, None
  <1>2. CASE SessionStep
    <2>1. UNCHANGED recovery_generation
      BY <1>2, SessionFrame DEF PumpInv, decodeVars
    <2>2. CASE UNCHANGED <<next_generation, recovery>>
      BY <2>1, <2>2, HandshakeStutters
    <2>3. CASE next_generation' = next_generation + 1 /\ recovery'.gen = next_generation + 1
      <3>1. recovery' # NoRecovery
        BY <1>1, <2>3 DEF NoRecovery
      <3>2. recovery_generation # next_generation + 1
        BY <1>1
      <3>3. phase' = "unflushed"
        BY <2>1, <2>3, <3>1, <3>2
      <3> QED
        BY <2>3, <3>3 DEF Handshake!HNext, Handshake!Open
    <2> QED
      BY <1>2, <2>2, <2>3, SessionFrame DEF PumpInv
  <1>3. ASSUME UNCHANGED <<next_generation, recovery>>, phase # "flushed"
        PROVE  [Handshake!HNext]_(Handshake!handshakeVars)
    <2>1. CASE recovery = NoRecovery
      BY <1>3, <2>1 DEF Handshake!handshakeVars
    <2>2. CASE recovery # NoRecovery /\ recovery_generation' = recovery.gen
      BY <1>3, <2>2 DEF Handshake!HNext, Handshake!Flush
    <2>3. CASE recovery # NoRecovery /\ recovery_generation' # recovery.gen
      BY <1>3, <2>3 DEF Handshake!handshakeVars
    <2> QED
      BY <2>1, <2>2, <2>3
  <1>4. CASE WaitReset \/ DrainReset
    <2>1. /\ PopEvent /\ Head(events).kind = "disc"
          /\ UNCHANGED <<next_generation, recovery>>
      BY <1>4 DEF WaitReset, DrainReset, Pop, PopEvent
    <2>2. events[1].kind = "disc" /\ 1 \in 1..Len(events)
      BY <1>1, <2>1, QueueFacts, HeadTailProperties, EmptySeq DEF PopEvent
    <2>3. events[1].gen <= next_generation /\ events[1].gen \in Nat
      BY <1>1, <2>2, QueueFacts DEF PumpInv, IInv, GenInv
    <2>4. phase # "flushed"
      BY <1>1, <2>2, <2>3 DEF PumpInv, TrackInv
    <2> QED
      BY <1>3, <2>1, <2>4
  <1>5. CASE OnMetaRead
    <2>1. UNCHANGED <<next_generation, recovery>> /\ wait_for_key = unit.epoch
      BY <1>5 DEF OnMetaRead, vars, queueVars, PumpInv, PumpState
    <2>2. CASE UNCHANGED recovery_generation
      BY <2>1, <2>2, HandshakeStutters
    <2>3. CASE recovery # [gen |-> recovery_generation, epoch |-> unit.epoch]
      <3>1. phase # "flushed"
        <4> SUFFICES ASSUME recovery # NoRecovery, recovery_generation = recovery.gen
                     PROVE  FALSE
          OBVIOUS
        <4>1. \A i \in 1..Len(events) : events[i].kind = "disc" => events[i].gen # recovery.gen
          <5>1. recovery_generation # None
            BY <1>1
          <5> QED
            BY <1>1, <5>1, QueueFacts DEF PumpInv, TrackInv
        <4>2. wait_for_key = recovery.epoch
          BY <4>1 DEF PumpInv, RecoveryTracked
        <4> QED
          BY <1>1, <2>1, <2>3, <4>2
      <3> QED
        BY <1>3, <2>1, <3>1
    <2> QED
      BY <1>5, <2>2, <2>3 DEF OnMetaRead
  <1>6. CASE OnMetaAck
    <2>1. UNCHANGED next_generation
      BY <1>6 DEF OnMetaAck, AcknowledgeRecovery
    <2>2. CASE /\ recovery = [gen |-> recovery_generation, epoch |-> unit.epoch]
               /\ recovery' = NoRecovery
      <3>1. CASE recovery = NoRecovery
        BY <2>1, <2>2, <3>1 DEF Handshake!handshakeVars
      <3>2. CASE recovery # NoRecovery
        <4>1. phase = "flushed" /\ phase' = "closed"
          BY <2>2, <3>2
        <4> QED
          BY <2>1, <4>1 DEF Handshake!HNext, Handshake!Ack
      <3> QED
        BY <3>1, <3>2
    <2>3. CASE UNCHANGED <<recovery, recovery_generation>>
      BY <2>1, <2>3, HandshakeStutters
    <2> QED
      BY <1>6, <2>2, <2>3 DEF OnMetaAck, AcknowledgeRecovery
  <1>7. CASE WaitFrame \/ DrainFrame
    <2>1. UNCHANGED <<next_generation, recovery, recovery_generation>>
      BY <1>7 DEF WaitFrame, DrainFrame, Pop, PopEvent, Feed, decodeVars
    <2> QED
      BY <2>1, HandshakeStutters
  <1>8. CASE DrainEnd \/ OnDecodeStall
    <2>1. UNCHANGED <<next_generation, recovery, recovery_generation>>
      BY <1>8 DEF DrainEnd, OnDecodeStall, Feed, queueVars, decodeVars
    <2> QED
      BY <2>1, HandshakeStutters
  <1>9. CASE DeviceRemoved \/ DecodeStall \/ PumpExit \/ UNCHANGED allVars
    <2>1. UNCHANGED <<next_generation, recovery, recovery_generation>>
      BY <1>9 DEF DeviceRemoved, DecodeStall, PumpExit, allVars, vars, queueVars, pumpVars, decodeVars
    <2> QED
      BY <2>1, HandshakeStutters
  <1> QED
    BY <1>2, <1>4, <1>5, <1>6, <1>7, <1>8, <1>9 DEF PumpNext, Running, Pump, SessionStep

\* The composed system implements the abstract handshake: every generation is
\* opened in turn, and one is closed only after the decoder has flushed for
\* exactly that one, however the two halves of on_meta interleave with pushes.
THEOREM HandshakeRefined == PumpSpec => ImplementsHandshake
  <1>1. PumpInit => Handshake!HInit
    BY DEF PumpInit, QueueInit, Handshake!HInit
  <1>2. PumpInit => PumpInv
    BY PumpStart
  <1>3. PumpInv /\ [PumpNext]_allVars => PumpInv'
    BY PumpStep
  <1>4. PumpInv /\ [PumpNext]_allVars => [Handshake!HNext]_(Handshake!handshakeVars)
    BY HandshakeStep
  <1> QED
    BY <1>1, <1>2, <1>3, <1>4, PTL DEF PumpSpec, ImplementsHandshake, Handshake!HSpec
=============================================================================
