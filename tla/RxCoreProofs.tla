---------------------------- MODULE RxCoreProofs ----------------------------
(***************************************************************************)
(* RxCore keeps its invariants for every queue capacity, every bound and   *)
(* every interleaving of its threads.                                      *)
(*                                                                         *)
(* NoGapWithoutReset alone says nothing of the events that have been       *)
(* computed and not yet pushed, so it is not inductive: Pipeline extends   *)
(* it backwards, from the queue through the unapplied batch to the         *)
(* receiver that will emit the next frame, and PhaseInv says which         *)
(* thread's batch that is.                                                 *)
(***************************************************************************)
EXTENDS RxCore, SequenceTheorems, TLAPS

\* Which locks and which batches a phase of the session allows.
PhaseInv ==
    /\ active <=> sess \in {"leased", "draining", "negotiating", "streaming"}
    /\ ever_started <=> sess # "none"
    /\ leaseHolder = "c" => ~active
    /\ rxHolder = "c" => leaseHolder = "c"
    /\ rxHolder = "cb" => sess = "streaming"
    /\ leaseHolder = "none" => batch["c"] = << >>
    /\ sess # "streaming" => batch["cb"] = << >> /\ batch["tick"] = << >>
    /\ sess = "ended" => closed
    /\ sess \in {"draining", "negotiating"} => codec = "Unconfigured" /\ ~awaiting_idr
    /\ sess = "negotiating" => events = << >> /\ seen = Start
    /\ sess \in {"none", "leased"} => codec = "V1"

\* The reorder stage holds frames only while no IDR is awaited, and a tick
\* computes nothing but resets.
ReceiverInv ==
    /\ held => ~awaiting_idr
    /\ \A i \in 1..Len(batch["tick"]) : batch["tick"][i].kind = "disc"

\* Generations never exceed the counter, and a reset the consumer has popped
\* is older than every queued one.
GenInv ==
    /\ seen.kind = "disc" => seen.gen <= next_generation
    /\ \A i \in 1..Len(events) :
          events[i].kind = "disc" =>
              /\ events[i].gen <= next_generation
              /\ seen.kind = "disc" => seen.gen < events[i].gen
    /\ GenerationsOrdered

\* The thread that may emit frames.
Producer == IF sess \in {"none", "leased"} THEN "c" ELSE "cb"

LastQueued == IF events = << >> THEN seen ELSE events[Len(events)]
LastOf(s)  == s[Len(s)]

\* The last event on its way to the consumer, and the case in which the v2 key
\* gate makes it irrelevant: everything but a key will be dropped.
LastOut(b) == IF b = << >> THEN LastQueued ELSE LastOf(b)
Gated(b)   == b = << >> /\ v2_key_gate

\* A delta right behind the last frame emitted may follow `e`.
Anchored(e) ==
    \/ e.kind = "disc"
    \/ e.kind = "frame" /\ e.n = pos
    \/ e.kind = "start" /\ codec # "V2"

\* The batch `b` continues the queue ...
Linked(b) ==
    /\ \A i \in 2..Len(b) : Follows(b[i - 1], b[i])
    /\ b # << >> => v2_key_gate \/ Follows(LastQueued, b[1])

\* ... and the receiver continues the batch.
Continues(b) ==
    /\ Linked(b)
    /\ ~awaiting_idr => Gated(b) \/ Anchored(LastOut(b))
    /\ awaiting_idr /\ stale_anchor => Gated(b) \/ LastOut(b).kind = "disc"

Pipeline ==
    /\ NoGapWithoutReset
    /\ ~closed /\ sess # "draining" => Continues(batch[Producer])

\* The inductive invariant.
IInv == TypeOK /\ PhaseInv /\ ReceiverInv /\ GenInv /\ Pipeline

-----------------------------------------------------------------------------
(* Typing.                                                                 *)

\* A frame or a reset of the receiver is an event (capi.rs, RxEvent).
LEMMA EventTypes ==
    ASSUME NEW n \in Nat, NEW key \in BOOLEAN, NEW e \in Nat, NEW gen \in Nat,
           NEW ord \in Nat, NEW src \in Sources
    PROVE  FrameEvent(n, key, e, ord, src) \in Event /\ DiscEvent(gen, e, ord, src) \in Event
  BY DEF FrameEvent, DiscEvent, Event, Sources

\* Appending a receiver's events to its batch (Out) keeps batches well formed.
LEMMA OutType ==
    ASSUME NEW t \in Threads, NEW evs \in Seq(Event), TypeOK, Out(t, evs)
    PROVE  batch' \in [Threads -> Seq(Event)]
  <1>1. batch[t] \o evs \in Seq(Event)
    BY ConcatProperties DEF TypeOK
  <1> QED
    BY <1>1 DEF Out, TypeOK

\* One and two events as a sequence.
LEMMA ShortSeqs ==
    ASSUME NEW a \in Event, NEW b \in Event
    PROVE  <<a>> \in Seq(Event) /\ <<a, b>> \in Seq(Event)
  OBVIOUS

\* push_discontinuity stamps a generation and leaves the rest of the reset.
LEMMA StampedReset ==
    ASSUME NEW ev \in Event, NEW g \in Nat
    PROVE  LET reset == [ev EXCEPT !.gen = g]
           IN  /\ reset \in Event /\ reset.gen = g /\ reset.kind = ev.kind
               /\ reset.epoch = ev.epoch /\ reset.src = ev.src /\ reset.ord = ev.ord
  BY DEF Event

\* A push keeps the queue well formed: rejected, appended or overflowing.
LEMMA PushTypes ==
    ASSUME QueueTypeOK, NEW ev \in Event, PushFrame(ev) \/ PushDiscontinuity(ev)
    PROVE  QueueTypeOK'
  <1>1. next_generation + 1 \in Nat /\ ev.epoch \in Nat
    BY DEF QueueTypeOK, Event
  <1>2. [gen |-> next_generation + 1, epoch |-> ev.epoch] \in [gen : Nat, epoch : Nat]
    BY <1>1
  <1>3. events \in Seq(Event) /\ Append(events, ev) \in Seq(Event)
    BY AppendProperties DEF QueueTypeOK
  <1>4. CASE PushFrame(ev)
    <2> DEFINE reset == DiscEvent(next_generation + 1, ev.epoch, 0, "queue")
    <2>1. <<reset, ev>> \in Seq(Event)
      BY <1>1, EventTypes, ShortSeqs DEF Sources
    <2> HIDE DEF reset
    <2>2. events' \in Seq(Event)
      BY <1>3, <1>4, <2>1 DEF PushFrame, queueVars, reset
    <2> QED
      BY <1>1, <1>2, <1>4, <2>2 DEF PushFrame, QueueTypeOK, OpenRecoveryLocked, queueVars
  <1>5. CASE PushDiscontinuity(ev)
    <2> DEFINE reset == [ev EXCEPT !.gen = next_generation + 1]
    <2>1. reset \in Event
      BY <1>1, StampedReset
    <2> HIDE DEF reset
    <2>2. <<reset>> \in Seq(Event) /\ Append(events, reset) \in Seq(Event)
      BY <1>3, <2>1, AppendProperties
    <2>3. events' \in Seq(Event)
      BY <1>3, <1>5, <2>2 DEF PushDiscontinuity, queueVars, reset
    <2> QED
      BY <1>1, <1>2, <1>5, <2>3
      DEF PushDiscontinuity, QueueTypeOK, OpenRecoveryLocked, queueVars
  <1> QED
    BY <1>4, <1>5

\* Whatever the receiver does under its mutex keeps the types.
LEMMA ReceiverTypes ==
    ASSUME TypeOK, NEW t \in {"c", "cb"}, ReceiverStep(t)
    PROVE  TypeOK'
  <1>1. t \in Threads /\ Src(t) \in Sources
    BY DEF Threads, Src, Sources
  <1>2. /\ UNCHANGED <<queueVars, rxHolder, leaseVars, fecVars, pollVars, seen>>
        /\ QueueTypeOK'
    BY DEF ReceiverStep, queueVars, TypeOK, QueueTypeOK
  <1>3. \A n \in Nat, key \in BOOLEAN :
            /\ FrameAt(n, key, t) \in Event
            /\ DiscEvent(0, fec_epoch, discs + 1, Src(t)) \in Event
    BY SMTT(30), <1>1, EventTypes DEF FrameAt, TypeOK
  <1>4. pos + 1 \in Nat /\ pos + 2 \in Nat /\ pos + 3 \in Nat /\ discs + 1 \in Nat
    BY DEF TypeOK
  <1> DEFINE Scalars == /\ pos \in Nat /\ discs \in Nat /\ hfd \in Nat /\ last_acked \in Nat
                        /\ held \in BOOLEAN /\ stale_anchor \in BOOLEAN
                        /\ awaiting_idr \in BOOLEAN /\ needs_idr \in BOOLEAN
                        /\ acks \in [Threads -> Nat]
             Batches == batch \in [Threads -> Seq(Event)]
  <1>5. Scalars /\ Batches
    BY DEF TypeOK
  <1>6. ASSUME NEW key \in BOOLEAN, EmitFrame(t, key)
        PROVE  Scalars' /\ Batches'
    <2>1. Batches'
      BY <1>1, <1>3, <1>4, <1>6, OutType, ShortSeqs DEF EmitFrame
    <2> QED
      BY <1>4, <1>5, <1>6, <2>1 DEF EmitFrame
  <1>7. ASSUME NEW k1 \in BOOLEAN, NEW k2 \in BOOLEAN, FillGap(t, k1, k2)
        PROVE  Scalars' /\ Batches'
    <2>1. Batches'
      BY <1>1, <1>3, <1>4, <1>7, OutType, ShortSeqs DEF FillGap
    <2> QED
      BY <1>4, <1>5, <1>7, <2>1 DEF FillGap
  <1>8. ASSUME FillStaleAnchor(t) PROVE Scalars' /\ Batches'
    <2>1. Batches'
      BY <1>1, <1>3, <1>4, <1>8, OutType, ShortSeqs DEF FillStaleAnchor
    <2> QED
      BY <1>4, <1>5, <1>8, <2>1 DEF FillStaleAnchor
  <1>9. ASSUME NEW crc \in BOOLEAN, EmitDiscontinuity(t, crc)
        PROVE  Scalars' /\ Batches'
    <2>1. Batches'
      BY <1>1, <1>3, <1>4, <1>9, OutType, ShortSeqs DEF EmitDiscontinuity
    <2> QED
      BY <1>4, <1>5, <1>9, <2>1 DEF EmitDiscontinuity, Discontinue
  <1>10. ASSUME HoldFrame(t) \/ DropAwaitingIdr(t) PROVE Scalars' /\ Batches'
    BY <1>4, <1>5, <1>10 DEF HoldFrame, DropAwaitingIdr
  <1>11. ASSUME OvertakeKey(t) PROVE Scalars' /\ Batches'
    <2>1. Batches'
      BY <1>1, <1>3, <1>4, <1>11, OutType, ShortSeqs DEF OvertakeKey
    <2> QED
      BY <1>4, <1>5, <1>11, <2>1 DEF OvertakeKey
  <1>12. Scalars' /\ Batches'
    BY <1>6, <1>7, <1>8, <1>9, <1>10, <1>11 DEF ReceiverStep
  <1> QED
    BY <1>2, <1>12 DEF TypeOK, leaseVars, fecVars, pollVars

\* So does an expired reorder wait or a tick's ACK.
LEMMA TickTypes ==
    ASSUME TypeOK, NEW t \in {"c", "tick"}, TickCompute(t)
    PROVE  /\ pos' \in Nat /\ discs' \in Nat /\ hfd' \in Nat /\ last_acked' \in Nat
           /\ held' \in BOOLEAN /\ stale_anchor' \in BOOLEAN
           /\ awaiting_idr' \in BOOLEAN /\ needs_idr' \in BOOLEAN
           /\ rxHolder' \in {"none", "c", "cb"}
           /\ batch' \in [Threads -> Seq(Event)]
           /\ acks' \in [Threads -> Nat]
  <1>1. t \in Threads /\ Src(t) \in Sources
    BY DEF Threads, Src, Sources
  <1>2. pos + 1 \in Nat /\ pos + 2 \in Nat /\ discs + 1 \in Nat
    BY DEF TypeOK
  <1>3. DiscEvent(0, fec_epoch, discs + 1, Src(t)) \in Event
    BY <1>1, EventTypes DEF TypeOK
  <1>4. ReorderGap(t) => batch' \in [Threads -> Seq(Event)]
    BY <1>1, <1>3, OutType, ShortSeqs DEF ReorderGap
  <1>5. ReorderGap(t) => /\ pos' \in Nat /\ discs' \in Nat /\ held' \in BOOLEAN
                         /\ stale_anchor' \in BOOLEAN /\ awaiting_idr' \in BOOLEAN
                         /\ needs_idr' \in BOOLEAN
    BY <1>2 DEF ReorderGap, Discontinue, TypeOK
  <1>6. TickAck(t) => last_acked' \in Nat /\ acks' \in [Threads -> Nat]
    BY <1>1 DEF TickAck, TypeOK
  <1> QED
    BY <1>4, <1>5, <1>6 DEF TickCompute, TypeOK

\* TypeOK is an invariant by itself: one step per action of Next.
LEMMA TypeStep ==
    TypeOK /\ [Next]_vars => TypeOK'
  <1> SUFFICES ASSUME TypeOK, [Next]_vars PROVE TypeOK'
    OBVIOUS
  <1> USE DEF Threads
  <1>1. ASSUME NEW t \in {"c", "cb"}, ReceiverStep(t) PROVE TypeOK'
    BY <1>1, ReceiverTypes
  <1>2. ASSUME NEW t \in {"c", "cb"}, UnlockReceiver(t) PROVE TypeOK'
    BY <1>2 DEF UnlockReceiver, TypeOK, QueueTypeOK, queueVars, rxVars, frameVars,
                leaseVars, fecVars, pollVars
  <1>3. ASSUME NEW t \in Threads, ConsumeEvent(t) PROVE TypeOK'
    <2>1. Head(batch[t]) \in Event /\ Tail(batch[t]) \in Seq(Event)
      BY <1>3, HeadTailProperties DEF ConsumeEvent, TypeOK
    <2>2. batch' \in [Threads -> Seq(Event)]
      BY <1>3, <2>1 DEF ConsumeEvent, TypeOK
    <2>3. QueueTypeOK'
      BY <1>3, <2>1, PushTypes DEF ConsumeEvent, TypeOK, QueueTypeOK, queueVars
    <2>4. v2_key_gate' \in BOOLEAN
      BY <1>3 DEF ConsumeEvent, TypeOK
    <2> QED
      BY <1>3, <2>2, <2>3, <2>4
      DEF ConsumeEvent, TypeOK, rxVars, frameVars, leaseVars, pollVars
  <1>4. ASSUME NEW t \in Threads, ConsumeAck(t) PROVE TypeOK'
    BY <1>4 DEF ConsumeAck, NoAck, TypeOK, QueueTypeOK, queueVars, rxVars, frameVars,
                leaseVars, fecVars
  <1>5. CASE OnMessage \/ OnStandaloneMessage \/ StandaloneReturn
    <2> USE DEF TypeOK, QueueTypeOK, queueVars, rxVars, frameVars, fecVars, pollVars
    <2>1. ASSUME NEW t \in Threads, AdvanceAck(t)
          PROVE  hfd' \in Nat /\ last_acked' \in Nat /\ acks' \in [Threads -> Nat]
      <3>1. hfd' \in Nat
        BY <2>1, RxAssumption DEF AdvanceAck
      <3> QED
        BY <2>1, <3>1 DEF AdvanceAck
    <2>2. CASE OnMessage
      BY <2>1, <2>2 DEF OnMessage, leaseVars
    <2>4. CASE OnStandaloneMessage
      BY <2>1, <2>4 DEF OnStandaloneMessage
    <2>3. CASE StandaloneReturn
      BY <2>3 DEF StandaloneReturn
    <2> QED
      BY <1>5, <2>2, <2>3, <2>4
  <1>6. CASE Tick
    BY <1>6, TickTypes DEF Tick, TypeOK, QueueTypeOK, queueVars, leaseVars,
                           fecVars, pollVars
  <1>7. CASE OnStandaloneTick
    BY <1>7, TickTypes DEF OnStandaloneTick, TypeOK, QueueTypeOK, queueVars,
                           fecVars, pollVars
  <1>8. CASE AcquireSessionLease
    BY <1>8 DEF AcquireSessionLease, Phases, TypeOK, QueueTypeOK, queueVars,
                rxVars, frameVars, fecVars, pollVars
  <1>9. CASE BeginFecNegotiation
    BY <1>9 DEF BeginFecNegotiation, Phases, Codecs, NoAck, NoRecovery, TypeOK,
                QueueTypeOK
  <1>10. CASE DrainBeforeSession
    <2>1. QueueTypeOK'
      <3>1. << >> \in Seq(Event)
        OBVIOUS
      <3>2. QueueTypeOK /\ events' = << >> /\ overflowed' = FALSE
            /\ UNCHANGED <<closed, next_generation, recovery>>
        BY <1>10 DEF DrainBeforeSession, TypeOK
      <3> QED
        BY <3>1, <3>2 DEF QueueTypeOK
    <2>2. seen' \in Seen
      BY <1>10, Zenon DEF DrainBeforeSession, Seen
    <2> HIDE DEF Threads
    <2>3. rxVars' = rxVars /\ fecVars' = fecVars /\ pollVars' = pollVars
          /\ rxHolder' = rxHolder /\ batch' = batch /\ acks' = acks
          /\ leaseHolder' = leaseHolder /\ active' = active /\ sess' \in Phases
          /\ ever_started' = ever_started /\ lease_closed' = lease_closed
      BY <1>10 DEF DrainBeforeSession, Phases
    <2> QED
      BY <2>1, <2>2, <2>3 DEF TypeOK, rxVars, frameVars, fecVars, pollVars
  <1>11. ASSUME NEW e \in Epochs, ConfigureFec(e) PROVE TypeOK'
    BY <1>11, QueueAssumption DEF ConfigureFec, Phases, Codecs, TypeOK,
                 QueueTypeOK, queueVars, rxVars, frameVars, pollVars
  <1>12. CASE Close
    BY <1>12 DEF Close, CloseQueue, TypeOK, QueueTypeOK, rxVars, frameVars, fecVars, pollVars
  <1>13. CASE SessionEnd
    BY ZenonT(60), <1>13 DEF SessionEnd, CloseQueue, Phases, TypeOK, QueueTypeOK, rxVars, frameVars,
                 fecVars, pollVars
  <1>14. CASE PollAck \/ RequestIdr
    <2> USE DEF TypeOK, QueueTypeOK, queueVars, rxVars, frameVars, leaseVars, fecVars
    <2>1. CASE PollAck
      BY <2>1 DEF PollAck, NoAck
    <2>2. CASE RequestIdr
      BY <2>2 DEF RequestIdr
    <2> QED
      BY <1>14, <2>1, <2>2
  <1>15. CASE PollNeedsIdr
    BY ZenonT(60), <1>15 DEF PollNeedsIdr, TypeOK, QueueTypeOK, leaseVars, fecVars
  <1>16. CASE ConsumerPop
    <2>1. Head(events) \in Event /\ Tail(events) \in Seq(Event)
      BY <1>16, HeadTailProperties DEF ConsumerPop, PopEvent, TypeOK, QueueTypeOK
    <2> QED
      BY <1>16, <2>1 DEF ConsumerPop, PopEvent, Seen, TypeOK, QueueTypeOK,
                 coreVars, rxVars, frameVars, leaseVars, fecVars, pollVars
  <1>17. CASE ConsumerAck
    BY <1>17 DEF ConsumerAck, AcknowledgeRecovery, NoRecovery, TypeOK, QueueTypeOK,
                 coreVars, rxVars, frameVars, leaseVars, fecVars, pollVars
  <1>18. CASE UNCHANGED vars
    BY <1>18 DEF vars, TypeOK, QueueTypeOK, queueVars, coreVars, rxVars, frameVars,
                 leaseVars, fecVars, pollVars
  <1> QED
    BY <1>1, <1>2, <1>3, <1>4, <1>5, <1>6, <1>7, <1>8, <1>9, <1>10, <1>11,
       <1>12, <1>13, <1>14, <1>15, <1>16, <1>17, <1>18
    DEF Next, SessionIngress, StandaloneIngress, Lifecycle, Consumer, Ingress

\* Init is well typed.
LEMMA TypeInit == Init => TypeOK
  <1> SUFFICES ASSUME Init PROVE TypeOK
    OBVIOUS
  <1>1. QueueTypeOK
    BY EmptySeq DEF Init, QueueInit, NoRecovery, QueueTypeOK
  <1>2. batch \in [Threads -> Seq(Event)] /\ acks \in [Threads -> Nat] /\ seen \in Seen
    BY EmptySeq DEF Init, CoreInit, NoAck, Seen
  <1> QED
    BY <1>1, <1>2 DEF Init, CoreInit, NoAck, Phases, Codecs, TypeOK

\* Every reachable state of the shared receiver is well typed, for every
\* capacity and every bound (capi.rs, frame_queue.rs).
THEOREM Typing == Spec => []TypeOK
  BY TypeInit, TypeStep, PTL DEF Spec

-----------------------------------------------------------------------------
(* Phases and locks.                                                       *)

\* Init is the phase before any session.
LEMMA PhaseInit == Init => PhaseInv /\ ReceiverInv
  BY DEF Init, QueueInit, CoreInit, PhaseInv, ReceiverInv, Threads

\* A thread inside the receiver leaves the locks, the queue and the batches
\* of the other threads alone.
LEMMA ReceiverFrame ==
    ASSUME TypeOK, NEW t \in {"c", "cb"}, ReceiverStep(t)
    PROVE  /\ rxHolder = t
           /\ \A u \in Threads : u # t => batch'[u] = batch[u]
           /\ UNCHANGED <<queueVars, rxHolder, leaseVars, fecVars, pollVars, seen>>
  <1>1. t \in Threads /\ batch \in [Threads -> Seq(Event)]
    BY DEF Threads, TypeOK
  <1>2. rxHolder = t /\ \A u \in Threads : u # t => batch'[u] = batch[u]
    BY <1>1 DEF ReceiverStep, EmitFrame, HoldFrame, FillGap, DropAwaitingIdr,
                FillStaleAnchor, OvertakeKey, EmitDiscontinuity, Out
  <1> QED
    BY <1>2 DEF ReceiverStep

\* So does a tick that computes its events.
LEMMA TickFrame ==
    ASSUME TypeOK, NEW t \in {"c", "tick"}, TickCompute(t)
    PROVE  /\ rxHolder = "none" /\ rxHolder' = "none"
           /\ \A u \in Threads : u # t => batch'[u] = batch[u]
           /\ batch[t] = << >>
           /\ \/ UNCHANGED <<batch, pos, held, awaiting_idr, stale_anchor>>
              \/ /\ batch'[t] = << DiscEvent(0, fec_epoch, discs + 1, Src(t)) >>
                 /\ held' = FALSE /\ awaiting_idr' = TRUE /\ stale_anchor' = FALSE
  <1>1. t \in Threads /\ batch \in [Threads -> Seq(Event)] /\ Src(t) \in Sources
    BY DEF Threads, TypeOK, Src, Sources
  <1>2. rxHolder = "none" /\ rxHolder' = "none" /\ batch[t] = << >>
    BY DEF TickCompute, Idle
  <1>3. CASE ReorderGap(t)
    <2> DEFINE d == DiscEvent(0, fec_epoch, discs + 1, Src(t))
    <2>1. d \in Event
      BY <1>1, EventTypes DEF TypeOK
    <2> HIDE DEF d
    <2>2. << >> \o << d >> = << d >>
      BY <2>1, ShortSeqs, ConcatEmptySeq
    <2>3. batch' = [batch EXCEPT ![t] = @ \o << d >>]
      BY <1>3 DEF ReorderGap, Out, d
    <2>4. batch'[t] = << d >> /\ \A u \in Threads : u # t => batch'[u] = batch[u]
      BY <1>1, <1>2, <2>2, <2>3
    <2>5. held' = FALSE /\ awaiting_idr' = TRUE /\ stale_anchor' = FALSE
      BY <1>3 DEF ReorderGap, Discontinue
    <2> QED
      BY <1>2, <2>4, <2>5 DEF d
  <1>4. CASE UNCHANGED <<pos, held, awaiting_idr, stale_anchor, batch>>
    BY <1>2, <1>4
  <1> QED
    BY <1>3, <1>4 DEF TickCompute

\* One step per action: each keeps the correspondence of phase and locks.
LEMMA PhaseStep ==
    TypeOK /\ PhaseInv /\ [Next]_vars => PhaseInv'
  <1> SUFFICES ASSUME TypeOK, PhaseInv, [Next]_vars PROVE PhaseInv'
    OBVIOUS
  <1>1. ASSUME NEW t \in {"c", "cb"}, ReceiverStep(t) PROVE PhaseInv'
    <2>1. /\ rxHolder = t /\ UNCHANGED <<queueVars, rxHolder, leaseVars, fecVars, seen>>
          /\ t # "cb" => batch'["cb"] = batch["cb"]
          /\ t # "c" => batch'["c"] = batch["c"]
          /\ batch'["tick"] = batch["tick"]
      BY <1>1, ReceiverFrame DEF Threads
    <2> QED
      BY <2>1 DEF PhaseInv, queueVars, leaseVars, fecVars
  <1>2. ASSUME NEW t \in {"c", "cb"}, UnlockReceiver(t) PROVE PhaseInv'
    BY <1>2 DEF UnlockReceiver, PhaseInv, queueVars, rxVars, frameVars, leaseVars, fecVars
  <1>3. ASSUME NEW t \in Threads, ConsumeEvent(t) PROVE PhaseInv'
    <2>1. /\ batch[t] # << >> /\ closed' = closed
          /\ \A u \in Threads : u # t => batch'[u] = batch[u]
          /\ UNCHANGED <<rxVars, rxHolder, leaseVars, codec, seen>>
      BY <1>3 DEF ConsumeEvent, TypeOK, PushFrame, PushDiscontinuity, queueVars
    <2>2. /\ t # "cb" => batch'["cb"] = batch["cb"]
          /\ t # "c" => batch'["c"] = batch["c"]
          /\ t # "tick" => batch'["tick"] = batch["tick"]
          /\ t \in {"c", "cb", "tick"}
      BY <2>1 DEF Threads
    <2>3. t = "c" => leaseHolder = "c"
      BY <2>1 DEF PhaseInv, TypeOK
    <2> QED
      BY <2>1, <2>2, <2>3 DEF PhaseInv, rxVars, frameVars, leaseVars
  <1>4. ASSUME NEW t \in Threads, ConsumeAck(t) PROVE PhaseInv'
    BY <1>4 DEF ConsumeAck, PhaseInv, queueVars, rxVars, frameVars, leaseVars, fecVars
  <1>5. CASE OnMessage
    BY <1>5 DEF OnMessage, PhaseInv, queueVars, rxVars, frameVars, leaseVars, fecVars
  <1>6. CASE OnStandaloneMessage
    BY <1>6 DEF OnStandaloneMessage, PhaseInv, queueVars, rxVars, frameVars, fecVars
  <1>7. CASE StandaloneReturn
    BY <1>7 DEF StandaloneReturn, Idle, PhaseInv, TypeOK, queueVars, rxVars, frameVars, fecVars
  <1>8. CASE Tick
    <2>1. /\ rxHolder' = "none" /\ batch'["c"] = batch["c"] /\ sess = "streaming"
          /\ UNCHANGED <<queueVars, leaseVars, fecVars, seen>>
      BY <1>8, TickFrame DEF Tick, Threads
    <2> QED
      BY <2>1 DEF PhaseInv, queueVars, leaseVars, fecVars
  <1>9. CASE OnStandaloneTick
    <2>1. /\ rxHolder' = "none" /\ leaseHolder' = "c" /\ ~active
          /\ batch'["cb"] = batch["cb"] /\ batch'["tick"] = batch["tick"]
          /\ UNCHANGED <<queueVars, active, ever_started, sess, fecVars, seen>>
      BY <1>9, TickFrame DEF OnStandaloneTick, Threads
    <2> QED
      BY <2>1 DEF PhaseInv, queueVars, fecVars
  <1>10. CASE AcquireSessionLease
    BY <1>10 DEF AcquireSessionLease, PhaseInv, queueVars, rxVars, frameVars, fecVars
  <1>11. CASE BeginFecNegotiation
    BY <1>11 DEF BeginFecNegotiation, PhaseInv
  <1>12. CASE DrainBeforeSession
    BY <1>12 DEF DrainBeforeSession, PhaseInv, rxVars, frameVars, fecVars
  <1>13. ASSUME NEW e \in Epochs, ConfigureFec(e) PROVE PhaseInv'
    BY <1>13 DEF ConfigureFec, PhaseInv, queueVars, rxVars, frameVars
  <1>14. CASE Close
    BY <1>14 DEF Close, CloseQueue, PhaseInv, rxVars, frameVars, fecVars
  <1>15. CASE SessionEnd
    BY <1>15 DEF SessionEnd, CloseQueue, Idle, PhaseInv, rxVars, frameVars, fecVars
  <1>16. CASE PollAck \/ RequestIdr \/ PollNeedsIdr
    BY <1>16 DEF PollAck, RequestIdr, PollNeedsIdr, PhaseInv, queueVars, rxVars, frameVars,
                 leaseVars, fecVars
  <1>17. CASE ConsumerPop
    BY <1>17 DEF ConsumerPop, PopEvent, PhaseInv, coreVars, rxVars, frameVars, leaseVars, fecVars
  <1>18. CASE ConsumerAck
    BY <1>18 DEF ConsumerAck, AcknowledgeRecovery, PhaseInv, coreVars, rxVars, frameVars,
                 leaseVars, fecVars
  <1>19. CASE UNCHANGED vars
    BY <1>19 DEF vars, PhaseInv, queueVars, coreVars, rxVars, frameVars, leaseVars, fecVars
  <1> QED
    BY <1>1, <1>2, <1>3, <1>4, <1>5, <1>6, <1>7, <1>8, <1>9, <1>10, <1>11,
       <1>12, <1>13, <1>14, <1>15, <1>16, <1>17, <1>18, <1>19
    DEF Next, SessionIngress, StandaloneIngress, Lifecycle, Consumer, Ingress, Threads

-----------------------------------------------------------------------------
(* Generations.                                                            *)

\* Init has an empty queue and no recovery.
LEMMA GenInit == Init => GenInv
  BY DEF Init, QueueInit, CoreInit, GenInv, GenerationsOrdered, Start, NoRecovery

\* What TypeOK says of the elements of the queue.
LEMMA QueueFacts ==
    ASSUME TypeOK
    PROVE  /\ events \in Seq(Event) /\ Len(events) \in Nat /\ next_generation \in Nat
           /\ \A i \in 1..Len(events) : events[i] \in Event
           /\ \A i \in 1..Len(events) : events[i].gen \in Nat
           /\ events # << >> => Len(events) # 0
           /\ seen.gen \in Nat
  <1>1. events \in Seq(Event) /\ next_generation \in Nat /\ seen \in Seen
    BY DEF TypeOK, QueueTypeOK
  <1>2. /\ Len(events) \in Nat /\ events # << >> => Len(events) # 0
        /\ \A i \in 1..Len(events) : events[i] \in Event
    BY <1>1, ElementOfSeq, EmptySeq, LenProperties
  <1>3. \A e \in Event : e.gen \in Nat
    BY DEF Event
  <1>4. seen.gen \in Nat
    BY <1>1, <1>3 DEF Seen, Start
  <1> QED
    BY <1>1, <1>2, <1>3, <1>4

\* A push keeps the order of generations: a reset gets the next one.
LEMMA PushGen ==
    ASSUME TypeOK, GenInv, NEW ev \in Event, UNCHANGED <<seen, sess>>,
           \/ ev.kind = "frame" /\ PushFrame(ev)
           \/ ev.kind = "disc" /\ PushDiscontinuity(ev)
    PROVE  GenInv'
  <1> DEFINE g == next_generation + 1
  <1>1. /\ events \in Seq(Event) /\ next_generation \in Nat /\ g \in Nat
        /\ Len(events) \in Nat /\ ev.epoch \in Nat
        /\ \A i \in 1..Len(events) : events[i] \in Event /\ events[i].gen \in Nat
        /\ seen.gen \in Nat
    <2>1. ev.epoch \in Nat
      BY DEF Event
    <2> QED
      BY <2>1, QueueFacts
  <1>2. CASE UNCHANGED queueVars
    BY <1>2 DEF queueVars, GenInv, GenerationsOrdered
  <1>3. CASE /\ ev.kind = "frame" /\ events' = Append(events, ev)
             /\ UNCHANGED <<closed, overflowed, next_generation, recovery>>
    <2>1. Len(events') = Len(events) + 1 /\ events'[Len(events) + 1].kind = "frame"
          /\ \A i \in 1..Len(events) : events'[i] = events[i]
      BY <1>1, <1>3, AppendProperties
    <2>2. \A i \in 1..Len(events') : events'[i].kind = "disc" =>
              i \in 1..Len(events) /\ events'[i] = events[i]
      BY <1>1, <2>1
    <2> QED
      BY <1>1, <1>3, <2>1, <2>2 DEF GenInv, GenerationsOrdered
  <1>4. CASE /\ events' = << DiscEvent(g, ev.epoch, 0, "queue"), ev >>
             /\ ev.kind = "frame"
             /\ OpenRecoveryLocked(ev.epoch)
    <2>1. /\ Len(events') = 2 /\ events'[2].kind = "frame" /\ events'[1].gen = g
          /\ events'[1].kind = "disc" /\ events'[1].epoch = ev.epoch
      BY <1>4 DEF DiscEvent
    <2>2. \A i \in 1..Len(events') : events'[i].kind = "disc" => i = 1
      BY <2>1
    <2>3. next_generation' = g /\ recovery' = [gen |-> g, epoch |-> ev.epoch]
      BY <1>4 DEF OpenRecoveryLocked
    <2> QED
      BY <1>1, <2>1, <2>2, <2>3 DEF GenInv, GenerationsOrdered
  <1>5. CASE /\ PushDiscontinuity(ev) /\ ~closed
    <2> DEFINE reset == [ev EXCEPT !.gen = g]
    <2>1. reset \in Event /\ reset.gen = g /\ reset.epoch = ev.epoch
      BY <1>1, StampedReset
    <2> HIDE DEF reset
    <2>2. next_generation' = g /\ recovery' = [gen |-> g, epoch |-> ev.epoch]
      BY <1>5 DEF PushDiscontinuity, OpenRecoveryLocked
    <2>3. CASE events' = << reset >>
      <3>1. Len(events') = 1 /\ events'[1] = reset
        BY <2>3
      <3> QED
        BY <1>1, <2>1, <2>2, <3>1 DEF GenInv, GenerationsOrdered
    <2>4. CASE events' = Append(events, reset)
      <3>1. Len(events') = Len(events) + 1 /\ events'[Len(events) + 1] = reset
            /\ \A i \in 1..Len(events) : events'[i] = events[i]
        BY <1>1, <2>1, <2>4, AppendProperties
      <3>2. \A i \in 1..Len(events') :
                \/ i \in 1..Len(events) /\ events'[i] = events[i]
                \/ i = Len(events) + 1 /\ events'[i] = reset
        BY <1>1, <3>1
      <3>3. /\ seen'.kind = "disc" => seen'.gen <= next_generation'
            /\ recovery' # NoRecovery => recovery'.gen = next_generation'
        BY <1>1, <2>2 DEF GenInv
      <3>4. ASSUME NEW i \in 1..Len(events'), events'[i].kind = "disc"
            PROVE  /\ events'[i].gen <= next_generation'
                   /\ seen'.kind = "disc" => seen'.gen < events'[i].gen
                   /\ events'[i].gen = next_generation' =>
                         recovery' = [gen |-> events'[i].gen, epoch |-> events'[i].epoch]
        BY <1>1, <2>1, <2>2, <3>2, <3>4 DEF GenInv
      <3>5. ASSUME NEW i \in 1..Len(events'), NEW j \in 1..Len(events'), i < j,
                   events'[i].kind = "disc", events'[j].kind = "disc"
            PROVE  events'[i].gen < events'[j].gen
        <4>1. i \in 1..Len(events) /\ events'[i] = events[i]
          BY <1>1, <3>1, <3>2, <3>5
        <4>2. CASE j \in 1..Len(events) /\ events'[j] = events[j]
          BY <3>5, <4>1, <4>2 DEF GenInv, GenerationsOrdered
        <4>3. CASE events'[j] = reset
          <5>1. events[i].gen \in Nat /\ events[i].gen <= next_generation
            BY <1>1, <3>5, <4>1 DEF GenInv
          <5> QED
            BY <1>1, <2>1, <4>1, <4>3, <5>1
        <4> QED
          BY <3>2, <4>2, <4>3
      <3> QED
        BY <3>3, <3>4, <3>5 DEF GenInv, GenerationsOrdered
    <2> QED
      BY <1>5, <2>3, <2>4 DEF PushDiscontinuity, reset
  <1> QED
    BY <1>2, <1>3, <1>4, <1>5 DEF PushFrame, PushDiscontinuity

\* What any consumer's pop does: it may latch a request for an IDR.
Popping ==
    /\ PopEvent /\ seen' = Head(events) /\ decode_needs_idr' \in BOOLEAN
    /\ UNCHANGED <<rxVars, rxHolder, batch, acks, leaseVars, fecVars, pending_ack>>

\* wait_event and try_event (ConsumerPop) are such pops.
LEMMA PopIsPopping ==
    ASSUME TypeOK, ConsumerPop
    PROVE  Popping
  BY DEF ConsumerPop, Popping, coreVars, pollVars, TypeOK

\* A pop hands the oldest generation to the consumer.
LEMMA PopGen ==
    ASSUME TypeOK, GenInv, Popping
    PROVE  GenInv'
  <1>1. events # << >>
    BY DEF Popping, PopEvent
  <1>2. /\ Len(events') = Len(events) - 1
        /\ \A i \in 1..Len(events') : events'[i] = events[i + 1]
        /\ seen' = events[1]
    BY <1>1, QueueFacts, HeadTailProperties DEF Popping, PopEvent
  <1>3. UNCHANGED <<next_generation, recovery, sess>>
    BY DEF Popping, PopEvent, leaseVars
  <1>4. 1 \in 1..Len(events) /\ \A i \in 1..Len(events') : i + 1 \in 1..Len(events)
    BY <1>1, <1>2, QueueFacts
  <1>5. /\ seen'.kind = "disc" => seen'.gen <= next_generation'
        /\ recovery' # NoRecovery => recovery'.gen = next_generation'
    BY <1>2, <1>3, <1>4 DEF GenInv, GenerationsOrdered
  <1>6. ASSUME NEW i \in 1..Len(events'), events'[i].kind = "disc"
        PROVE  /\ events'[i].gen <= next_generation'
               /\ seen'.kind = "disc" => seen'.gen < events'[i].gen
               /\ sess' # "draining" /\ events'[i].gen = next_generation' =>
                     recovery' = [gen |-> events'[i].gen, epoch |-> events'[i].epoch]
    <2>1. i + 1 \in 1..Len(events) /\ events'[i] = events[i + 1] /\ 1 < i + 1
      BY <1>2, <1>4
    <2> QED
      BY <1>2, <1>3, <1>4, <1>6, <2>1 DEF GenInv, GenerationsOrdered
  <1>7. ASSUME NEW i \in 1..Len(events'), NEW j \in 1..Len(events'), i < j,
               events'[i].kind = "disc", events'[j].kind = "disc"
        PROVE  events'[i].gen < events'[j].gen
    <2>1. i + 1 \in 1..Len(events) /\ j + 1 \in 1..Len(events) /\ i + 1 < j + 1
      BY <1>4, <1>7
    <2> QED
      BY <1>2, <1>7, <2>1 DEF GenInv, GenerationsOrdered
  <1> QED
    BY <1>5, <1>6, <1>7 DEF GenInv, GenerationsOrdered

\* An acknowledgement closes the newest recovery, whose reset is not queued
\* any more, or nothing (acknowledge_recovery).
LEMMA AckGen ==
    ASSUME TypeOK, GenInv, NEW g, NEW e, AcknowledgeRecovery(g, e), UNCHANGED <<sess, seen>>,
           \A i \in 1..Len(events) : events[i].kind = "disc" => events[i].gen # g
    PROVE  GenInv'
  <1>1. UNCHANGED <<events, next_generation, sess, seen>>
    BY DEF AcknowledgeRecovery
  <1>2. CASE recovery' = recovery
    BY <1>1, <1>2 DEF GenInv, GenerationsOrdered
  <1>3. CASE recovery = [gen |-> g, epoch |-> e]
             /\ recovery' = NoRecovery /\ recovery # NoRecovery
    <2>1. recovery.gen = g /\ recovery.gen = next_generation
      BY <1>3 DEF GenInv, GenerationsOrdered
    <2>2. \A i \in 1..Len(events) : events[i].kind = "disc" => events[i].gen # next_generation
      BY <2>1
    <2> QED
      BY <1>1, <1>3, <2>2 DEF GenInv, GenerationsOrdered
  <1> QED
    BY <1>2, <1>3 DEF AcknowledgeRecovery

\* The reset that was popped last is not queued.
LEMMA PoppedNotQueued ==
    ASSUME TypeOK, GenInv, ConsumerAck
    PROVE  GenInv'
  <1>1. \A i \in 1..Len(events) : events[i].kind = "disc" => events[i].gen # seen.gen
    BY QueueFacts DEF GenInv, ConsumerAck, TypeOK, Seen, Event, Start
  <1> QED
    BY <1>1, AckGen DEF ConsumerAck, coreVars, leaseVars

\* One step per action that touches the queue, the consumer or the phase.
LEMMA GenStep ==
    TypeOK /\ PhaseInv /\ GenInv /\ [Next]_vars => GenInv'
  <1> SUFFICES ASSUME TypeOK, PhaseInv, GenInv, [Next]_vars PROVE GenInv'
    OBVIOUS
  <1>1. ASSUME NEW t \in Threads, ConsumeEvent(t) PROVE GenInv'
    <2>1. Head(batch[t]) \in Event
      BY <1>1, HeadTailProperties DEF ConsumeEvent, TypeOK
    <2>2. UNCHANGED <<seen, sess>>
      BY <1>1 DEF ConsumeEvent, leaseVars
    <2>3. CASE UNCHANGED queueVars
      BY <2>2, <2>3 DEF queueVars, GenInv, GenerationsOrdered
    <2> QED
      BY <1>1, <2>1, <2>2, <2>3, PushGen DEF ConsumeEvent
  <1>2. CASE ConsumerPop
    BY <1>2, PopIsPopping, PopGen
  <1>3. CASE ConsumerAck
    BY <1>3, PoppedNotQueued
  <1>4. CASE BeginFecNegotiation
    BY <1>4 DEF BeginFecNegotiation, GenInv, GenerationsOrdered
  <1>5. CASE DrainBeforeSession
    <2>1. /\ Len(events') = 0 /\ seen'.kind # "disc"
          /\ UNCHANGED <<recovery, next_generation>>
      BY <1>5 DEF DrainBeforeSession, Start
    <2> QED
      BY <2>1 DEF GenInv, GenerationsOrdered
  <1>6. CASE /\ UNCHANGED <<events, next_generation, recovery, seen>>
             /\ sess' = "draining" \/ sess # "draining"
    BY <1>6 DEF GenInv, GenerationsOrdered
  <1>7. ASSUME NEW t \in {"c", "cb"}, ReceiverStep(t) \/ UnlockReceiver(t) PROVE GenInv'
    BY <1>6, <1>7 DEF ReceiverStep, UnlockReceiver, queueVars, leaseVars
  <1>8. ASSUME NEW t \in Threads, ConsumeAck(t) PROVE GenInv'
    BY <1>6, <1>8 DEF ConsumeAck, queueVars, leaseVars
  <1>9. CASE \/ OnMessage \/ Tick \/ OnStandaloneMessage \/ OnStandaloneTick
             \/ StandaloneReturn
    BY <1>6, <1>9 DEF OnMessage, Tick, OnStandaloneMessage, OnStandaloneTick,
                      StandaloneReturn, queueVars, leaseVars
  <1>10. CASE AcquireSessionLease
    BY <1>6, <1>10 DEF AcquireSessionLease, PhaseInv, queueVars
  <1>11. ASSUME NEW e \in Epochs, ConfigureFec(e) PROVE GenInv'
    BY <1>6, <1>11 DEF ConfigureFec, queueVars
  <1>12. CASE Close \/ SessionEnd
    BY <1>6, <1>12 DEF Close, SessionEnd, CloseQueue
  <1>13. CASE PollAck \/ RequestIdr \/ PollNeedsIdr \/ UNCHANGED vars
    BY <1>6, <1>13 DEF PollAck, RequestIdr, PollNeedsIdr, vars, coreVars, queueVars,
                       leaseVars
  <1> QED
    BY <1>1, <1>2, <1>3, <1>4, <1>5, <1>7, <1>8, <1>9, <1>10, <1>11, <1>12, <1>13
    DEF Next, SessionIngress, StandaloneIngress, Lifecycle, Consumer, Ingress, Threads

-----------------------------------------------------------------------------
(* The receiver's part, and who produced what.                             *)

\* One step per action that emits or holds frames.
LEMMA ReceiverInvStep ==
    TypeOK /\ PhaseInv /\ ReceiverInv /\ [Next]_vars => ReceiverInv'
  <1> SUFFICES ASSUME TypeOK, PhaseInv, ReceiverInv, [Next]_vars PROVE ReceiverInv'
    OBVIOUS
  <1>1. CASE UNCHANGED <<held, awaiting_idr, batch>>
    BY <1>1 DEF ReceiverInv
  <1>2. ASSUME NEW t \in {"c", "cb"}, ReceiverStep(t) PROVE ReceiverInv'
    <2>1. batch'["tick"] = batch["tick"]
      BY <1>2, ReceiverFrame DEF Threads
    <2>2. held' => ~awaiting_idr'
      BY <1>2 DEF ReceiverInv, ReceiverStep, EmitFrame, HoldFrame, FillGap,
                  DropAwaitingIdr, FillStaleAnchor, OvertakeKey, EmitDiscontinuity,
                  Discontinue
    <2> QED
      BY <2>1, <2>2 DEF ReceiverInv
  <1>3. ASSUME NEW t \in Threads, ConsumeEvent(t) PROVE ReceiverInv'
    <2>1. /\ batch' = [batch EXCEPT ![t] = Tail(batch[t])] /\ batch[t] # << >>
          /\ UNCHANGED <<held, awaiting_idr>>
          /\ "tick" \in Threads /\ batch \in [Threads -> Seq(Event)]
      BY <1>3 DEF ConsumeEvent, rxVars, frameVars, Threads, TypeOK
    <2>2. CASE t # "tick"
      BY <2>1, <2>2 DEF ReceiverInv
    <2>3. CASE t = "tick"
      <3>1. /\ batch'["tick"] = Tail(batch["tick"]) /\ batch["tick"] \in Seq(Event)
            /\ batch["tick"] # << >> /\ Len(batch["tick"]) \in Nat
        BY <2>1, <2>3
      <3>2. /\ Len(batch'["tick"]) = Len(batch["tick"]) - 1
            /\ \A i \in 1..Len(batch'["tick"]) : batch'["tick"][i] = batch["tick"][i + 1]
        BY <3>1, HeadTailProperties
      <3>3. \A i \in 1..Len(batch'["tick"]) : i + 1 \in 1..Len(batch["tick"])
        BY <3>1, <3>2
      <3> QED
        BY <2>1, <3>2, <3>3 DEF ReceiverInv
    <2> QED
      BY <2>2, <2>3
  <1>4. CASE Tick
    <2>1. \/ UNCHANGED <<held, awaiting_idr, batch>>
          \/ /\ held' = FALSE
             /\ batch'["tick"] = << DiscEvent(0, fec_epoch, discs + 1, Src("tick")) >>
      BY <1>4, TickFrame DEF Tick
    <2> QED
      BY <1>1, <2>1 DEF ReceiverInv, DiscEvent
  <1>5. CASE OnStandaloneTick
    <2>1. /\ batch'["tick"] = batch["tick"]
          /\ held' = FALSE \/ UNCHANGED <<held, awaiting_idr>>
      BY <1>5, TickFrame DEF OnStandaloneTick, Threads
    <2> QED
      BY <2>1 DEF ReceiverInv
  <1>6. CASE BeginFecNegotiation
    BY <1>6 DEF BeginFecNegotiation, ReceiverInv
  <1>7. ASSUME NEW t \in Threads, ConsumeAck(t) \/ UnlockReceiver(t) PROVE ReceiverInv'
    BY <1>1, <1>7 DEF ConsumeAck, UnlockReceiver, rxVars, frameVars
  <1>8. ASSUME NEW e \in Epochs, ConfigureFec(e) PROVE ReceiverInv'
    BY <1>1, <1>8 DEF ConfigureFec, rxVars, frameVars
  <1>9. CASE \/ OnMessage \/ OnStandaloneMessage \/ StandaloneReturn
             \/ AcquireSessionLease \/ DrainBeforeSession \/ Close \/ SessionEnd
    BY <1>1, <1>9 DEF OnMessage, OnStandaloneMessage, StandaloneReturn, rxVars, frameVars,
                      AcquireSessionLease, DrainBeforeSession, Close, SessionEnd
  <1>10. CASE Consumer \/ UNCHANGED vars
    BY <1>1, <1>10 DEF Consumer, ConsumerPop, ConsumerAck, RequestIdr, PollAck,
                       PollNeedsIdr, vars, coreVars, rxVars, frameVars
  <1> QED
    BY <1>2, <1>3, <1>4, <1>5, <1>6, <1>7, <1>8, <1>9, <1>10
    DEF Next, SessionIngress, StandaloneIngress, Lifecycle, Ingress, Threads

-----------------------------------------------------------------------------
(* The pipeline from the receiver to the consumer.                         *)

\* The empty pipeline of a new receiver.
LEMMA PipelineInit == Init => Pipeline
  <1> SUFFICES ASSUME Init PROVE Pipeline
    OBVIOUS
  <1>1. /\ events = << >> /\ seen = Start /\ codec = "V1" /\ ~awaiting_idr
        /\ batch["c"] = << >> /\ batch["cb"] = << >>
    BY DEF Init, QueueInit, CoreInit, Threads
  <1>2. NoGapWithoutReset
    BY <1>1 DEF NoGapWithoutReset
  <1>3. Continues(<< >>)
    BY <1>1 DEF Continues, Linked, LastOut, LastQueued, Anchored, Start
  <1> QED
    BY <1>1, <1>2, <1>3 DEF Pipeline, Producer

\* An event that may follow the last one extends the batch.
LEMMA Extend ==
    ASSUME NEW b \in Seq(Event), NEW e \in Event, Linked(b),
           Gated(b) \/ Follows(LastOut(b), e)
    PROVE  /\ Append(b, e) \in Seq(Event) /\ Append(b, e) # << >>
           /\ Linked(Append(b, e)) /\ LastOut(Append(b, e)) = e
  <1> DEFINE c == Append(b, e)
  <1>1. /\ c \in Seq(Event) /\ c # << >> /\ Len(c) = Len(b) + 1 /\ Len(b) \in Nat
        /\ c[Len(b) + 1] = e /\ \A i \in 1..Len(b) : c[i] = b[i]
    BY AppendProperties
  <1> HIDE DEF c
  <1>2. LastOut(c) = e
    BY <1>1 DEF LastOut, LastOf
  <1>3. CASE b = << >>
    <2>1. Len(b) = 0
      BY <1>3
    <2> QED
      BY <1>1, <1>2, <1>3, <2>1 DEF Linked, Gated, LastOut, c
  <1>4. CASE b # << >>
    <2>1. Len(b) >= 1 /\ Follows(b[Len(b)], e)
      BY <1>4, EmptySeq DEF Gated, LastOut, LastOf
    <2>2. ASSUME NEW i \in 2..Len(c) PROVE Follows(c[i - 1], c[i])
      <3>1. CASE i \in 2..Len(b)
        BY <1>1, <3>1 DEF Linked
      <3>2. CASE i = Len(b) + 1
        BY <1>1, <2>1, <3>2
      <3> QED
        BY <1>1, <3>1, <3>2
    <2>3. c[1] = b[1]
      BY <1>1, <2>1
    <2> QED
      BY <1>1, <1>2, <1>4, <2>2, <2>3 DEF Linked, c
  <1> QED
    BY <1>3, <1>4

\* A batch of two is one event after the other.
LEMMA ConcatShort ==
    ASSUME NEW b \in Seq(Event), NEW e \in Event, NEW f \in Event
    PROVE  b \o <<e>> = Append(b, e) /\ b \o <<e, f>> = Append(Append(b, e), f)
  <1>1. b \o <<e>> = Append(b, e)
    BY AppendIsConcat
  <1>2. /\ <<e>> \in Seq(Event) /\ <<f>> \in Seq(Event)
        /\ <<e>> \o <<f>> = <<e, f>>
    <2>1. <<e>> \in Seq(Event) /\ <<f>> \in Seq(Event) /\ <<e, f>> \in Seq(Event)
      BY ShortSeqs
    <2>2. Len(<<e>>) = 1 /\ Len(<<f>>) = 1 /\ Len(<<e, f>>) = 2
          /\ <<e>>[1] = e /\ <<f>>[1] = f /\ <<e, f>>[1] = e /\ <<e, f>>[2] = f
      OBVIOUS
    <2> DEFINE x == <<e>>
               y == <<f>>
               z == <<e, f>>
    <2> HIDE DEF x, y, z
    <2>3. /\ x \o y \in Seq(Event) /\ Len(x \o y) = 2
          /\ (x \o y)[1] = e /\ (x \o y)[2] = f
      <3>1. /\ x \in Seq(Event) /\ y \in Seq(Event) /\ Len(x) = 1 /\ Len(y) = 1
            /\ x[1] = e /\ y[1] = f
        BY <2>1, <2>2 DEF x, y
      <3> QED
        BY SMTT(30), <3>1, ConcatProperties
    <2>4. z \in Seq(Event) /\ Len(z) = 2 /\ z[1] = e /\ z[2] = f
      BY <2>1, <2>2 DEF z
    <2>5. x \o y = z
      <3>1. \A i \in 1..2 : (x \o y)[i] = z[i]
        BY <2>3, <2>4
      <3> QED
        BY <2>3, <2>4, <3>1, SeqEqual
    <2> QED
      BY <2>1, <2>5 DEF x, y, z
  <1>3. Append(b, e) \in Seq(Event) /\ Append(Append(b, e), f) = Append(b, e) \o <<f>>
    BY AppendIsConcat, AppendProperties
  <1>4. (b \o <<e>>) \o <<f>> = b \o (<<e>> \o <<f>>)
    BY <1>2, ConcatAssociative
  <1> QED
    BY <1>1, <1>2, <1>3, <1>4

\* `c` is the batch after a step that leaves queue, consumer, codec and gate
\* alone; the receiver's new state must fit its end.
LEMMA Transfer ==
    ASSUME UNCHANGED <<events, seen, codec, v2_key_gate>>, NEW c,
           batch'[Producer'] = c, Linked(c),
           ~awaiting_idr' => \/ Gated(c) \/ LastOut(c).kind = "disc"
                             \/ LastOut(c).kind = "frame" /\ LastOut(c).n = pos'
                             \/ LastOut(c).kind = "start" /\ codec # "V2",
           awaiting_idr' /\ stale_anchor' => Gated(c) \/ LastOut(c).kind = "disc"
    PROVE  Continues(batch[Producer])'
  <1>1. /\ Linked(batch[Producer])'
        /\ LastOut(batch[Producer])' = LastOut(c)
        /\ Gated(batch[Producer])' <=> Gated(c)
    BY DEF Linked, LastOut, Gated, LastQueued, LastOf, Follows
  <1> QED
    BY <1>1 DEF Continues, Anchored

\* A frame emitted by the receiver extends the stream: it refers to the last
\* frame out, or it is a key.
LEMMA FrameExtends ==
    ASSUME TypeOK, NEW b \in Seq(Event), NEW key \in BOOLEAN, NEW t \in {"c", "cb"},
           Linked(b),
           key \/ Gated(b) \/ Anchored(LastOut(b))
    PROVE  LET f == FrameAt(pos + 1, key, t)
           IN  /\ f \in Event /\ f.kind = "frame" /\ f.n = pos + 1 /\ f.key = key
               /\ Append(b, f) \in Seq(Event) /\ Append(b, f) # << >>
               /\ Linked(Append(b, f)) /\ LastOut(Append(b, f)) = f
  <1> DEFINE f == FrameAt(pos + 1, key, t)
  <1>1. f \in Event
    BY EventTypes DEF FrameAt, TypeOK, Src, Sources
  <1>2. f.kind = "frame" /\ f.n = pos + 1 /\ f.key = key
    BY DEF FrameAt, FrameEvent
  <1> HIDE DEF f
  <1>3. Gated(b) \/ Follows(LastOut(b), f)
    BY <1>2 DEF Follows, Anchored
  <1>4. /\ Append(b, f) \in Seq(Event) /\ Append(b, f) # << >>
        /\ Linked(Append(b, f)) /\ LastOut(Append(b, f)) = f
    BY <1>1, <1>3, Extend
  <1> QED
    BY <1>1, <1>2, <1>4 DEF f

\* So does a pair of frames: the second follows the first.
LEMMA PairExtends ==
    ASSUME TypeOK, NEW b \in Seq(Event), NEW f \in Event, NEW g \in Event, Linked(b),
           f.kind = "frame", f.n = pos + 1, g.kind = "frame", g.n = pos + 2,
           Gated(b) \/ Anchored(LastOut(b))
    PROVE  Linked(b \o <<f, g>>) /\ LastOut(b \o <<f, g>>) = g
  <1>1. Gated(b) \/ Follows(LastOut(b), f)
    BY DEF Follows, Anchored
  <1>2. /\ Append(b, f) \in Seq(Event) /\ Append(b, f) # << >>
        /\ Linked(Append(b, f)) /\ LastOut(Append(b, f)) = f
    BY <1>1, Extend
  <1>3. Follows(f, g)
    BY DEF Follows, TypeOK
  <1>4. Linked(Append(Append(b, f), g)) /\ LastOut(Append(Append(b, f), g)) = g
    BY <1>2, <1>3, Extend
  <1> QED
    BY <1>4, ConcatShort

\* Whatever the receiver emits continues what was emitted before.
LEMMA ReceiverContinues ==
    ASSUME TypeOK, PhaseInv, ReceiverInv, NEW t \in {"c", "cb"}, ReceiverStep(t),
           t = Producer, Continues(batch[t])
    PROVE  Continues(batch[Producer])'
  <1> DEFINE b == batch[t]
  <1>1. /\ UNCHANGED <<events, seen, codec, v2_key_gate>> /\ Producer' = t
        /\ t \in Threads /\ b \in Seq(Event) /\ batch \in [Threads -> Seq(Event)]
    BY DEF ReceiverStep, queueVars, leaseVars, fecVars, Producer, TypeOK, Threads
  <1>2. /\ Linked(b)
        /\ ~awaiting_idr => Gated(b) \/ Anchored(LastOut(b))
        /\ awaiting_idr /\ stale_anchor => Gated(b) \/ LastOut(b).kind = "disc"
    BY DEF Continues
  <1> HIDE DEF b
  <1>3. ASSUME NEW evs, Out(t, evs) PROVE batch'[Producer'] = b \o evs
    BY <1>1, <1>3 DEF Out, b
  <1>4. ASSUME NEW key \in BOOLEAN, EmitFrame(t, key)
        PROVE  Continues(batch[Producer])'
    <2> DEFINE f == FrameAt(pos + 1, key, t)
    <2>1. key \/ ~awaiting_idr
      BY <1>4 DEF EmitFrame
    <2>2. /\ f \in Event /\ f.kind = "frame" /\ f.n = pos + 1
          /\ Linked(Append(b, f)) /\ LastOut(Append(b, f)) = f
      BY <1>1, <1>2, <2>1, FrameExtends
    <2>3. batch'[Producer'] = Append(b, f)
      <3>1. Out(t, <<f>>)
        BY <1>4 DEF EmitFrame
      <3> QED
        BY <1>1, <1>3, <2>2, <3>1, ConcatShort
    <2>4. pos' = pos + 1 /\ stale_anchor' = FALSE
      BY <1>4 DEF EmitFrame
    <2> HIDE DEF f
    <2> QED
      BY <1>1, <2>2, <2>3, <2>4, Transfer
  <1>5. ASSUME NEW k1 \in BOOLEAN, NEW k2 \in BOOLEAN,
               Out(t, << FrameAt(pos + 1, k1, t), FrameAt(pos + 2, k2, t) >>),
               pos' = pos + 2, Gated(b) \/ Anchored(LastOut(b)), ~awaiting_idr'
        PROVE  Continues(batch[Producer])'
    <2> DEFINE f == FrameAt(pos + 1, k1, t)
               g == FrameAt(pos + 2, k2, t)
    <2>1. f \in Event /\ g \in Event
      BY SMTT(30), EventTypes DEF FrameAt, TypeOK, Src, Sources
    <2>2. f.kind = "frame" /\ f.n = pos + 1 /\ g.kind = "frame" /\ g.n = pos + 2
      BY DEF FrameAt, FrameEvent
    <2>3. batch'[Producer'] = b \o <<f, g>>
      BY <1>3, <1>5
    <2> HIDE DEF f, g
    <2>4. Linked(b \o <<f, g>>) /\ LastOut(b \o <<f, g>>) = g
      BY <1>1, <1>2, <1>5, <2>1, <2>2, PairExtends
    <2> QED
      BY <1>1, <1>5, <2>2, <2>3, <2>4, Transfer
  <1>6. ASSUME \/ FillStaleAnchor(t)
               \/ \E k1, k2 \in BOOLEAN : FillGap(t, k1, k2)
        PROVE  Continues(batch[Producer])'
    <2>1. CASE FillStaleAnchor(t)
      <3>1. /\ Out(t, << FrameAt(pos + 1, FALSE, t), FrameAt(pos + 2, TRUE, t) >>)
            /\ pos' = pos + 2 /\ ~awaiting_idr' /\ awaiting_idr /\ stale_anchor
        BY <2>1 DEF FillStaleAnchor
      <3>2. Gated(b) \/ Anchored(LastOut(b))
        BY <1>2, <3>1 DEF Anchored
      <3> QED
        BY <1>5, <3>1, <3>2
    <2>2. ASSUME NEW k1 \in BOOLEAN, NEW k2 \in BOOLEAN, FillGap(t, k1, k2)
          PROVE  Continues(batch[Producer])'
      <3>1. ~awaiting_idr /\ pos' = pos + 2 /\ ~awaiting_idr'
            /\ Out(t, << FrameAt(pos + 1, k1, t), FrameAt(pos + 2, k2, t) >>)
        BY <2>2 DEF FillGap, ReceiverInv
      <3> QED
        BY <1>2, <1>5, <3>1
    <2> QED
      BY <1>6, <2>1, <2>2
  <1>7. ASSUME NEW crc \in BOOLEAN, EmitDiscontinuity(t, crc)
        PROVE  Continues(batch[Producer])'
    <2> DEFINE d == DiscEvent(0, fec_epoch, discs + 1, Src(t))
    <2>1. d \in Event
      BY EventTypes DEF TypeOK, Src, Sources
    <2>2. d.kind = "disc"
      BY DEF DiscEvent
    <2>3. Out(t, <<d>>) /\ awaiting_idr' = TRUE
      BY <1>7 DEF EmitDiscontinuity, Discontinue
    <2> HIDE DEF d
    <2>4. Linked(Append(b, d)) /\ LastOut(Append(b, d)) = d
      BY <1>1, <1>2, <2>1, <2>2, Extend DEF Follows
    <2>5. batch'[Producer'] = Append(b, d)
      BY <1>1, <1>3, <2>1, <2>3, ConcatShort
    <2> QED
      BY <1>1, <2>2, <2>3, <2>4, <2>5, Transfer
  <1>8. ASSUME HoldFrame(t) PROVE Continues(batch[Producer])'
    <2>1. batch'[Producer'] = b /\ UNCHANGED <<pos, awaiting_idr, stale_anchor>>
      BY <1>1, <1>8 DEF HoldFrame, b
    <2> QED
      BY <1>1, <1>2, <2>1, Transfer DEF Anchored
  <1>9. ASSUME DropAwaitingIdr(t) PROVE Continues(batch[Producer])'
    <2>1. batch'[Producer'] = b /\ awaiting_idr' = TRUE /\ stale_anchor' = FALSE
      BY <1>1, <1>9 DEF DropAwaitingIdr, TypeOK, b
    <2> QED
      BY <1>1, <1>2, <2>1, Transfer
  <1>10. ASSUME OvertakeKey(t) PROVE Continues(batch[Producer])'
    <2> DEFINE f == FrameAt(pos + 3, FALSE, t)
    <2>1. /\ Out(t, <<f>>) /\ pos' = pos + 3 /\ ~awaiting_idr' /\ stale_anchor' = FALSE
          /\ awaiting_idr /\ stale_anchor
      BY <1>10 DEF OvertakeKey
    <2>2. f \in Event
      <3>1. /\ pos + 3 \in Nat /\ FALSE \in BOOLEAN /\ fec_epoch \in Nat
            /\ discs \in Nat /\ Src(t) \in Sources
        BY DEF TypeOK, Src, Sources
      <3> QED
        BY <3>1, EventTypes DEF FrameAt
    <2>3. f.kind = "frame" /\ f.n = pos + 3
      BY DEF FrameAt, FrameEvent
    <2> HIDE DEF f
    <2>4. Gated(b) \/ Follows(LastOut(b), f)
      BY <1>2, <2>1 DEF Follows
    <2>5. Linked(Append(b, f)) /\ LastOut(Append(b, f)) = f
      BY <1>1, <1>2, <2>2, <2>4, Extend
    <2>6. batch'[Producer'] = Append(b, f)
      BY <1>1, <1>3, <2>1, <2>2, ConcatShort
    <2> QED
      BY <1>1, <2>1, <2>3, <2>5, <2>6, Transfer
  <1> QED
    BY <1>4, <1>6, <1>7, <1>8, <1>9, <1>10 DEF ReceiverStep

\* A unit that may follow the last queued one is appended.
LEMMA AppendQueue ==
    ASSUME TypeOK, NoGapWithoutReset, NEW x \in Event, events' = Append(events, x),
           Follows(LastQueued, x), UNCHANGED <<seen, codec>>
    PROVE  NoGapWithoutReset' /\ LastQueued' = x
  <1>1. /\ Len(events) \in Nat /\ Len(events') = Len(events) + 1 /\ events' # << >>
        /\ events'[Len(events) + 1] = x /\ \A i \in 1..Len(events) : events'[i] = events[i]
    BY QueueFacts, AppendProperties
  <1>2. \A p, q : (Follows(p, q))' <=> Follows(p, q)
    BY DEF Follows
  <1>3. LastQueued' = x
    BY <1>1 DEF LastQueued
  <1>4. CASE events = << >>
    <2>1. Len(events') = 1 /\ events'[1] = x /\ Follows(seen, x)
      BY <1>1, <1>4 DEF LastQueued
    <2>2. (Follows(seen, events[1]))'
      BY <2>1 DEF Follows
    <2> QED
      BY <1>3, <2>1, <2>2 DEF NoGapWithoutReset
  <1>5. CASE events # << >>
    <2>1. Len(events) >= 1 /\ Follows(events[Len(events)], x) /\ Follows(seen, events[1])
      BY <1>1, <1>5, QueueFacts DEF LastQueued, NoGapWithoutReset
    <2>2. ASSUME NEW i \in 2..Len(events') PROVE (Follows(events[i - 1], events[i]))'
      <3>1. CASE i \in 2..Len(events)
        <4>1. /\ events'[i] = events[i] /\ events'[i - 1] = events[i - 1]
              /\ Follows(events[i - 1], events[i])
          BY <1>1, <3>1 DEF NoGapWithoutReset
        <4> QED
          BY <4>1 DEF Follows
      <3>2. CASE i = Len(events) + 1
        <4>1. events'[i] = x /\ events'[i - 1] = events[Len(events)]
          BY <1>1, <2>1, <3>2
        <4> QED
          BY <2>1, <4>1 DEF Follows
      <3> QED
        BY <1>1, <3>1, <3>2
    <2>3. (Follows(seen, events[1]))'
      <3>1. events'[1] = events[1]
        BY <1>1, <2>1
      <3> QED
        BY <2>1, <3>1 DEF Follows
    <2> QED
      BY <1>3, <2>2, <2>3 DEF NoGapWithoutReset
  <1> QED
    BY <1>4, <1>5

\* An overflow leaves the queue with a reset in front of what remains.
LEMMA PushKeeps ==
    ASSUME TypeOK, NoGapWithoutReset, NEW ev \in Event, UNCHANGED <<seen, codec>>,
           ~closed, Follows(LastQueued, ev),
           \/ ev.kind = "frame" /\ PushFrame(ev)
           \/ ev.kind = "disc" /\ PushDiscontinuity(ev)
    PROVE  /\ NoGapWithoutReset'
           /\ ev.kind = "frame" => LastQueued' = ev
           /\ ev.kind = "disc" => LastQueued'.kind = "disc"
  <1> DEFINE g == next_generation + 1
  <1>1. CASE ev.kind = "frame" /\ events' = Append(events, ev)
    BY <1>1, AppendQueue
  <1>2. CASE ev.kind = "frame"
             /\ events' = << DiscEvent(g, ev.epoch, 0, "queue"), ev >>
    <2>1. /\ Len(events') = 2 /\ events'[1].kind = "disc" /\ events'[2] = ev
          /\ events' # << >>
      BY <1>2 DEF DiscEvent
    <2>2. LastQueued' = ev
      BY <2>1 DEF LastQueued
    <2>3. (Follows(seen, events[1]))' /\ (Follows(events[1], events[2]))'
      BY <2>1 DEF Follows
    <2>4. \A i \in 2..Len(events') : i = 2
      BY <2>1
    <2> QED
      BY <1>2, <2>2, <2>3, <2>4 DEF NoGapWithoutReset
  <1>3. CASE ev.kind = "disc" /\ PushDiscontinuity(ev)
    <2> DEFINE reset == [ev EXCEPT !.gen = g]
    <2>1. reset \in Event /\ reset.kind = "disc"
      BY <1>3, QueueFacts, StampedReset
    <2>2. events' = << reset >> \/ events' = Append(events, reset)
      BY <1>3 DEF PushDiscontinuity
    <2> HIDE DEF reset
    <2>3. CASE events' = << reset >>
      <3>1. Len(events') = 1 /\ events'[1] = reset /\ events' # << >>
        BY <2>3
      <3>2. LastQueued' = reset /\ (Follows(seen, events[1]))'
        BY <2>1, <3>1 DEF LastQueued, Follows
      <3> QED
        BY <1>3, <2>1, <3>1, <3>2 DEF NoGapWithoutReset
    <2>4. CASE events' = Append(events, reset)
      <3>1. Follows(LastQueued, reset)
        BY <2>1 DEF Follows
      <3>2. NoGapWithoutReset' /\ LastQueued' = reset
        BY <2>1, <2>4, <3>1, AppendQueue
      <3> QED
        BY <1>3, <2>1, <3>2
    <2> QED
      BY <2>2, <2>3, <2>4
  <1> QED
    BY <1>1, <1>2, <1>3 DEF PushFrame

\* The consumer's pop moves the boundary between `seen` and the queue.
LEMMA PopKeeps ==
    ASSUME TypeOK, NoGapWithoutReset, Popping
    PROVE  NoGapWithoutReset' /\ LastQueued' = LastQueued
  <1>1. /\ events # << >> /\ Len(events) \in Nat /\ Len(events) # 0
        /\ events \in Seq(Event) /\ codec' = codec
    BY QueueFacts DEF Popping, PopEvent, fecVars
  <1>2. /\ Len(events') = Len(events) - 1 /\ events' \in Seq(Event)
        /\ \A i \in 1..Len(events') : events'[i] = events[i + 1]
        /\ seen' = events[1]
    BY <1>1, HeadTailProperties DEF Popping, PopEvent
  <1>3. ASSUME NEW i \in 2..Len(events') PROVE (Follows(events[i - 1], events[i]))'
    <2>1. /\ events'[i] = events[i + 1] /\ events'[i - 1] = events[i]
          /\ i + 1 \in 2..Len(events)
      BY <1>1, <1>2
    <2>2. Follows(events[(i + 1) - 1], events[i + 1]) /\ (i + 1) - 1 = i
      BY <2>1 DEF NoGapWithoutReset
    <2> QED
      BY <1>1, <2>1, <2>2 DEF Follows
  <1>4. CASE events' = << >>
    <2>1. Len(events) = 1 /\ Len(events') = 0
      BY <1>1, <1>2, <1>4
    <2> QED
      BY <1>1, <1>2, <1>4, <2>1 DEF LastQueued, NoGapWithoutReset
  <1>5. CASE events' # << >>
    <2>1. Len(events') >= 1 /\ Len(events) >= 2
      BY <1>1, <1>2, <1>5, EmptySeq
    <2>2. events'[1] = events[2] /\ events'[Len(events')] = events[Len(events)]
      BY <1>1, <1>2, <2>1
    <2>3. Follows(events[1], events[2])
      <3>1. 2 \in 2..Len(events) /\ 2 - 1 = 1
        BY <1>1, <2>1
      <3> QED
        BY <3>1 DEF NoGapWithoutReset
    <2>4. (Follows(seen, events[1]))'
      BY <1>1, <1>2, <2>2, <2>3 DEF Follows
    <2> QED
      BY <1>1, <1>3, <1>5, <2>2, <2>4 DEF LastQueued, NoGapWithoutReset
  <1> QED
    BY <1>4, <1>5

\* consume_events applies the head of the producer's batch: the v2 gate drops
\* a delta, anything else is pushed where it belongs.
LEMMA ConsumeContinues ==
    ASSUME TypeOK, NoGapWithoutReset, NEW t \in Threads, ConsumeEvent(t), ~closed,
           t = Producer, Continues(batch[t])
    PROVE  NoGapWithoutReset' /\ Continues(batch[Producer])'
  <1> DEFINE b == batch[t]
             c == Tail(batch[t])
             ev == Head(batch[t])
  <1>1. /\ b \in Seq(Event) /\ b # << >> /\ Len(b) \in Nat /\ Len(b) >= 1
        /\ ev \in Event /\ ev = b[1] /\ c \in Seq(Event) /\ Len(c) = Len(b) - 1
        /\ \A i \in 1..Len(c) : c[i] = b[i + 1]
    <2>1. b \in Seq(Event) /\ b # << >>
      BY DEF ConsumeEvent, TypeOK
    <2> HIDE DEF b
    <2>2. /\ Head(b) \in Event /\ Head(b) = b[1] /\ Tail(b) \in Seq(Event)
          /\ Len(Tail(b)) = Len(b) - 1 /\ Len(b) \in Nat /\ Len(b) >= 1
          /\ \A i \in 1..Len(Tail(b)) : Tail(b)[i] = b[i + 1]
      BY <2>1, HeadTailProperties, EmptySeq
    <2> QED
      BY <2>1, <2>2 DEF b
  <1>2. /\ Linked(b)
        /\ ~awaiting_idr => Anchored(LastOf(b))
        /\ awaiting_idr /\ stale_anchor => LastOf(b).kind = "disc"
    BY <1>1 DEF Continues, Gated, LastOut
  <1>3. /\ batch'[Producer'] = c
        /\ UNCHANGED <<seen, codec, pos, awaiting_idr, stale_anchor>>
    BY DEF ConsumeEvent, TypeOK, rxVars, frameVars, leaseVars, Producer
  <1>4. ev.kind = "frame" \/ ev.kind = "disc"
    BY <1>1 DEF Event
  <1>5. /\ \/ /\ ev.kind = "frame" /\ v2_key_gate /\ ~ev.key
              /\ UNCHANGED <<queueVars, v2_key_gate>>
           \/ /\ ev.kind = "frame" /\ (~v2_key_gate \/ ev.key)
              /\ PushFrame(ev)
           \/ /\ ev.kind = "disc" /\ PushDiscontinuity(ev)
    BY DEF ConsumeEvent
  <1> HIDE DEF b, c, ev
  <1>6. \A i \in 2..Len(c) : Follows(c[i - 1], c[i])
    <2> SUFFICES ASSUME NEW i \in 2..Len(c) PROVE Follows(c[i - 1], c[i])
      OBVIOUS
    <2>1. c[i] = b[i + 1] /\ c[i - 1] = b[(i + 1) - 1] /\ i + 1 \in 2..Len(b)
      BY <1>1
    <2> QED
      BY <1>2, <2>1 DEF Linked
  <1>7. c # << >> => /\ Follows(ev, c[1]) /\ LastOf(c) = LastOf(b)
    <2> SUFFICES ASSUME c # << >> PROVE Follows(ev, c[1]) /\ LastOf(c) = LastOf(b)
      OBVIOUS
    <2>1. Len(c) >= 1 /\ Len(b) >= 2
      BY <1>1, EmptySeq
    <2>2. c[1] = b[2] /\ c[Len(c)] = b[Len(b)] /\ 2 \in 2..Len(b) /\ 2 - 1 = 1
      BY <1>1, <2>1
    <2> QED
      BY <1>1, <1>2, <2>2 DEF Linked, LastOf
  <1>8. c = << >> => LastOf(b) = ev
    <2>1. c = << >> => Len(b) = 1
      BY <1>1
    <2> QED
      BY <1>1, <2>1 DEF LastOf
  <1>9. CASE /\ v2_key_gate /\ UNCHANGED <<queueVars, v2_key_gate>>
    <2>1. UNCHANGED <<events, seen, codec, v2_key_gate>>
      BY <1>3, <1>9 DEF queueVars
    <2>2. NoGapWithoutReset'
      BY <2>1 DEF NoGapWithoutReset, Follows
    <2>3. Linked(c)
      BY <1>6, <1>9 DEF Linked
    <2>4. Gated(c) \/ LastOut(c) = LastOf(b)
      BY <1>7, <1>9 DEF Gated, LastOut
    <2> QED
      BY <1>2, <1>3, <2>1, <2>2, <2>3, <2>4, Transfer DEF Anchored
  <1>10. CASE \/ ev.kind = "frame" /\ (~v2_key_gate \/ ev.key) /\ PushFrame(ev)
              \/ ev.kind = "disc" /\ PushDiscontinuity(ev)
    <2>1. Follows(LastQueued, ev)
      BY <1>1, <1>2, <1>10 DEF Linked, Follows
    <2>2. /\ NoGapWithoutReset'
          /\ ev.kind = "frame" => LastQueued' = ev
          /\ ev.kind = "disc" => LastQueued'.kind = "disc"
      BY <1>1, <1>3, <1>10, <2>1, PushKeeps
    <2>3. c # << >> => Follows(LastQueued', c[1])
      BY <1>4, <1>7, <2>2 DEF Follows
    <2>4. \A i \in 2..Len(batch'[Producer']) :
              Follows(batch'[Producer'][i - 1], batch'[Producer'][i])
      BY <1>3, <1>6
    <2>5. Linked(batch[Producer])'
      <3>1. batch'[Producer'] # << >> => Follows(LastQueued', batch'[Producer'][1])
        BY <1>3, <2>3
      <3> QED
        BY <1>3, <2>4, <3>1 DEF Linked, Follows
    <2>6. \/ LastOut(batch[Producer])' = LastOf(b)
          \/ /\ LastOf(b).kind = "disc"
             /\ LastOut(batch[Producer])'.kind = "disc"
      <3>1. CASE c # << >>
        BY <1>3, <1>7, <3>1 DEF LastOut, LastOf
      <3>2. CASE c = << >>
        BY <1>3, <1>4, <1>8, <2>2, <3>2 DEF LastOut
      <3> QED
        BY <3>1, <3>2
    <2> QED
      BY <1>2, <1>3, <2>2, <2>5, <2>6 DEF Continues, Anchored
  <1> QED
    BY <1>5, <1>9, <1>10

\* A reset of the tick may be pushed anywhere between the units of a batch.
LEMMA TickConsumeContinues ==
    ASSUME TypeOK, ReceiverInv, NoGapWithoutReset, ConsumeEvent("tick"), ~closed,
           Producer # "tick", Producer \in Threads, Continues(batch[Producer])
    PROVE  NoGapWithoutReset' /\ Continues(batch[Producer])'
  <1> DEFINE ev == Head(batch["tick"])
             b  == batch[Producer]
  <1>1. batch["tick"] \in Seq(Event) /\ batch["tick"] # << >>
    BY DEF ConsumeEvent, TypeOK, Threads
  <1>2. ev \in Event /\ ev.kind = "disc"
    <2>1. ev \in Event /\ ev = batch["tick"][1] /\ 1 \in 1..Len(batch["tick"])
      BY <1>1, HeadTailProperties, EmptySeq
    <2> QED
      BY <2>1 DEF ReceiverInv
  <1>3. /\ UNCHANGED <<seen, codec, pos, awaiting_idr, stale_anchor, v2_key_gate>>
        /\ Producer' = Producer /\ PushDiscontinuity(ev)
    BY <1>2 DEF ConsumeEvent, rxVars, frameVars, leaseVars, Producer
  <1>4. batch'[Producer'] = b
    BY <1>3 DEF ConsumeEvent, TypeOK, Threads
  <1> HIDE DEF ev, b
  <1>5. NoGapWithoutReset' /\ LastQueued'.kind = "disc"
    <2>1. Follows(LastQueued, ev)
      BY <1>2 DEF Follows
    <2> QED
      BY <1>2, <1>3, <2>1, PushKeeps
  <1>6. Linked(batch[Producer])'
    <2>1. Linked(b)
      BY DEF Continues, b
    <2> QED
      BY <1>3, <1>4, <1>5, <2>1 DEF Linked, Follows
  <1>7. LastOut(batch[Producer])' = LastOut(b) \/ LastOut(batch[Producer])'.kind = "disc"
    BY <1>4, <1>5 DEF LastOut, LastOf
  <1>8. Gated(batch[Producer])' <=> Gated(b)
    BY <1>3, <1>4 DEF Gated
  <1> QED
    BY <1>3, <1>5, <1>6, <1>7, <1>8 DEF Continues, Anchored, b

\* Under the receiver mutex, and while the queue is open, the thread inside
\* the receiver is the producer; with something to apply it is, or it ticks.
LEMMA ProducerHasIt ==
    ASSUME TypeOK, PhaseInv, ~closed
    PROVE  /\ rxHolder # "none" => rxHolder = Producer
           /\ \A t \in Threads : batch[t] # << >> /\ t # "tick" =>
                 t = Producer /\ sess # "draining"
           /\ Producer \in Threads /\ Producer # "tick"
  BY DEF PhaseInv, Producer, TypeOK, Threads, Phases

\* A step that leaves queue, batches, receiver and phase alone.
LEMMA Aside ==
    ASSUME Pipeline, UNCHANGED <<events, seen, codec, v2_key_gate, batch, pos,
                                 awaiting_idr, stale_anchor, Producer>>,
           closed' \/ closed' = closed, sess' = "draining" \/ sess # "draining"
    PROVE  Pipeline'
  <1>1. NoGapWithoutReset'
    BY DEF Pipeline, NoGapWithoutReset, Follows
  <1>2. Continues(batch[Producer]) => Continues(batch[Producer])'
    BY DEF Continues, Linked, LastOut, Gated, LastQueued, LastOf, Follows, Anchored
  <1> QED
    BY <1>1, <1>2 DEF Pipeline

\* A pop leaves the end of the pipeline where it is.
LEMMA PopPipeline ==
    ASSUME TypeOK, Pipeline, Popping
    PROVE  Pipeline'
  <1>1. NoGapWithoutReset' /\ LastQueued' = LastQueued
    BY PopKeeps DEF Pipeline
  <1>2. UNCHANGED <<codec, v2_key_gate, batch, pos, awaiting_idr, stale_anchor,
                    closed, sess, Producer>>
    BY DEF Popping, PopEvent, rxVars, frameVars, leaseVars, fecVars, Producer
  <1>3. Continues(batch[Producer]) => Continues(batch[Producer])'
    BY <1>1, <1>2 DEF Continues, Linked, LastOut, Gated, LastOf, Follows, Anchored
  <1> QED
    BY <1>1, <1>2, <1>3 DEF Pipeline

\* One step per action: the pipeline is extended at its end, moves forward,
\* is consumed at its front, or starts over with a new session.
LEMMA PipelineStep ==
    TypeOK /\ PhaseInv /\ ReceiverInv /\ Pipeline /\ [Next]_vars => Pipeline'
  <1> SUFFICES ASSUME TypeOK, PhaseInv, ReceiverInv, Pipeline, [Next]_vars
               PROVE  Pipeline'
    OBVIOUS
  <1>1. ASSUME NEW t \in {"c", "cb"}, ReceiverStep(t) PROVE Pipeline'
    <2>1. /\ rxHolder = t /\ UNCHANGED <<events, seen, codec, closed, sess>>
      BY <1>1, ReceiverFrame DEF queueVars, leaseVars, fecVars
    <2>2. NoGapWithoutReset'
      BY <2>1 DEF Pipeline, NoGapWithoutReset, Follows
    <2>3. ASSUME ~closed, sess # "draining" PROVE Continues(batch[Producer])'
      <3>1. t = Producer
        BY <2>1, <2>3, ProducerHasIt
      <3>2. Continues(batch[t])
        BY <2>3, <3>1 DEF Pipeline
      <3> QED
        BY <1>1, <3>1, <3>2, ReceiverContinues
    <2> QED
      BY <2>1, <2>2, <2>3 DEF Pipeline
  <1>2. ASSUME NEW t \in Threads, ConsumeEvent(t) PROVE Pipeline'
    <2>1. UNCHANGED <<seen, codec, closed, sess>>
      BY <1>2 DEF ConsumeEvent, PushFrame, PushDiscontinuity, queueVars, leaseVars
    <2>2. CASE closed
      <3>1. events' = events
        BY <1>2, <2>2 DEF ConsumeEvent, PushFrame, PushDiscontinuity, queueVars
      <3> QED
        BY <2>1, <2>2, <3>1 DEF Pipeline, NoGapWithoutReset, Follows
    <2>3. CASE ~closed
      <3>1. batch[t] # << >> /\ Producer \in Threads /\ Producer # "tick"
        BY <1>2, <2>3, ProducerHasIt DEF ConsumeEvent
      <3>2. sess # "draining" /\ (t = "tick" \/ t = Producer)
        BY <2>3, <3>1, ProducerHasIt DEF PhaseInv
      <3>3. NoGapWithoutReset /\ Continues(batch[Producer])
        BY <2>3, <3>2 DEF Pipeline
      <3>4. NoGapWithoutReset' /\ Continues(batch[Producer])'
        BY <1>2, <2>3, <3>1, <3>2, <3>3, ConsumeContinues, TickConsumeContinues
      <3> QED
        BY <3>4 DEF Pipeline
    <2> QED
      BY <2>2, <2>3
  <1>3. ASSUME NEW t \in {"c", "tick"}, TickCompute(t),
               UNCHANGED <<events, seen, codec, v2_key_gate, closed, sess>>,
               t = "c" => sess \in {"none", "ended"}, t = "tick" => sess = "streaming"
        PROVE  Pipeline'
    <2>1. Producer' = Producer
      BY <1>3 DEF Producer
    <2>2. CASE UNCHANGED <<batch, pos, held, awaiting_idr, stale_anchor>>
      BY <1>3, <2>1, <2>2, Aside
    <2>3. CASE /\ batch'[t] = << DiscEvent(0, fec_epoch, discs + 1, Src(t)) >>
               /\ awaiting_idr' = TRUE /\ stale_anchor' = FALSE
      <3>1. NoGapWithoutReset'
        BY <1>3 DEF Pipeline, NoGapWithoutReset, Follows
      <3>2. ASSUME ~closed, sess # "draining" PROVE Linked(batch[Producer])'
        <4>1. CASE t = "tick"
          <5>1. batch'[Producer'] = batch[Producer]
            BY <1>3, <2>1, <3>2, <4>1, TickFrame, ProducerHasIt
          <5>2. Linked(batch[Producer])
            BY <3>2 DEF Pipeline, Continues
          <5> QED
            BY <1>3, <5>1, <5>2 DEF Linked, LastQueued, Follows
        <4>2. CASE t = "c"
          <5>1. Producer' = "c"
            BY <1>3, <2>1, <3>2, <4>2 DEF PhaseInv, Producer
          <5>2. Len(batch'["c"]) = 1 /\ batch'["c"][1].kind = "disc"
            BY <2>3, <4>2 DEF DiscEvent
          <5> QED
            BY <5>1, <5>2 DEF Linked, Follows
        <4> QED
          BY <4>1, <4>2
      <3> QED
        BY <1>3, <2>3, <3>1, <3>2 DEF Pipeline, Continues
    <2> QED
      BY <1>3, <2>2, <2>3, TickFrame
  <1>4. CASE Tick
    BY <1>3, <1>4 DEF Tick, queueVars, leaseVars, fecVars
  <1>5. CASE OnStandaloneTick
    <2>1. sess \in {"none", "ended"}
      BY <1>5 DEF OnStandaloneTick, PhaseInv, TypeOK, Phases
    <2> QED
      BY <1>3, <1>5, <2>1 DEF OnStandaloneTick, queueVars, fecVars
  <1>6. CASE AcquireSessionLease
    <2>1. sess = "none" /\ Producer' = Producer
      BY <1>6 DEF AcquireSessionLease, PhaseInv, Producer
    <2> QED
      BY <1>6, <2>1, Aside DEF AcquireSessionLease, queueVars, rxVars, frameVars, fecVars
  <1>7. CASE BeginFecNegotiation
    <2>1. /\ UNCHANGED <<events, seen>> /\ codec # "V2" /\ codec' # "V2"
          /\ sess' = "draining"
      BY <1>7 DEF BeginFecNegotiation, PhaseInv
    <2> QED
      BY <2>1 DEF Pipeline, NoGapWithoutReset, Follows
  <1>8. CASE DrainBeforeSession
    <2>1. /\ events' = << >> /\ seen' = Start /\ sess' = "negotiating"
          /\ UNCHANGED <<codec, awaiting_idr, batch>> /\ codec = "Unconfigured"
          /\ ~awaiting_idr /\ batch["cb"] = << >>
      BY <1>8 DEF DrainBeforeSession, PhaseInv, rxVars, frameVars, fecVars
    <2>2. batch'[Producer'] = << >> /\ Len(events') = 0
      BY <2>1 DEF Producer
    <2> QED
      BY <2>1, <2>2 DEF Pipeline, NoGapWithoutReset, Continues, Linked, LastOut,
                        LastQueued, Anchored, Start
  <1>9. ASSUME NEW e \in Epochs, ConfigureFec(e) PROVE Pipeline'
    <2>1. /\ events' = << >> /\ seen' = Start /\ sess' = "streaming"
          /\ ~awaiting_idr' /\ batch'["cb"] = << >>
          /\ codec' # "V2" \/ v2_key_gate'
      BY <1>9 DEF ConfigureFec, PhaseInv, queueVars, rxVars, frameVars
    <2>2. batch'[Producer'] = << >> /\ Len(events') = 0
      BY <2>1 DEF Producer
    <2> QED
      BY <2>1, <2>2 DEF Pipeline, NoGapWithoutReset, Continues, Linked, LastOut,
                        Gated, LastQueued, Anchored, Start
  <1>10. CASE Close
    <2>1. Producer' = Producer
      BY <1>10 DEF Close, Producer
    <2> QED
      BY <1>10, <2>1 DEF Close, CloseQueue, Pipeline, NoGapWithoutReset, Follows, fecVars
  <1>11. CASE SessionEnd
    BY <1>11 DEF SessionEnd, CloseQueue, Pipeline, NoGapWithoutReset, Follows, fecVars
  <1>12. CASE ConsumerPop
    BY <1>12, PopIsPopping, PopPipeline
  <1>13. CASE UNCHANGED <<events, closed, seen, frameVars, batch, fecVars, sess>>
    <2>1. Producer' = Producer
      BY <1>13 DEF Producer
    <2> QED
      BY <1>13, <2>1, Aside DEF rxVars, frameVars, fecVars
  <1>14. ASSUME NEW t \in Threads, ConsumeAck(t) \/ UnlockReceiver(t) PROVE Pipeline'
    BY <1>13, <1>14 DEF ConsumeAck, UnlockReceiver, queueVars, rxVars, leaseVars
  <1>15. CASE OnMessage \/ OnStandaloneMessage \/ StandaloneReturn
    BY <1>13, <1>15 DEF OnMessage, OnStandaloneMessage, StandaloneReturn, queueVars,
                        rxVars, leaseVars
  <1>16. CASE ConsumerAck \/ RequestIdr \/ PollAck \/ UNCHANGED vars
    BY <1>13, <1>16 DEF ConsumerAck, AcknowledgeRecovery, RequestIdr, PollAck, vars,
                        queueVars, coreVars, rxVars, leaseVars
  <1>17. CASE PollNeedsIdr
    <2>1. Producer' = Producer
      BY <1>17 DEF PollNeedsIdr, Producer, leaseVars
    <2> QED
      BY <1>17, <2>1, Aside DEF PollNeedsIdr, leaseVars, fecVars
  <1> QED
    BY <1>1, <1>2, <1>4, <1>5, <1>6, <1>7, <1>8, <1>9, <1>10, <1>11, <1>12, <1>14,
       <1>15, <1>16, <1>17
    DEF Next, SessionIngress, StandaloneIngress, Lifecycle, Consumer, Ingress, Threads

-----------------------------------------------------------------------------
(* Where events come from, and in which order the resets of a standalone   *)
(* caller travel.                                                          *)

\* The elements of an extended sequence.
LEMMA AppendElements ==
    ASSUME NEW b \in Seq(Event), NEW e \in Event
    PROVE  /\ Append(b, e) \in Seq(Event) /\ Len(Append(b, e)) = Len(b) + 1
           /\ \A i \in 1..Len(b) : Append(b, e)[i] = b[i]
           /\ Append(b, e)[Len(b) + 1] = e
           /\ \A i \in 1..Len(Append(b, e)) : i \in 1..Len(b) \/ Append(b, e)[i] = e
           /\ \A i, j \in 1..Len(Append(b, e)) : i < j => i \in 1..Len(b)
  BY AppendProperties

\* What a thread inside the receiver adds to its batch: one or two frames
\* behind the last one out, or the next reset.
LEMMA ReceiverOut ==
    ASSUME TypeOK, NEW t \in {"c", "cb"}, ReceiverStep(t)
    PROVE  \/ UNCHANGED <<batch, discs>>
           \/ /\ UNCHANGED discs
              /\ \E n \in Nat, k \in BOOLEAN :
                    n > 0 /\ batch'[t] = Append(batch[t], FrameAt(n, k, t))
           \/ /\ UNCHANGED discs
              /\ \E n \in Nat, m \in Nat, k \in BOOLEAN, l \in BOOLEAN :
                    /\ n > 0 /\ m > 0
                    /\ batch'[t] = Append(Append(batch[t], FrameAt(n, k, t)), FrameAt(m, l, t))
           \/ /\ discs' = discs + 1
              /\ batch'[t] = Append(batch[t], DiscEvent(0, fec_epoch, discs + 1, Src(t)))
  <1> DEFINE b == batch[t]
             F(n, key) == FrameAt(n, key, t)
             D == DiscEvent(0, fec_epoch, discs + 1, Src(t))
             After(evs) == batch'[t] = b \o evs
  <1>1. /\ batch \in [Threads -> Seq(Event)] /\ b \in Seq(Event) /\ t \in Threads
        /\ pos \in Nat /\ fec_epoch \in Nat /\ discs \in Nat /\ Src(t) \in Sources
    BY DEF TypeOK, Threads, Src, Sources
  <1>2. /\ \A n \in Nat, key \in BOOLEAN : F(n, key) \in Event
        /\ D \in Event
    <2>1. discs + 1 \in Nat /\ 0 \in Nat
      BY <1>1
    <2>2. \A n \in Nat, key \in BOOLEAN : FrameAt(n, key, t) \in Event
      BY <1>1, EventTypes DEF FrameAt
    <2>3. DiscEvent(0, fec_epoch, discs + 1, Src(t)) \in Event
      BY <1>1, <2>1, EventTypes
    <2> QED
      BY <2>2, <2>3
  <1>3. \A e \in Event, f \in Event :
            b \o <<e>> = Append(b, e) /\ b \o <<e, f>> = Append(Append(b, e), f)
    BY <1>1, ConcatShort
  <1>4. \A i \in {1, 2, 3} : pos + i \in Nat /\ pos + i > 0
    BY <1>1
  <1>5. \A evs : Out(t, evs) => After(evs)
    BY <1>1 DEF Out
  <1> HIDE DEF b, F, D, After
  <1>6. ASSUME NEW k \in BOOLEAN, EmitFrame(t, k)
        PROVE  UNCHANGED discs /\ After(<<F(pos + 1, k)>>)
    BY <1>5, <1>6 DEF EmitFrame, F
  <1>7. ASSUME NEW k \in BOOLEAN, NEW l \in BOOLEAN, FillGap(t, k, l)
        PROVE  UNCHANGED discs /\ After(<<F(pos + 1, k), F(pos + 2, l)>>)
    BY <1>5, <1>7 DEF FillGap, F
  <1>8. FillStaleAnchor(t) => UNCHANGED discs /\ After(<<F(pos + 1, FALSE), F(pos + 2, TRUE)>>)
    BY <1>5 DEF FillStaleAnchor, F
  <1>9. OvertakeKey(t) => UNCHANGED discs /\ After(<<F(pos + 3, FALSE)>>)
    BY <1>5 DEF OvertakeKey, F
  <1>10. ASSUME NEW crc \in BOOLEAN, EmitDiscontinuity(t, crc)
         PROVE  discs' = discs + 1 /\ After(<<D>>)
    BY <1>5, <1>10 DEF EmitDiscontinuity, Discontinue, D
  <1>11. HoldFrame(t) \/ DropAwaitingIdr(t) => UNCHANGED <<batch, discs>>
    BY DEF HoldFrame, DropAwaitingIdr
  <1>12. \/ UNCHANGED <<batch, discs>>
         \/ /\ UNCHANGED discs
            /\ \E n \in Nat, k \in BOOLEAN : n > 0 /\ After(<<F(n, k)>>)
         \/ /\ UNCHANGED discs
            /\ \E n \in Nat, m \in Nat, k \in BOOLEAN, l \in BOOLEAN :
                  n > 0 /\ m > 0 /\ After(<<F(n, k), F(m, l)>>)
         \/ discs' = discs + 1 /\ After(<<D>>)
    BY <1>4, <1>6, <1>7, <1>8, <1>9, <1>10, <1>11 DEF ReceiverStep
  <1>13. ASSUME NEW n \in Nat, NEW k \in BOOLEAN, After(<<F(n, k)>>)
         PROVE  batch'[t] = Append(batch[t], FrameAt(n, k, t))
    BY <1>2, <1>3, <1>13 DEF After, F, b
  <1>14. ASSUME NEW n \in Nat, NEW m \in Nat, NEW k \in BOOLEAN, NEW l \in BOOLEAN,
                After(<<F(n, k), F(m, l)>>)
         PROVE  batch'[t] = Append(Append(batch[t], FrameAt(n, k, t)), FrameAt(m, l, t))
    BY <1>2, <1>3, <1>14 DEF After, F, b
  <1>15. After(<<D>>) => batch'[t] = Append(batch[t], DiscEvent(0, fec_epoch, discs + 1, Src(t)))
    BY <1>2, <1>3 DEF After, D, b
  <1> QED
    BY <1>12, <1>13, <1>14, <1>15

\* The shapes a push (frame_queue.rs) gives the queue: rejected, appended, or
\* the backlog replaced by a reset.
LEMMA PushShape ==
    ASSUME TypeOK, NEW ev \in Event,
           \/ ev.kind = "frame" /\ PushFrame(ev)
           \/ ev.kind = "disc" /\ PushDiscontinuity(ev)
    PROVE  LET g     == next_generation + 1
               own   == DiscEvent(g, ev.epoch, 0, "queue")
               reset == [ev EXCEPT !.gen = g]
           IN  /\ own \in Event /\ own.kind = "disc" /\ own.gen = g
               /\ own.epoch = ev.epoch /\ own.src = "queue"
               /\ reset \in Event /\ reset.kind = ev.kind /\ reset.gen = g
               /\ reset.epoch = ev.epoch /\ reset.src = ev.src /\ reset.ord = ev.ord
               /\ \/ UNCHANGED queueVars
                  \/ /\ ev.kind = "frame" /\ events' = Append(events, ev)
                     /\ UNCHANGED <<next_generation, recovery>>
                  \/ /\ ev.kind = "frame" /\ events' = <<own, ev>> /\ next_generation' = g
                     /\ recovery' = [gen |-> g, epoch |-> ev.epoch]
                  \/ /\ ev.kind = "disc" /\ events' \in {<<reset>>, Append(events, reset)}
                     /\ next_generation' = g /\ recovery' = [gen |-> g, epoch |-> ev.epoch]
  <1> DEFINE g == next_generation + 1
             own == DiscEvent(g, ev.epoch, 0, "queue")
             reset == [ev EXCEPT !.gen = g]
  <1>1. g \in Nat /\ ev.epoch \in Nat
    BY QueueFacts DEF Event
  <1>2. /\ own \in Event /\ own.kind = "disc" /\ own.gen = g /\ own.epoch = ev.epoch
        /\ own.src = "queue"
    BY <1>1, EventTypes DEF Sources, DiscEvent
  <1>3. /\ reset \in Event /\ reset.kind = ev.kind /\ reset.gen = g
        /\ reset.epoch = ev.epoch /\ reset.src = ev.src /\ reset.ord = ev.ord
    BY <1>1, StampedReset
  <1>4. \/ UNCHANGED queueVars
        \/ /\ ev.kind = "frame" /\ events' = Append(events, ev)
           /\ UNCHANGED <<next_generation, recovery>>
        \/ /\ ev.kind = "frame" /\ events' = <<own, ev>> /\ next_generation' = g
           /\ recovery' = [gen |-> g, epoch |-> ev.epoch]
        \/ /\ ev.kind = "disc" /\ events' \in {<<reset>>, Append(events, reset)}
           /\ next_generation' = g /\ recovery' = [gen |-> g, epoch |-> ev.epoch]
    BY DEF PushFrame, PushDiscontinuity, OpenRecoveryLocked
  <1> QED
    BY <1>2, <1>3, <1>4

\* A push (frame_queue.rs) appends, or replaces the backlog by a reset; a new
\* generation always comes with its queued reset.
LEMMA PushEffect ==
    ASSUME TypeOK, NEW ev \in Event,
           \/ ev.kind = "frame" /\ PushFrame(ev)
           \/ ev.kind = "disc" /\ PushDiscontinuity(ev)
    PROVE  /\ \A j \in 1..Len(events') :
                 \/ \E i \in 1..Len(events) : events'[j] = events[i]
                 \/ events'[j] = ev /\ ev.kind = "frame"
                 \/ /\ events'[j].kind = "disc" /\ events'[j].epoch = ev.epoch
                    /\ events'[j].gen = next_generation + 1
           /\ \/ /\ UNCHANGED <<next_generation, recovery>>
                 /\ \A j \in 1..Len(events') :
                       \/ events'[j] = ev /\ ev.kind = "frame"
                       \/ \E i \in 1..Len(events) : events'[j] = events[i]
                 /\ \A i \in 1..Len(events) :
                       i \in 1..Len(events') /\ events'[i] = events[i]
              \/ /\ next_generation' = next_generation + 1
                 /\ recovery' = [gen |-> next_generation + 1, epoch |-> ev.epoch]
                 /\ \E j \in 1..Len(events') :
                       events'[j].kind = "disc" /\ events'[j].gen = next_generation + 1
  <1> DEFINE g == next_generation + 1
             own == DiscEvent(g, ev.epoch, 0, "queue")
             reset == [ev EXCEPT !.gen = g]
  <1>1. /\ events \in Seq(Event) /\ Len(events) \in Nat /\ g \in Nat
        /\ ev.epoch \in Nat
    BY QueueFacts DEF Event
  <1>2. /\ own \in Event /\ own.kind = "disc" /\ own.gen = g /\ own.epoch = ev.epoch
        /\ reset \in Event /\ reset.kind = ev.kind /\ reset.gen = g
        /\ reset.epoch = ev.epoch
    BY PushShape
  <1>3. \/ UNCHANGED queueVars
        \/ /\ ev.kind = "frame" /\ events' = Append(events, ev)
           /\ UNCHANGED <<next_generation, recovery>>
        \/ /\ ev.kind = "frame" /\ events' = <<own, ev>> /\ next_generation' = g
           /\ recovery' = [gen |-> g, epoch |-> ev.epoch]
        \/ /\ ev.kind = "disc" /\ events' \in {<<reset>>, Append(events, reset)}
           /\ next_generation' = g /\ recovery' = [gen |-> g, epoch |-> ev.epoch]
    BY PushShape
  <1> HIDE DEF own, reset
  <1>4. CASE UNCHANGED queueVars
    BY <1>1, <1>4 DEF queueVars
  <1>5. CASE /\ ev.kind = "frame" /\ events' = Append(events, ev)
             /\ UNCHANGED <<next_generation, recovery>>
    <2>1. /\ Len(events') = Len(events) + 1
          /\ \A i \in 1..Len(events) : events'[i] = events[i]
          /\ \A i \in 1..Len(events') : i \in 1..Len(events) \/ events'[i] = ev
      BY <1>1, <1>5, AppendElements
    <2>2. \A i \in 1..Len(events) : i \in 1..Len(events')
      BY <1>1, <2>1
    <2> QED
      BY <1>5, <2>1, <2>2
  <1>6. CASE /\ ev.kind = "frame" /\ events' = <<own, ev>> /\ next_generation' = g
             /\ recovery' = [gen |-> g, epoch |-> ev.epoch]
    <2>1. Len(events') = 2 /\ events'[1] = own /\ events'[2] = ev
      BY <1>6
    <2>2. \A j \in 1..Len(events') : events'[j] = own \/ events'[j] = ev
      BY <2>1
    <2>3. 1 \in 1..Len(events')
      BY <2>1
    <2> QED
      BY <1>2, <1>6, <2>1, <2>2, <2>3
  <1>7. CASE /\ ev.kind = "disc" /\ events' \in {<<reset>>, Append(events, reset)}
             /\ next_generation' = g /\ recovery' = [gen |-> g, epoch |-> ev.epoch]
    <2>1. CASE events' = <<reset>>
      <3>1. Len(events') = 1 /\ events'[1] = reset
        BY <2>1
      <3>2. 1 \in 1..Len(events') /\ \A j \in 1..Len(events') : events'[j] = reset
        BY <3>1
      <3> QED
        BY <1>2, <1>7, <3>1, <3>2
    <2>2. CASE events' = Append(events, reset)
      <3>1. /\ Len(events') = Len(events) + 1
            /\ \A i \in 1..Len(events) : events'[i] = events[i]
            /\ events'[Len(events) + 1] = reset
            /\ \A i \in 1..Len(events') : i \in 1..Len(events) \/ events'[i] = reset
        BY <1>1, <1>2, <2>2, AppendElements
      <3>2. Len(events) + 1 \in 1..Len(events')
        BY <1>1, <3>1
      <3> QED
        BY <1>2, <1>7, <3>1, <3>2
    <2> QED
      BY <1>7, <2>1, <2>2
  <1> QED
    BY <1>3, <1>4, <1>5, <1>6, <1>7

\* A pop hands out the first event and keeps the rest.
LEMMA PopEffect ==
    ASSUME TypeOK, Popping
    PROVE  /\ seen' = events[1] /\ seen' \in Event /\ 1 \in 1..Len(events)
           /\ Head(events) = events[1]
           /\ \A j \in 1..Len(events') : \E i \in 2..Len(events) : events'[j] = events[i]
           /\ \A i \in 2..Len(events) : \E j \in 1..Len(events') : events'[j] = events[i]
           /\ UNCHANGED <<next_generation, recovery, fec_epoch, batch, sess, leaseHolder>>
  <1>1. events # << >> /\ events' = Tail(events) /\ seen' = Head(events)
    BY DEF Popping, PopEvent
  <1>2. /\ Len(events') = Len(events) - 1 /\ Head(events) = events[1]
        /\ \A i \in 1..Len(events') : events'[i] = events[i + 1]
        /\ Len(events) \in Nat \ {0} /\ events[1] \in Event
    BY <1>1, QueueFacts, HeadTailProperties, EmptySeq
  <1>3. /\ \A j \in 1..Len(events') : j + 1 \in 2..Len(events)
        /\ \A i \in 2..Len(events) : i - 1 \in 1..Len(events') /\ (i - 1) + 1 = i
    BY <1>2
  <1>4. \A i \in 2..Len(events) : \E j \in 1..Len(events') : events'[j] = events[i]
    <2> TAKE i \in 2..Len(events)
    <2>1. i - 1 \in 1..Len(events') /\ events'[i - 1] = events[(i - 1) + 1]
      BY <1>2, <1>3
    <2> QED
      BY <1>3, <2>1
  <1>5. UNCHANGED <<next_generation, recovery, fec_epoch, batch, sess, leaseHolder>>
    BY DEF Popping, PopEvent, fecVars, leaseVars
  <1> QED
    BY <1>1, <1>2, <1>3, <1>4, <1>5

\* A push of an event computed earlier (consume_events).
LEMMA ConsumePushes ==
    ASSUME TypeOK, NEW t \in Threads, ConsumeEvent(t)
    PROVE  LET ev == batch[t][1] IN
           /\ ev \in Event /\ 1 \in 1..Len(batch[t])
           /\ \/ UNCHANGED queueVars
              \/ ev.kind = "frame" /\ PushFrame(ev)
              \/ ev.kind = "disc" /\ PushDiscontinuity(ev)
           /\ \A i \in 1..Len(batch'[t]) :
                 i + 1 \in 1..Len(batch[t]) /\ batch'[t][i] = batch[t][i + 1]
           /\ \A u \in Threads : u # t => batch'[u] = batch[u]
           /\ UNCHANGED <<seen, fec_epoch, leaseHolder, sess>>
  <1>1. batch \in [Threads -> Seq(Event)] /\ batch[t] \in Seq(Event) /\ batch[t] # << >>
    BY DEF TypeOK, ConsumeEvent
  <1>2. /\ Head(batch[t]) = batch[t][1] /\ batch[t][1] \in Event
        /\ Len(batch[t]) \in Nat \ {0} /\ Len(Tail(batch[t])) = Len(batch[t]) - 1
        /\ \A i \in 1..Len(Tail(batch[t])) : Tail(batch[t])[i] = batch[t][i + 1]
    BY <1>1, HeadTailProperties, EmptySeq
  <1>3. /\ \/ UNCHANGED queueVars
           \/ batch[t][1].kind = "frame" /\ PushFrame(batch[t][1])
           \/ batch[t][1].kind = "disc" /\ PushDiscontinuity(batch[t][1])
        /\ batch' = [batch EXCEPT ![t] = Tail(@)]
    BY <1>2 DEF ConsumeEvent
  <1>4. batch'[t] = Tail(batch[t]) /\ \A u \in Threads : u # t => batch'[u] = batch[u]
    BY <1>1, <1>3
  <1>5. UNCHANGED <<seen, fec_epoch, leaseHolder, sess>>
    BY DEF ConsumeEvent, leaseVars
  <1>6. 1 \in 1..Len(batch[t]) /\ \A i \in 1..Len(batch'[t]) : i + 1 \in 1..Len(batch[t])
    BY <1>2, <1>4
  <1> QED
    BY <1>2, <1>3, <1>4, <1>5, <1>6

\* Every step of the shared receiver keeps the conjunction.
LEMMA InvStep == IInv /\ [Next]_vars => IInv'
  BY TypeStep, PhaseStep, ReceiverInvStep, GenStep, PipelineStep DEF IInv

\* So does the pop of any consumer of wait_event and try_event ...
LEMMA InvPop ==
    ASSUME IInv, Popping
    PROVE  IInv'
  <1>1. TypeOK'
    <2>1. Head(events) \in Event /\ Tail(events) \in Seq(Event)
      BY HeadTailProperties DEF IInv, Popping, PopEvent, TypeOK, QueueTypeOK
    <2> QED
      BY <2>1 DEF IInv, Popping, PopEvent, Seen, TypeOK, QueueTypeOK, rxVars, frameVars,
                  leaseVars, fecVars
  <1>2. PhaseInv'
    BY DEF IInv, Popping, PopEvent, PhaseInv, rxVars, frameVars, leaseVars, fecVars
  <1>3. ReceiverInv'
    BY DEF IInv, Popping, ReceiverInv, rxVars, frameVars
  <1> QED
    BY <1>1, <1>2, <1>3, PopGen, PopPipeline DEF IInv

\* ... and every acknowledgement of a generation that is not queued any more.
LEMMA InvAck ==
    ASSUME IInv, NEW g, NEW e, AcknowledgeRecovery(g, e), UNCHANGED <<coreVars, seen>>,
           \A i \in 1..Len(events) : events[i].kind = "disc" => events[i].gen # g
    PROVE  IInv'
  <1> USE DEF coreVars, rxVars, frameVars, leaseVars, fecVars, pollVars, AcknowledgeRecovery
  <1>1. TypeOK'
    BY DEF IInv, NoRecovery, TypeOK, QueueTypeOK
  <1>2. PhaseInv' /\ ReceiverInv'
    BY DEF IInv, PhaseInv, ReceiverInv
  <1>3. GenInv'
    BY AckGen DEF IInv
  <1>4. Producer' = Producer
    BY DEF Producer
  <1>5. Pipeline'
    BY <1>4, Aside DEF IInv
  <1> QED
    BY <1>1, <1>2, <1>3, <1>5 DEF IInv

\* The conjunction is inductive: every reachable state of the shared receiver
\* (capi.rs) satisfies it.
THEOREM Invariance == Spec => []IInv
  <1>1. Init => IInv
    BY TypeInit, PhaseInit, GenInit, PipelineInit DEF IInv
  <1>2. IInv /\ [Next]_vars => IInv'
    BY InvStep
  <1> QED
    BY <1>1, <1>2, PTL DEF Spec

\* Generations identify recoveries in every reachable state, so that a reset
\* that is popped finds its recovery open and only the newest can be closed
\* (frame_queue.rs, acknowledge_recovery).
THEOREM Generations == Spec => []GenerationsOrdered
  <1>1. IInv => GenerationsOrdered
    BY DEF IInv, GenInv
  <1> QED
    BY <1>1, Invariance, PTL

\* The consumer of the frame queue never sees a delta whose reference is
\* missing without a reset in between: for every capacity of the queue, every
\* interleaving of DataChannel callback, tick, C callers and consumer, and
\* every loss the receiver reports (capi.rs consume_events, frame_queue.rs).
THEOREM UnbrokenDelivery == Spec => []NoGapWithoutReset
  <1>1. IInv => NoGapWithoutReset
    BY DEF IInv, Pipeline
  <1> QED
    BY <1>1, Invariance, PTL

-----------------------------------------------------------------------------
(* Pre-session ingress.                                                    *)

\* What callback and tick have computed is the session's, and so is what is
\* queued while a session negotiates or streams.
SourceInv ==
    /\ \A t \in {"cb", "tick"} : \A i \in 1..Len(batch[t]) : batch[t][i].src = "session"
    /\ sess \in {"negotiating", "streaming"} =>
          \A i \in 1..Len(events) : events[i].src # "standalone"

\* `e` before `f` keeps the contract between frames and resets.
Before(e, f) == e.kind = "frame" /\ f.kind = "disc" /\ f.src # "queue" => e.ord < f.ord

\* No session has been started: the queue and, behind it, the batch of the
\* standalone caller are in the order in which the receiver emitted them, and
\* the next reset is newer than all of it.
OrderInv ==
    LET b == batch["c"] IN
    /\ \A i \in 1..Len(events) : events[i].kind = "frame" => events[i].ord <= discs
    /\ \A i \in 1..Len(b) : b[i].kind = "frame" => b[i].ord <= discs
    /\ \A i, j \in 1..Len(events) : i < j => Before(events[i], events[j])
    /\ \A i, j \in 1..Len(b) : i < j => Before(b[i], b[j])
    /\ \A i \in 1..Len(events), j \in 1..Len(b) : Before(events[i], b[j])

IngressInv == SourceInv /\ (~ever_started => OrderInv)

\* A step that leaves queue, batches, phase and the count of resets alone.
LEMMA IngressAside ==
    ASSUME IngressInv, UNCHANGED <<events, batch>>,
           \/ UNCHANGED <<discs, ever_started, sess>>
           \/ ever_started' /\ sess' \in {"leased", "draining", "streaming", "ended"}
                            /\ (sess' = "streaming" => sess = "negotiating")
    PROVE  IngressInv'
  BY DEF IngressInv, SourceInv, OrderInv, Before

\* The receiver emits resets in order, and frames with the count of them.
LEMMA ReceiverIngress ==
    ASSUME IInv, IngressInv, NEW t \in {"c", "cb"}, ReceiverStep(t)
    PROVE  IngressInv'
  <1> DEFINE b == batch[t]
             F(n, key) == FrameAt(n, key, t)
             D == DiscEvent(0, fec_epoch, discs + 1, Src(t))
             Ordered(c, m) ==
                /\ c \in Seq(Event)
                /\ \A i \in 1..Len(c) : c[i].kind = "frame" => c[i].ord <= m
                /\ \A i, j \in 1..Len(c) : i < j => Before(c[i], c[j])
                /\ \A i \in 1..Len(events), j \in 1..Len(c) : Before(events[i], c[j])
             Session(c) == c \in Seq(Event) /\ \A i \in 1..Len(c) : c[i].src = "session"
  <1>1. /\ TypeOK /\ PhaseInv /\ b \in Seq(Event) /\ fec_epoch \in Nat
        /\ discs \in Nat /\ discs + 1 \in Nat /\ Src(t) \in Sources /\ t \in Threads
        /\ \A i \in 1..Len(events) : events[i] \in Event /\ events[i].ord \in Nat
        /\ \A e \in Event : e.ord \in Nat
    <2>1. \A e \in Event : e.ord \in Nat
      BY DEF Event
    <2>2. TypeOK /\ PhaseInv /\ \A i \in 1..Len(events) : events[i] \in Event
      BY QueueFacts DEF IInv
    <2>3. t \in Threads /\ Src(t) \in Sources
      BY DEF Threads, Src, Sources
    <2> QED
      BY <2>1, <2>2, <2>3 DEF TypeOK
  <1>2. /\ rxHolder = t /\ UNCHANGED <<events, sess, ever_started>>
        /\ \A u \in Threads : u # t => batch'[u] = batch[u]
    BY <1>1, ReceiverFrame DEF queueVars, leaseVars
  <1>3. /\ \A n \in Nat, key \in BOOLEAN :
              /\ F(n, key) \in Event /\ F(n, key).kind = "frame"
              /\ F(n, key).ord = discs /\ F(n, key).src = Src(t)
        /\ D \in Event /\ D.kind = "disc" /\ D.ord = discs + 1 /\ D.src = Src(t)
    BY <1>1, EventTypes DEF FrameAt, FrameEvent, DiscEvent
  <1>4. ASSUME NEW c, Session(c), NEW e \in Event, e.src = "session"
        PROVE  Session(Append(c, e))
    BY <1>4, AppendElements
  <1>5. ASSUME NEW c, Ordered(c, discs), NEW e \in Event, e.kind = "frame", e.ord = discs
        PROVE  Ordered(Append(c, e), discs)
    <2>1. /\ Append(c, e) \in Seq(Event) /\ Len(Append(c, e)) = Len(c) + 1 /\ Len(c) \in Nat
          /\ \A i \in 1..Len(c) : Append(c, e)[i] = c[i]
          /\ \A i \in 1..Len(Append(c, e)) : i \in 1..Len(c) \/ Append(c, e)[i] = e
          /\ \A i, j \in 1..Len(Append(c, e)) : i < j => i \in 1..Len(c)
      BY <1>5, AppendElements
    <2>2. \A x : Before(x, e)
      BY <1>5 DEF Before
    <2>3. \A i \in 1..Len(Append(c, e)) :
              Append(c, e)[i].kind = "frame" => Append(c, e)[i].ord <= discs
      BY <1>1, <1>5, <2>1
    <2> QED
      BY <1>5, <2>1, <2>2, <2>3
  <1>6. ASSUME NEW c, Ordered(c, discs), NEW e \in Event, e.kind = "disc", e.ord = discs + 1,
               \A i \in 1..Len(events) : events[i].kind = "frame" => events[i].ord <= discs
        PROVE  Ordered(Append(c, e), discs + 1)
    <2>1. /\ Append(c, e) \in Seq(Event) /\ Len(Append(c, e)) = Len(c) + 1 /\ Len(c) \in Nat
          /\ \A i \in 1..Len(c) : Append(c, e)[i] = c[i] /\ c[i] \in Event
          /\ \A i \in 1..Len(Append(c, e)) : i \in 1..Len(c) \/ Append(c, e)[i] = e
          /\ \A i, j \in 1..Len(Append(c, e)) : i < j => i \in 1..Len(c)
      BY <1>6, AppendElements, ElementOfSeq
    <2>2. /\ \A i \in 1..Len(c) : Before(c[i], e)
          /\ \A i \in 1..Len(events) : Before(events[i], e)
      BY <1>1, <1>6, <2>1 DEF Before
    <2>3. \A i \in 1..Len(Append(c, e)) :
              Append(c, e)[i].kind = "frame" => Append(c, e)[i].ord <= discs + 1
      BY <1>1, <1>6, <2>1
    <2> QED
      BY <1>6, <2>1, <2>2, <2>3
  <1>7. \/ UNCHANGED <<batch, discs>>
        \/ /\ UNCHANGED discs
           /\ \E n \in Nat, k \in BOOLEAN : batch'[t] = Append(b, F(n, k))
        \/ /\ UNCHANGED discs
           /\ \E n \in Nat, m \in Nat, k \in BOOLEAN, l \in BOOLEAN :
                 batch'[t] = Append(Append(b, F(n, k)), F(m, l))
        \/ discs' = discs + 1 /\ batch'[t] = Append(b, D)
    BY <1>1, ReceiverOut
  <1>8. batch'[t] = b \/ ~UNCHANGED batch
    OBVIOUS
  <1> HIDE DEF Ordered, Session, F, D, b
  <1>9. CASE t = "cb"
    <2>1. ever_started /\ Session(b) /\ Src(t) = "session"
      BY <1>1, <1>2, <1>9 DEF PhaseInv, Session, IngressInv, SourceInv, b, Src
    <2>2. Session(batch'[t])
      <3>1. ASSUME NEW n \in Nat, NEW m \in Nat, NEW k \in BOOLEAN, NEW l \in BOOLEAN
            PROVE  Session(Append(b, F(n, k))) /\ Session(Append(Append(b, F(n, k)), F(m, l)))
        BY <1>3, <1>4, <2>1
      <3>2. Session(Append(b, D))
        BY <1>3, <1>4, <2>1
      <3> QED
        BY <1>7, <1>8, <2>1, <3>1, <3>2
    <2> QED
      BY <1>2, <1>9, <2>1, <2>2 DEF IngressInv, SourceInv, Session, Threads
  <1>10. CASE t = "c"
    <2>1. SourceInv'
      BY <1>2, <1>10 DEF IngressInv, SourceInv, Threads
    <2>2. ASSUME ~ever_started PROVE OrderInv'
      <3>1. /\ Ordered(b, discs)
            /\ \A i \in 1..Len(events) : events[i].kind = "frame" => events[i].ord <= discs
            /\ \A i, j \in 1..Len(events) : i < j => Before(events[i], events[j])
        BY <1>1, <1>10, <2>2 DEF IngressInv, OrderInv, Ordered, b
      <3>2. ASSUME NEW n \in Nat, NEW m \in Nat, NEW k \in BOOLEAN, NEW l \in BOOLEAN
            PROVE  /\ Ordered(Append(b, F(n, k)), discs)
                   /\ Ordered(Append(Append(b, F(n, k)), F(m, l)), discs)
        BY <1>3, <1>5, <3>1
      <3>3. Ordered(Append(b, D), discs + 1)
        BY <1>3, <1>6, <3>1
      <3>4. Ordered(batch'[t], discs') /\ (discs' = discs \/ discs' = discs + 1)
        BY <1>7, <1>8, <3>1, <3>2, <3>3
      <3>5. \A i \in 1..Len(events) : events[i].kind = "frame" => events[i].ord <= discs'
        BY <1>1, <3>1, <3>4
      <3> QED
        BY <1>2, <1>10, <3>1, <3>4, <3>5 DEF OrderInv, Ordered, Before
    <2> QED
      BY <1>2, <2>1, <2>2 DEF IngressInv
  <1> QED
    BY <1>9, <1>10

\* A push moves the oldest event of a batch to the end of the queue.
LEMMA ConsumeIngress ==
    ASSUME IInv, IngressInv, NEW t \in Threads, ConsumeEvent(t)
    PROVE  IngressInv'
  <1> DEFINE ev == batch[t][1]
             g == next_generation + 1
             own == DiscEvent(g, ev.epoch, 0, "queue")
             reset == [ev EXCEPT !.gen = g]
  <1>1. /\ TypeOK /\ PhaseInv /\ ev \in Event /\ 1 \in 1..Len(batch[t])
        /\ Len(batch[t]) \in Nat
        /\ \A i \in 1..Len(batch'[t]) :
              i + 1 \in 1..Len(batch[t]) /\ batch'[t][i] = batch[t][i + 1]
        /\ \A u \in Threads : u # t => batch'[u] = batch[u]
        /\ UNCHANGED <<seen, leaseHolder, sess, ever_started, discs>>
    <2>1. TypeOK /\ PhaseInv
      BY DEF IInv
    <2>2. UNCHANGED <<ever_started, discs>>
      BY DEF ConsumeEvent, rxVars, frameVars, leaseVars
    <2>3. batch[t] \in Seq(Event)
      BY <2>1 DEF TypeOK
    <2> QED
      BY <2>1, <2>2, <2>3, ConsumePushes, LenProperties
  <1>2. /\ own.kind = "disc" /\ own.src = "queue" /\ own \in Event
        /\ reset \in Event /\ reset.kind = ev.kind /\ reset.src = ev.src /\ reset.ord = ev.ord
        /\ \/ UNCHANGED events
           \/ ev.kind = "frame" /\ events' = <<own, ev>>
           \/ events' = <<reset>>
           \/ \E e \in {ev, reset} : events' = Append(events, e)
    <2>1. /\ own \in Event /\ own.kind = "disc" /\ own.src = "queue"
          /\ reset \in Event /\ reset.kind = ev.kind /\ reset.src = ev.src /\ reset.ord = ev.ord
      <3>1. g \in Nat /\ ev.epoch \in Nat
        BY <1>1, QueueFacts DEF Event
      <3> QED
        BY <1>1, <3>1, EventTypes, StampedReset DEF DiscEvent, Sources
    <2>2. \/ UNCHANGED queueVars
          \/ ev.kind = "frame" /\ PushFrame(ev)
          \/ ev.kind = "disc" /\ PushDiscontinuity(ev)
      BY <1>1, ConsumePushes
    <2>3. CASE UNCHANGED queueVars
      BY <2>1, <2>3 DEF queueVars
    <2>4. CASE ~UNCHANGED queueVars
      <3>1. \/ events' = Append(events, ev)
            \/ ev.kind = "frame" /\ events' = <<own, ev>>
            \/ events' \in {<<reset>>, Append(events, reset)}
        BY <1>1, <2>2, <2>4, PushShape
      <3> QED
        BY <2>1, <3>1
    <2> QED
      BY <2>3, <2>4
  <1> HIDE DEF ev, own, reset
  <1>3. /\ events \in Seq(Event) /\ Len(events) \in Nat
        /\ \A i \in 1..Len(events) : events[i] \in Event
    BY <1>1, QueueFacts
  \* Every queued event is an old one, the queue's own reset, or looks like `ev`.
  <1>4. \A j \in 1..Len(events') :
            \/ j \in 1..Len(events) /\ events'[j] = events[j]
            \/ events'[j] = own /\ j = 1
            \/ /\ events'[j].kind = ev.kind /\ events'[j].src = ev.src
               /\ events'[j].ord = ev.ord /\ j = Len(events')
    <2>1. CASE UNCHANGED events
      BY <2>1
    <2>2. CASE ev.kind = "frame" /\ events' = <<own, ev>>
      <3>1. Len(events') = 2 /\ events'[1] = own /\ events'[2] = ev
        BY <2>2
      <3> QED
        BY <3>1
    <2>3. CASE events' = <<reset>>
      <3>1. Len(events') = 1 /\ events'[1] = reset
        BY <2>3
      <3> QED
        BY <1>2, <3>1
    <2>4. ASSUME NEW e \in {ev, reset}, events' = Append(events, e)
          PROVE  \A j \in 1..Len(events') :
                    \/ j \in 1..Len(events) /\ events'[j] = events[j]
                    \/ /\ events'[j].kind = ev.kind /\ events'[j].src = ev.src
                       /\ events'[j].ord = ev.ord /\ j = Len(events')
      <3>1. e \in Event /\ e.kind = ev.kind /\ e.src = ev.src /\ e.ord = ev.ord
        BY <1>1, <1>2, <2>4
      <3>2. /\ Len(events') = Len(events) + 1
            /\ \A i \in 1..Len(events) : events'[i] = events[i]
            /\ \A i \in 1..Len(events') : i \in 1..Len(events) \/ events'[i] = e
            /\ events'[Len(events) + 1] = e
        BY <1>3, <2>4, <3>1, AppendElements
      <3>3. \A i \in 1..Len(events') : i \in 1..Len(events) \/ i = Len(events')
        BY <1>3, <3>2
      <3> QED
        BY <3>1, <3>2, <3>3
    <2> QED
      BY <1>2, <2>1, <2>2, <2>3, <2>4
  <1>5. SourceInv'
    <2>1. \A u \in {"cb", "tick"} : \A i \in 1..Len(batch'[u]) : batch'[u][i].src = "session"
      BY <1>1 DEF IngressInv, SourceInv, Threads
    <2>2. ASSUME sess \in {"negotiating", "streaming"}, NEW j \in 1..Len(events')
          PROVE  events'[j].src # "standalone"
      <3>1. t # "c"
        BY <1>1, <2>2 DEF PhaseInv, TypeOK
      <3>2. ev.src = "session"
        BY <1>1, <3>1 DEF IngressInv, SourceInv, Threads, ev
      <3>3. \A i \in 1..Len(events) : events[i].src # "standalone"
        BY <2>2 DEF IngressInv, SourceInv
      <3> QED
        BY <1>2, <1>4, <3>2, <3>3
    <2> QED
      BY <1>1, <2>1, <2>2 DEF SourceInv
  <1>6. ASSUME ~ever_started PROVE OrderInv'
    <2> DEFINE b == batch["c"]
               c == batch'["c"]
    <2>1. t = "c" /\ OrderInv
      BY <1>1, <1>6 DEF PhaseInv, Threads, IngressInv
    <2>2. /\ \A i \in 1..Len(events) : events[i].kind = "frame" => events[i].ord <= discs
          /\ \A i, j \in 1..Len(events) : i < j => Before(events[i], events[j])
          /\ \A i \in 1..Len(events), j \in 1..Len(b) : Before(events[i], b[j])
          /\ \A i \in 1..Len(b) : b[i].kind = "frame" => b[i].ord <= discs
          /\ \A i, j \in 1..Len(b) : i < j => Before(b[i], b[j])
      BY <2>1 DEF OrderInv
    <2>3. /\ ev = b[1] /\ 1 \in 1..Len(b) /\ Len(b) \in Nat
          /\ \A i \in 1..Len(c) : i + 1 \in 1..Len(b) /\ c[i] = b[i + 1]
      BY <1>1, <2>1 DEF ev
    <2> HIDE DEF b, c
    <2>4. /\ \A i \in 1..Len(c) : 1 < i + 1
          /\ \A i, j \in 1..Len(c) : i < j => i + 1 < j + 1
      OBVIOUS
    <2>5. /\ \A i \in 1..Len(c) : c[i].kind = "frame" => c[i].ord <= discs
          /\ \A i, j \in 1..Len(c) : i < j => Before(c[i], c[j])
          /\ \A j \in 1..Len(c) : Before(ev, c[j])
          /\ \A i \in 1..Len(events), j \in 1..Len(c) : Before(events[i], c[j])
      BY <2>2, <2>3, <2>4
    <2>6. ev.kind = "frame" => ev.ord <= discs
      BY <2>2, <2>3
    <2>7. \A i \in 1..Len(events') : events'[i].kind = "frame" => events'[i].ord <= discs
      BY <1>2, <1>4, <2>2, <2>6
    <2>8. \A i \in 1..Len(events'), j \in 1..Len(c) : Before(events'[i], c[j])
      BY <1>2, <1>4, <2>5 DEF Before
    <2>9. \A i, j \in 1..Len(events') : i < j => Before(events'[i], events'[j])
      <3> SUFFICES ASSUME NEW i \in 1..Len(events'), NEW j \in 1..Len(events'), i < j
                   PROVE  Before(events'[i], events'[j])
        OBVIOUS
      <3>1. j # 1 /\ i # Len(events')
        OBVIOUS
      <3>2. (i \in 1..Len(events) /\ events'[i] = events[i]) \/ events'[i] = own
        BY <1>4, <3>1
      <3>3. CASE events'[i] = own
        BY <1>2, <3>3 DEF Before
      <3>4. CASE i \in 1..Len(events) /\ events'[i] = events[i]
        <4>1. CASE j \in 1..Len(events) /\ events'[j] = events[j]
          BY <2>2, <3>4, <4>1
        <4>2. CASE /\ events'[j].kind = ev.kind /\ events'[j].src = ev.src
                   /\ events'[j].ord = ev.ord
          <5>1. Before(events[i], ev)
            BY <2>2, <2>3, <3>4
          <5> QED
            BY <3>4, <4>2, <5>1 DEF Before
        <4> QED
          BY <1>4, <3>1, <4>1, <4>2
      <3> QED
        BY <3>2, <3>3, <3>4
    <2> QED
      BY <1>1, <2>5, <2>7, <2>8, <2>9 DEF OrderInv, Before, c
  <1> QED
    BY <1>1, <1>5, <1>6 DEF IngressInv

\* A tick computes at most one reset, newer than everything before it.
LEMMA TickIngress ==
    ASSUME IInv, IngressInv, NEW t \in {"c", "tick"}, TickCompute(t),
           UNCHANGED <<events, sess, ever_started>>, t = "tick" => ever_started
    PROVE  IngressInv'
  <1> DEFINE D == DiscEvent(0, fec_epoch, discs + 1, Src(t))
  <1>1. /\ TypeOK /\ discs \in Nat /\ \A u \in Threads : u # t => batch'[u] = batch[u]
        /\ \A i \in 1..Len(events) : events[i].ord \in Nat
    <2>1. TypeOK /\ \A i \in 1..Len(events) : events[i] \in Event
      BY QueueFacts DEF IInv
    <2>2. \A e \in Event : e.ord \in Nat
      BY DEF Event
    <2> QED
      BY <2>1, <2>2, TickFrame DEF TypeOK
  <1>2. \/ UNCHANGED <<batch, discs>>
        \/ batch'[t] = <<D>> /\ discs' = discs + 1
    <2>1. CASE ReorderGap(t)
      <3>1. discs' = discs + 1 /\ awaiting_idr' = TRUE /\ Discontinue /\ stale_anchor' = FALSE
            /\ (~awaiting_idr \/ stale_anchor)
        BY <2>1 DEF ReorderGap, Discontinue
      <3>2. UNCHANGED <<batch, pos, held, awaiting_idr, stale_anchor>> => FALSE
        <4>1. pos' # pos
          BY <1>1, <3>1 DEF Discontinue, TypeOK
        <4> QED
          BY <4>1
      <3> QED
        BY <1>1, <3>1, <3>2, TickFrame
    <2>2. CASE UNCHANGED <<batch, discs>>
      BY <2>2
    <2> QED
      BY <2>1, <2>2 DEF TickCompute
  <1>3. CASE UNCHANGED <<batch, discs>>
    BY <1>3, IngressAside
  <1>4. CASE batch'[t] = <<D>> /\ discs' = discs + 1
    <2>1. /\ Len(batch'[t]) = 1 /\ batch'[t][1] = D /\ D.kind = "disc"
          /\ D.ord = discs + 1 /\ D.src = Src(t)
      BY <1>4 DEF DiscEvent
    <2> HIDE DEF D
    <2>2. CASE t = "tick"
      BY <1>1, <2>1, <2>2 DEF IngressInv, SourceInv, Src, Threads
    <2>3. CASE t = "c"
      <3>1. SourceInv'
        BY <1>1, <2>3 DEF IngressInv, SourceInv, Threads
      <3>2. ASSUME ~ever_started PROVE OrderInv'
        <4>1. /\ \A i \in 1..Len(events) : events[i].kind = "frame" => events[i].ord <= discs
              /\ \A i, j \in 1..Len(events) : i < j => Before(events[i], events[j])
          BY <3>2 DEF IngressInv, OrderInv
        <4>2. \A i \in 1..Len(events) : events[i].kind = "frame" => events[i].ord <= discs'
          BY <1>1, <1>4, <4>1
        <4>3. /\ \A i \in 1..Len(batch'["c"]) : i = 1
              /\ ~(\E i, j \in 1..Len(batch'["c"]) : i < j)
          <5>1. Len(batch'["c"]) = 1
            BY <2>1, <2>3
          <5>2. ASSUME NEW n, n = 1
                PROVE  (\A i \in 1..n : i = 1) /\ ~(\E i, j \in 1..n : i < j)
            BY <5>2
          <5> QED
            BY <5>1, <5>2
        <4>4. \A i \in 1..Len(events) : Before(events[i], D)
          BY <1>1, <2>1, <4>1 DEF Before
        <4> QED
          BY <2>1, <2>3, <4>1, <4>2, <4>3, <4>4 DEF OrderInv, Before
      <3> QED
        BY <3>1, <3>2 DEF IngressInv
    <2> QED
      BY <2>2, <2>3
  <1> QED
    BY <1>2, <1>3, <1>4

\* A pop shortens the queue at its front.
LEMMA PopIngress ==
    ASSUME TypeOK, IngressInv, Popping
    PROVE  IngressInv'
  <1>1. /\ Len(events) \in Nat
        /\ UNCHANGED <<batch, discs, sess, ever_started>>
    BY QueueFacts DEF Popping, rxVars, frameVars, leaseVars
  <1>2. /\ Len(events') = Len(events) - 1
        /\ \A i \in 1..Len(events') : events'[i] = events[i + 1]
    <2>1. events # << >>
      BY DEF Popping, PopEvent
    <2> QED
      BY <2>1, QueueFacts, HeadTailProperties DEF Popping, PopEvent
  <1>3. /\ \A i \in 1..Len(events') : i + 1 \in 1..Len(events)
        /\ \A i, j \in 1..Len(events') : i < j => i + 1 < j + 1
    BY <1>1, <1>2
  <1>4. SourceInv'
    BY <1>1, <1>2, <1>3 DEF IngressInv, SourceInv
  <1>5. ASSUME OrderInv PROVE OrderInv'
    <2>1. /\ \A i \in 1..Len(events') : events'[i].kind = "frame" => events'[i].ord <= discs'
          /\ \A i \in 1..Len(events'), j \in 1..Len(batch'["c"]) :
                Before(events'[i], batch'["c"][j])
      BY <1>1, <1>2, <1>3, <1>5 DEF OrderInv
    <2>2. ASSUME NEW i \in 1..Len(events'), NEW j \in 1..Len(events'), i < j
          PROVE  Before(events'[i], events'[j])
      <3>1. /\ i + 1 \in 1..Len(events) /\ j + 1 \in 1..Len(events) /\ i + 1 < j + 1
            /\ events'[i] = events[i + 1] /\ events'[j] = events[j + 1]
        BY <1>2, <1>3, <2>2
      <3>2. Before(events[i + 1], events[j + 1])
        BY <1>5, <3>1 DEF OrderInv
      <3> QED
        BY <3>1, <3>2
    <2> QED
      BY <1>1, <1>5, <2>1, <2>2 DEF OrderInv, Before
  <1> QED
    BY <1>1, <1>4, <1>5 DEF IngressInv

\* One step per action.
LEMMA IngressStep ==
    IInv /\ IngressInv /\ [Next]_vars => IngressInv'
  <1> SUFFICES ASSUME IInv, IngressInv, [Next]_vars PROVE IngressInv'
    OBVIOUS
  <1>0. TypeOK /\ PhaseInv
    BY DEF IInv
  <1>1. ASSUME NEW t \in {"c", "cb"}, ReceiverStep(t) PROVE IngressInv'
    BY <1>1, ReceiverIngress
  <1>2. ASSUME NEW t \in Threads, ConsumeEvent(t) PROVE IngressInv'
    BY <1>2, ConsumeIngress
  <1>3. CASE Tick
    BY <1>0, <1>3, TickIngress DEF Tick, queueVars, leaseVars, PhaseInv
  <1>4. CASE OnStandaloneTick
    BY <1>4, TickIngress DEF OnStandaloneTick, queueVars
  <1>5. CASE ConsumerPop
    BY <1>0, <1>5, PopIsPopping, PopIngress
  <1>6. CASE DrainBeforeSession
    <2>1. /\ events' = << >> /\ UNCHANGED <<batch, ever_started>> /\ ever_started
      BY <1>0, <1>6 DEF DrainBeforeSession, PhaseInv
    <2>2. Len(events') = 0
      BY <2>1
    <2> QED
      BY <2>1, <2>2 DEF IngressInv, SourceInv
  <1>7. CASE AcquireSessionLease \/ BeginFecNegotiation \/ SessionEnd
    <2>1. /\ UNCHANGED <<events, batch>> /\ ever_started'
          /\ sess' \in {"leased", "draining", "ended"}
      BY <1>0, <1>7 DEF AcquireSessionLease, BeginFecNegotiation, SessionEnd, CloseQueue,
                        queueVars, PhaseInv
    <2> QED
      BY <2>1, IngressAside
  <1>8. ASSUME NEW e \in Epochs, ConfigureFec(e) PROVE IngressInv'
    <2>1. /\ UNCHANGED <<events, batch>> /\ ever_started' /\ sess = "negotiating"
          /\ sess' = "streaming"
      BY <1>0, <1>8 DEF ConfigureFec, queueVars, PhaseInv
    <2> QED
      BY <2>1, IngressAside
  <1>9. ASSUME UNCHANGED <<events, batch, frameVars, ever_started, sess>> PROVE IngressInv'
    BY <1>9, IngressAside DEF frameVars
  <1>10. CASE Close \/ OnMessage \/ OnStandaloneMessage \/ StandaloneReturn
    BY <1>9, <1>10 DEF Close, CloseQueue, OnMessage, OnStandaloneMessage, StandaloneReturn,
                       queueVars, leaseVars, rxVars
  <1>11. ASSUME NEW t \in Threads, ConsumeAck(t) \/ UnlockReceiver(t) PROVE IngressInv'
    BY <1>9, <1>11 DEF ConsumeAck, UnlockReceiver, queueVars, leaseVars, rxVars
  <1>12. CASE ConsumerAck \/ RequestIdr \/ PollAck \/ UNCHANGED vars
    BY <1>9, <1>12 DEF ConsumerAck, AcknowledgeRecovery, RequestIdr, PollAck, vars, queueVars,
                       coreVars, leaseVars, rxVars
  <1>13. CASE PollNeedsIdr
    <2>1. UNCHANGED <<events, batch, discs, ever_started, sess>>
      BY <1>13 DEF PollNeedsIdr, leaseVars
    <2> QED
      BY <2>1, IngressAside
  <1> QED
    BY <1>1, <1>2, <1>3, <1>4, <1>5, <1>6, <1>7, <1>8, <1>10, <1>11, <1>12, <1>13
    DEF Next, SessionIngress, StandaloneIngress, Lifecycle, Consumer, Ingress, Threads

\* Pre-session ingress stays in order and out of the session (capi.rs:211-226,
\* on_standalone_message and on_standalone_tick, frame_queue.rs:11-14): the lease is held
\* over a whole standalone call, so its resets are queued ahead of the frames
\* they gate, and none of its events is left when a session streams.
THEOREM StandaloneIngressOrdered == Spec => []IngressInOrder
  <1>1. Init => IngressInv
    BY DEF Init, QueueInit, CoreInit, IngressInv, SourceInv, OrderInv, Threads
  <1>2. IInv /\ IngressInv /\ [Next]_vars => IngressInv'
    BY IngressStep
  <1>3. IInv /\ IngressInv => IngressInOrder
    <2> SUFFICES ASSUME IInv, IngressInv PROVE IngressInOrder
      OBVIOUS
    <2>1. NoStaleIngress
      BY DEF IInv, PhaseInv, TypeOK, IngressInv, SourceInv, NoStaleIngress
    <2>2. StandaloneResetOrder
      BY DEF IngressInv, OrderInv, Before, StandaloneResetOrder, ResetBeforeGatedFrames
    <2> QED
      BY <2>1, <2>2 DEF IngressInOrder
  <1> QED
    BY <1>1, <1>2, <1>3, Invariance, PTL DEF Spec
=============================================================================
