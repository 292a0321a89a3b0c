----------------------------- MODULE FrameQueue -----------------------------
(***************************************************************************)
(* The bounded queue of ordered video events between the transport and the *)
(* decoder thread (client-transport/src/frame_queue.rs).  Every operation  *)
(* below runs under the queue's own mutex, so each is one atomic step.     *)
(*                                                                         *)
(* The queue also owns the decoder-recovery handshake: a discontinuity     *)
(* opens a recovery with a fresh generation, and only an acknowledgement   *)
(* that names exactly that generation closes it.                           *)
(***************************************************************************)
EXTENDS Naturals, Sequences

CONSTANTS Cap,      \* FrameQueue::new(cap), DEFAULT_FRAME_CAP in the product
          Epochs,   \* the transport epochs that units may carry
          MaxGen    \* bound on the recovery generations opened in one run

ASSUME QueueAssumption ==
    /\ Cap \in Nat \ {0}
    /\ Epochs \subseteq Nat
    /\ MaxGen \in Nat

VARIABLES events, closed, overflowed, next_generation, recovery

queueVars == <<events, closed, overflowed, next_generation, recovery>>

(***************************************************************************)
(* One uniform record for what travels to the decoder: `n` is the frame id *)
(* of a unit (its payload is abstracted to that identity), `gen` the       *)
(* recovery generation a queued discontinuity opened.  `ord` is history:   *)
(* how many discontinuities the receiver had emitted when it emitted this  *)
(* event, itself included (0 for the queue's own overflow reset).  `src`   *)
(* is history too: which ingress produced the event.                       *)
(***************************************************************************)
Sources == {"standalone", "session", "queue"}

Event == [kind : {"frame", "disc"}, n : Nat, key : BOOLEAN, epoch : Nat,
          gen : Nat, ord : Nat, src : Sources]

FrameEvent(n, key, e, ord, src) ==
    [kind |-> "frame", n |-> n, key |-> key, epoch |-> e,
     gen |-> 0, ord |-> ord, src |-> src]

DiscEvent(gen, e, ord, src) ==
    [kind |-> "disc", n |-> 0, key |-> FALSE, epoch |-> e,
     gen |-> gen, ord |-> ord, src |-> src]

\* `None`; generation 0 is never assigned, so it cannot collide.
NoRecovery == [gen |-> 0, epoch |-> 0]

QueueInit ==
    /\ events = << >>
    /\ closed = FALSE
    /\ overflowed = FALSE
    /\ next_generation = 0
    /\ recovery = NoRecovery

Full == Len(events) >= Cap

\* A push that would open a recovery is cut off at the generation bound.
GenBound == next_generation < MaxGen

OpenRecoveryLocked(e) ==
    /\ next_generation' = next_generation + 1
    /\ recovery' = [gen |-> next_generation + 1, epoch |-> e]

\* Mutant: at capacity the oldest event is dropped without a reset.
PushFrameDropOldest(f) ==
    \/ closed /\ UNCHANGED queueVars
    \/ /\ ~closed
       /\ events' = IF Full THEN Append(Tail(events), f) ELSE Append(events, f)
       /\ UNCHANGED <<closed, overflowed, next_generation, recovery>>

\* push_frame_reporting_overflow: rejected when closed; at capacity the whole
\* backlog is replaced by an overflow reset followed by the new frame.
PushFrame(f) ==
    \/ /\ closed
       /\ UNCHANGED queueVars
    \/ /\ ~closed /\ Full /\ GenBound
       /\ events' = << DiscEvent(next_generation + 1, f.epoch, 0, "queue"), f >>
       /\ OpenRecoveryLocked(f.epoch)
       /\ overflowed' = TRUE
       /\ UNCHANGED closed
    \/ /\ ~closed /\ ~Full
       /\ events' = Append(events, f)
       /\ UNCHANGED <<closed, overflowed, next_generation, recovery>>

\* push_discontinuity: never dropped while open; at capacity the backlog is
\* cleared first and the loss is latched in `overflowed`.
PushDiscontinuity(d) ==
    \/ /\ closed
       /\ UNCHANGED queueVars
    \/ /\ ~closed /\ GenBound
       /\ LET reset == [d EXCEPT !.gen = next_generation + 1]
          IN  events' = IF Full THEN << reset >> ELSE Append(events, reset)
       /\ overflowed' = (overflowed \/ Full)
       /\ OpenRecoveryLocked(d.epoch)
       /\ UNCHANGED closed

\* The pop half of wait_event and try_event; Head(events) is what is returned.
PopEvent ==
    /\ events # << >>
    /\ events' = Tail(events)
    /\ UNCHANGED <<closed, overflowed, next_generation, recovery>>

CloseQueue ==
    /\ closed' = TRUE
    /\ UNCHANGED <<events, overflowed, next_generation, recovery>>

\* Mutant: the acknowledgement is matched by its epoch alone.
AcknowledgeByEpoch(gen, e) ==
    /\ recovery' = IF recovery.epoch = e THEN NoRecovery ELSE recovery
    /\ UNCHANGED <<events, closed, overflowed, next_generation>>

\* acknowledge_recovery: closes iff the open recovery is exactly this one.
AcknowledgeRecovery(gen, e) ==
    /\ recovery' = IF recovery = [gen |-> gen, epoch |-> e] THEN NoRecovery
                                                            ELSE recovery
    /\ UNCHANGED <<events, closed, overflowed, next_generation>>

QueueTypeOK ==
    /\ events \in Seq(Event)
    /\ closed \in BOOLEAN
    /\ overflowed \in BOOLEAN
    /\ next_generation \in Nat
    /\ recovery \in [gen : Nat, epoch : Nat]
=============================================================================
