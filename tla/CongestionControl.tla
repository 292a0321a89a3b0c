------------------------- MODULE CongestionControl -------------------------
(***************************************************************************)
(* The frame-delay congestion controller of the streamer and CcShared, the *)
(* generation-tagged words through which the video sender loop, the RTCP   *)
(* reader and the bitrate task share it.  A new setup leaves the tasks of  *)
(* the earlier one running.                                                *)
(*                                                                         *)
(* A frame's smoothed service time is reduced to what the control law asks *)
(* of it: over budget, under budget or in between.  Rates are in units of  *)
(* the probe step.                                                         *)
(***************************************************************************)
EXTENDS Integers

CONSTANTS
    CcMax, CcMin,    \* max_kbps and min_kbps
    WindowFrames,    \* frames before there is a baseline
    InflateFrames, DeflateFrames, CooldownFrames,
    MaxSetups        \* bound on calls of setup

\* What CcConfig::sanitised leaves of a configuration.
CcSanitised ==
    /\ {CcMin, WindowFrames, InflateFrames, DeflateFrames, CooldownFrames} \subseteq Nat \ {0}
    /\ CcMax \in Nat /\ CcMax >= CcMin

ASSUME CcAssumption == CcSanitised /\ MaxSetups \in Nat \ {0}

Gens == 1 .. MaxSetups
Signals == {"over", "under", "between"}

VARIABLES
    liveGen,     \* CcShared.generation
    target,      \* target_packed: [gen, kbps]
    mailbox,     \* loss_packed: the generation of an unread report, or 0
    setup,       \* begin_generation: "idle", "bumped" or "cleared"
    ctl,         \* generation -> its CcController
    out,         \* generation -> the sender's publication between check and store, or 0
    post,        \* generation -> the reader is between check and store
    read,        \* the bitrate task between its two loads: the generation, or 0
    calm,        \* history: generation -> frames since its last decrease
    gap,         \* history: generation -> the smallest such distance at a decrease by delay
    under,       \* history: generation -> frames in a row under budget, since the last loss
    ghosts       \* history: generation -> stores it made after it was superseded

shared == <<liveGen, target, mailbox, setup>>
tasks == <<ctl, out, post, read>>
ccVars == <<shared, tasks, calm, gap, under, ghosts>>

Lesser(a, b) == IF a < b THEN a ELSE b
Greater(a, b) == IF a > b THEN a ELSE b

Fresh == [kbps |-> CcMax, frames |-> 0, inflate |-> 0, deflate |-> 0, cooldown |-> 0]
CalmCap == CooldownFrames + InflateFrames

CcInit ==
    /\ liveGen = 0 /\ target = [gen |-> 0, kbps |-> 0] /\ mailbox = 0 /\ setup = "idle"
    /\ ctl = [g \in Gens |-> Fresh]
    /\ out = [g \in Gens |-> 0] /\ post = [g \in Gens |-> FALSE]
    /\ read = 0
    /\ calm = [g \in Gens |-> CalmCap] /\ gap = calm /\ under = [g \in Gens |-> 0]
    /\ ghosts = [g \in Gens |-> 0]

\* ------------------------------------------------------ begin_generation

BeginGeneration ==
    /\ setup = "idle" /\ liveGen < MaxSetups
    /\ liveGen' = liveGen + 1 /\ setup' = "bumped"
    /\ UNCHANGED <<target, mailbox, tasks, calm, gap, under, ghosts>>

BeginClearsTarget ==
    /\ setup = "bumped" /\ setup' = "cleared"
    /\ target' = [gen |-> liveGen, kbps |-> 0]
    /\ UNCHANGED <<liveGen, mailbox, tasks, calm, gap, under, ghosts>>

BeginClearsLoss ==
    /\ setup = "cleared" /\ setup' = "idle" /\ mailbox' = 0
    /\ UNCHANGED <<liveGen, target, tasks, calm, gap, under, ghosts>>

\* The tasks of a generation exist from the end of its setup on.
Started(g) == g < liveGen \/ (g = liveGen /\ setup = "idle")

\* ---------------------------------------------------- the control law

\* Multiplicative decrease, not below the floor.
Cut(kbps) == Greater((kbps * 17) \div 20, CcMin)

\* Mutant: the report leaves the count of frames under budget alone.
OnLossReportKeeps(c) ==
    [c EXCEPT !.kbps = Cut(@), !.cooldown = CooldownFrames, !.inflate = 0]

\* on_loss_report with a loss over the threshold.
OnLossReport(c) ==
    [c EXCEPT !.kbps = Cut(@), !.cooldown = CooldownFrames, !.inflate = 0, !.deflate = 0]

\* The consecutive-frame counters.
Counted(c, signal) ==
    [c EXCEPT !.inflate = IF signal = "over" THEN Lesser(@ + 1, InflateFrames) ELSE 0,
              !.deflate = IF signal = "under" THEN Lesser(@ + 1, DeflateFrames) ELSE 0]

Decreases(c) == c.inflate >= InflateFrames /\ c.cooldown = 0
Increases(c) == c.inflate < InflateFrames /\ c.deflate >= DeflateFrames

Controlled(c) ==
    IF Decreases(c) THEN [c EXCEPT !.kbps = Cut(@), !.cooldown = CooldownFrames + 1, !.inflate = 0]
    ELSE IF Increases(c) THEN [c EXCEPT !.kbps = Lesser(@ + 1, CcMax), !.deflate = 0]
    ELSE c

\* The end of the cooldown starts the count of frames over budget anew.
Cooled(c) ==
    [c EXCEPT !.cooldown = Greater(@ - 1, 0), !.inflate = IF c.cooldown = 1 THEN 0 ELSE @]

\* on_frame: the window fills first.
Warm(c) == c.frames + 1 >= WindowFrames
OnFrame(c, signal) ==
    IF ~Warm(c) THEN [c EXCEPT !.frames = @ + 1, !.cooldown = Greater(@ - 1, 0)]
    ELSE Cooled(Controlled(Counted([c EXCEPT !.frames = WindowFrames], signal)))

\* ------------------------------------------------------ the sender loop

\* take_loss_for: only a report of the own generation is taken.
TakesLoss(g) == mailbox = g

\* One frame has been written: apply the unread report, then the frame, and
\* check the generation before the target is published.  What a superseded
\* controller computes is never published, so it is forgotten.
Frame(g, signal) ==
    LET c == IF TakesLoss(g) THEN OnLossReport(ctl[g]) ELSE ctl[g]
        counted == Counted(c, signal)
        cut == Warm(c) /\ Decreases(counted) /\ liveGen = g
        frames == Lesser((IF TakesLoss(g) THEN 0 ELSE calm[g]) + 1, CalmCap)
    IN /\ Started(g) /\ out[g] = 0
       /\ mailbox' = IF TakesLoss(g) THEN 0 ELSE mailbox
       /\ ctl' = [ctl EXCEPT ![g] = IF liveGen = g THEN OnFrame(c, signal) ELSE Fresh]
       /\ out' = [out EXCEPT ![g] = IF liveGen = g THEN ctl'[g].kbps ELSE 0]
       /\ calm' = [calm EXCEPT ![g] = IF liveGen # g THEN CalmCap ELSE IF cut THEN 0 ELSE frames]
       /\ gap' = [gap EXCEPT ![g] = IF cut THEN Lesser(@, frames) ELSE @]
       /\ under' = [under EXCEPT ![g] = IF signal # "under" \/ ~Warm(c) \/ liveGen # g THEN 0
                                        ELSE Lesser((IF TakesLoss(g) THEN 0 ELSE @) + 1, DeflateFrames)]
       /\ UNCHANGED <<liveGen, target, setup, post, read, ghosts>>

\* A timestamp that does not advance skips the frame; the loss counts.
SkippedFrame(g) ==
    /\ Started(g) /\ out[g] = 0 /\ TakesLoss(g) /\ mailbox' = 0
    /\ ctl' = [ctl EXCEPT ![g] = IF liveGen = g THEN OnLossReport(@) ELSE Fresh]
    /\ out' = [out EXCEPT ![g] = IF liveGen = g THEN ctl'[g].kbps ELSE 0]
    /\ calm' = [calm EXCEPT ![g] = IF liveGen = g THEN 0 ELSE CalmCap] /\ under' = [under EXCEPT ![g] = 0]
    /\ UNCHANGED <<liveGen, target, setup, post, read, gap, ghosts>>

Ghost(g) == ghosts' = [ghosts EXCEPT ![g] = IF liveGen > g /\ setup = "idle" THEN Lesser(@ + 1, 2) ELSE @]

\* Mutant: the generation is not looked at before the store.
PublishTargetUnchecked(g) ==
    /\ Started(g) /\ target' = [gen |-> g, kbps |-> ctl[g].kbps]
    /\ out' = [out EXCEPT ![g] = 0] /\ Ghost(g)
    /\ UNCHANGED <<liveGen, mailbox, setup, ctl, post, read, calm, gap, under>>

\* publish_target_for: the store, which a new setup may have overtaken.
PublishTarget(g) ==
    /\ out[g] # 0 /\ target' = [gen |-> g, kbps |-> out[g]]
    /\ out' = [out EXCEPT ![g] = 0] /\ Ghost(g)
    /\ UNCHANGED <<liveGen, mailbox, setup, ctl, post, read, calm, gap, under>>

\* ------------------------------------------------------ the RTCP reader

\* A report: check the generation, then post.
ReceiverReport(g) ==
    /\ Started(g) /\ ~post[g]
    /\ post' = [post EXCEPT ![g] = (liveGen = g)]
    /\ UNCHANGED <<shared, ctl, out, read, calm, gap, under, ghosts>>

\* The newest report wins: one below the threshold, which on_loss_report
\* ignores, leaves nothing to take.
PostLoss(g, lossy) ==
    /\ post[g] /\ post' = [post EXCEPT ![g] = FALSE] /\ mailbox' = IF lossy THEN g ELSE 0
    /\ UNCHANGED <<liveGen, target, setup, ctl, out, read, calm, gap, under, ghosts>>

\* ------------------------------------------------------ the bitrate task

ReadGeneration ==
    /\ read = 0 /\ liveGen > 0 /\ read' = liveGen
    /\ UNCHANGED <<shared, ctl, out, post, calm, gap, under, ghosts>>

\* target_kbps: a target of another generation reads as none.
TargetKbps(current) == IF target.gen = current THEN target.kbps ELSE 0

ReadTarget ==
    /\ read # 0 /\ read' = 0
    /\ UNCHANGED <<shared, ctl, out, post, calm, gap, under, ghosts>>

CcTasks(g) ==
    \/ \E signal \in Signals : Frame(g, signal)
    \/ SkippedFrame(g) \/ PublishTarget(g)
    \/ ReceiverReport(g) \/ \E lossy \in BOOLEAN : PostLoss(g, lossy)

CcNext ==
    \/ BeginGeneration \/ BeginClearsTarget \/ BeginClearsLoss
    \/ \E g \in Gens : CcTasks(g)
    \/ ReadGeneration \/ ReadTarget

CcSpec == CcInit /\ [][CcNext]_ccVars

\* ------------------------------------------------------------ properties

CcTypeOK ==
    /\ liveGen \in 0 .. MaxSetups /\ mailbox \in 0 .. MaxSetups
    /\ target \in [gen : 0 .. MaxSetups, kbps : 0 .. CcMax]
    /\ setup \in {"idle", "bumped", "cleared"} /\ read \in 0 .. MaxSetups
    /\ \A g \in Gens :
          /\ ctl[g].kbps \in CcMin .. CcMax
          /\ ctl[g].cooldown \in 0 .. CooldownFrames
          /\ out[g] \in 0 .. CcMax

\* After a decrease, by delay or by loss, the next decrease by delay comes no
\* sooner than the cooldown plus a full run of frames over budget.
DecreaseSpacing == \A g \in Gens : gap[g] >= CooldownFrames + InflateFrames

\* A probe upwards rests on a full run of frames under budget that no loss
\* report has interrupted.
LossNotReversed ==
    [][\A g \in Gens : (liveGen = g /\ ctl'[g].kbps > ctl[g].kbps) => under'[g] >= DeflateFrames]_ccVars

\* Whatever senders of replaced streams still store, the target the bitrate
\* task composes is the live controller's current rate, or the one before it
\* while its publication is under way.
StaleNeverLive ==
    [][(read # 0 /\ read' = 0 /\ liveGen = read /\ TargetKbps(read) # 0)
          => TargetKbps(read) = ctl[read].kbps \/ out[read] # 0]_ccVars

\* A sender left over from an earlier setup masks the new target at most once.
GhostMasksOnce == \A g \in Gens : ghosts[g] <= 1

\* Decreases are spaced and a replaced stream's sender disturbs the target at
\* most once (CongestionController::on_frame, the generation in the target).
RateSteady == CcTypeOK /\ DecreaseSpacing /\ GhostMasksOnce

\* The rate moves only for cause: no probe upwards over a loss, no target of a
\* replaced stream (CongestionController::on_loss_report, CcShared).
RateMovesEarned == LossNotReversed /\ StaleNeverLive

=============================================================================
