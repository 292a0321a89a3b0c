-------------------------- MODULE HostMediaProofs --------------------------
(***************************************************************************)
(* The host's media path for every value of the constants: the rate the    *)
(* congestion controller asks for (CongestionControl), the rate the apply  *)
(* task sends (BitrateApply), and the frames on their way through the FEC  *)
(* sender tasks and the RTP track (HostVideo).                             *)
(***************************************************************************)
EXTENDS CongestionControl, BitrateApply, HostVideo, SequenceTheorems, TLAPS

(***************************************************************************)
(* The properties of CongestionControl for every configuration that        *)
(* CcConfig::sanitised lets through and every number of setups.            *)
(***************************************************************************)

\* ---------------------------------------------------- the inductive invariant

Controllers ==
    [kbps : CcMin .. CcMax, frames : 0 .. WindowFrames, inflate : 0 .. InflateFrames,
     deflate : 0 .. DeflateFrames, cooldown : 0 .. CooldownFrames]

CcTypes ==
    /\ liveGen \in 0 .. MaxSetups /\ mailbox \in 0 .. MaxSetups
    /\ target \in [gen : 0 .. MaxSetups, kbps : 0 .. CcMax]
    /\ setup \in {"idle", "bumped", "cleared"} /\ read \in 0 .. MaxSetups
    /\ ctl \in [Gens -> Controllers] /\ out \in [Gens -> 0 .. CcMax]
    /\ calm \in [Gens -> 0 .. CalmCap] /\ gap \in [Gens -> Int]
    /\ under \in [Gens -> 0 .. DeflateFrames] /\ ghosts \in [Gens -> 0 .. 2]

\* How far a controller is from its next decrease: while it cools down, the
\* frames since the last decrease and the rest of the cooldown make up the
\* whole one; after that every frame over budget has come on top.  Until the
\* window is full nothing is counted.
Spaced(c, frames) ==
    /\ c.cooldown > 0 => frames + c.cooldown >= CooldownFrames
    /\ c.cooldown = 0 => frames >= CooldownFrames + c.inflate
    /\ ~Warm(c) => c.inflate = 0 /\ c.deflate = 0

SpacingInv ==
    \A g \in Gens : /\ Spaced(ctl[g], calm[g]) /\ gap[g] >= CalmCap
                    /\ ctl[g].deflate <= under[g]

\* What a sender has ready to publish is its controller's rate; once it is
\* superseded it has that one store left, and what it publishes is not tagged
\* with the live generation.
PublishInv ==
    /\ target.gen <= liveGen
    /\ target.gen = liveGen /\ target.kbps # 0 =>
          liveGen \in Gens /\ (target.kbps = ctl[liveGen].kbps \/ out[liveGen] # 0)
    /\ \A g \in Gens :
          /\ out[g] # 0 => g <= liveGen
          /\ out[g] # 0 /\ g = liveGen => out[g] = ctl[g].kbps
          /\ ghosts[g] # 0 => g < liveGen /\ ghosts[g] = 1 /\ out[g] = 0

CcInv == CcTypes /\ SpacingInv /\ PublishInv

\* ------------------------------------------------------------ the control law

LEMMA CutBounds ==
    ASSUME NEW k \in CcMin .. CcMax
    PROVE  Cut(k) \in CcMin .. CcMax /\ Cut(k) <= k
  <1>1. (k * 17) \div 20 \in Int /\ (k * 17) \div 20 <= k
    BY CcAssumption DEF CcSanitised
  <1> QED
    BY <1>1, CcAssumption DEF Cut, Greater, CcSanitised

\* The control law's updates, field by field.
LEMMA LossForm ==
    ASSUME NEW c \in Controllers
    PROVE  OnLossReport(c) = [kbps |-> Cut(c.kbps), frames |-> c.frames, inflate |-> 0,
                              deflate |-> 0, cooldown |-> CooldownFrames]
  <1> DEFINE q1 == [c EXCEPT !.kbps = Cut(c.kbps)]
             q2 == [q1 EXCEPT !.cooldown = CooldownFrames]
             q3 == [q2 EXCEPT !.inflate = 0]
             q4 == [q3 EXCEPT !.deflate = 0]
  <1>1. q1 = [kbps |-> Cut(c.kbps), frames |-> c.frames, inflate |-> c.inflate,
              deflate |-> c.deflate, cooldown |-> c.cooldown]
    BY DEF Controllers
  <1> HIDE DEF q1
  <1>2. q2 = [kbps |-> Cut(c.kbps), frames |-> c.frames, inflate |-> c.inflate,
              deflate |-> c.deflate, cooldown |-> CooldownFrames]
    BY <1>1
  <1> HIDE DEF q2
  <1>3. q3 = [kbps |-> Cut(c.kbps), frames |-> c.frames, inflate |-> 0,
              deflate |-> c.deflate, cooldown |-> CooldownFrames]
    BY <1>2
  <1> HIDE DEF q3
  <1>4. q4 = [kbps |-> Cut(c.kbps), frames |-> c.frames, inflate |-> 0,
              deflate |-> 0, cooldown |-> CooldownFrames]
    BY <1>3
  <1> QED
    BY <1>4 DEF OnLossReport, q1, q2, q3, q4

LEMMA CountedForm ==
    ASSUME NEW c \in Controllers, NEW s
    PROVE  Counted(c, s) =
              [kbps |-> c.kbps, frames |-> c.frames,
               inflate |-> IF s = "over" THEN Lesser(c.inflate + 1, InflateFrames) ELSE 0,
               deflate |-> IF s = "under" THEN Lesser(c.deflate + 1, DeflateFrames) ELSE 0,
               cooldown |-> c.cooldown]
  <1> DEFINE i == IF s = "over" THEN Lesser(c.inflate + 1, InflateFrames) ELSE 0
             d == IF s = "under" THEN Lesser(c.deflate + 1, DeflateFrames) ELSE 0
             q1 == [c EXCEPT !.inflate = i]
             q2 == [q1 EXCEPT !.deflate = d]
  <1> HIDE DEF i, d
  <1>1. q1 = [kbps |-> c.kbps, frames |-> c.frames, inflate |-> i, deflate |-> c.deflate,
              cooldown |-> c.cooldown]
    BY DEF Controllers
  <1> HIDE DEF q1
  <1>2. q2 = [kbps |-> c.kbps, frames |-> c.frames, inflate |-> i, deflate |-> d,
              cooldown |-> c.cooldown]
    BY <1>1
  <1>3. Counted(c, s) = q2
    BY <1>1 DEF Counted, q1, q2, i, d
  <1> QED
    BY <1>2, <1>3 DEF i, d

LEMMA ColdForm ==
    ASSUME NEW c \in Controllers, ~Warm(c), NEW s
    PROVE  OnFrame(c, s) = [kbps |-> c.kbps, frames |-> c.frames + 1, inflate |-> c.inflate,
                            deflate |-> c.deflate, cooldown |-> Greater(c.cooldown - 1, 0)]
  <1> DEFINE q1 == [c EXCEPT !.frames = c.frames + 1]
             q2 == [q1 EXCEPT !.cooldown = Greater(c.cooldown - 1, 0)]
  <1>1. q1 = [kbps |-> c.kbps, frames |-> c.frames + 1, inflate |-> c.inflate,
              deflate |-> c.deflate, cooldown |-> c.cooldown]
    BY DEF Controllers
  <1> HIDE DEF q1
  <1>2. q2 = [kbps |-> c.kbps, frames |-> c.frames + 1, inflate |-> c.inflate,
              deflate |-> c.deflate, cooldown |-> Greater(c.cooldown - 1, 0)]
    BY <1>1
  <1> QED
    BY <1>2, Zenon DEF OnFrame, q1, q2

LEMMA CutForm ==
    ASSUME NEW c \in Controllers, Decreases(c)
    PROVE  Controlled(c) = [kbps |-> Cut(c.kbps), frames |-> c.frames, inflate |-> 0,
                            deflate |-> c.deflate, cooldown |-> CooldownFrames + 1]
  <1> DEFINE q1 == [c EXCEPT !.kbps = Cut(c.kbps)]
             q2 == [q1 EXCEPT !.cooldown = CooldownFrames + 1]
             q3 == [q2 EXCEPT !.inflate = 0]
  <1>1. q1 = [kbps |-> Cut(c.kbps), frames |-> c.frames, inflate |-> c.inflate,
              deflate |-> c.deflate, cooldown |-> c.cooldown]
    BY DEF Controllers
  <1> HIDE DEF q1
  <1>2. q2 = [kbps |-> Cut(c.kbps), frames |-> c.frames, inflate |-> c.inflate,
              deflate |-> c.deflate, cooldown |-> CooldownFrames + 1]
    BY <1>1
  <1> HIDE DEF q2
  <1>3. q3 = [kbps |-> Cut(c.kbps), frames |-> c.frames, inflate |-> 0,
              deflate |-> c.deflate, cooldown |-> CooldownFrames + 1]
    BY <1>2
  <1> QED
    BY <1>3, Zenon DEF Controlled, q1, q2, q3

LEMMA ProbeForm ==
    ASSUME NEW c \in Controllers, ~Decreases(c), Increases(c)
    PROVE  Controlled(c) = [kbps |-> Lesser(c.kbps + 1, CcMax), frames |-> c.frames,
                            inflate |-> c.inflate, deflate |-> 0, cooldown |-> c.cooldown]
  <1> DEFINE q1 == [c EXCEPT !.kbps = Lesser(c.kbps + 1, CcMax)]
             q2 == [q1 EXCEPT !.deflate = 0]
  <1>1. q1 = [kbps |-> Lesser(c.kbps + 1, CcMax), frames |-> c.frames, inflate |-> c.inflate,
              deflate |-> c.deflate, cooldown |-> c.cooldown]
    BY DEF Controllers
  <1> HIDE DEF q1
  <1>2. q2 = [kbps |-> Lesser(c.kbps + 1, CcMax), frames |-> c.frames, inflate |-> c.inflate,
              deflate |-> 0, cooldown |-> c.cooldown]
    BY <1>1
  <1> QED
    BY <1>2, Zenon DEF Controlled, q1, q2

LEMMA CooledForm ==
    ASSUME NEW c \in [kbps : Int, frames : Int, inflate : Int, deflate : Int, cooldown : Int]
    PROVE  Cooled(c) = [kbps |-> c.kbps, frames |-> c.frames,
                        inflate |-> IF c.cooldown = 1 THEN 0 ELSE c.inflate,
                        deflate |-> c.deflate, cooldown |-> Greater(c.cooldown - 1, 0)]
  <1> DEFINE j == IF c.cooldown = 1 THEN 0 ELSE c.inflate
             x == Greater(c.cooldown - 1, 0)
             q1 == [c EXCEPT !.cooldown = x]
             q2 == [q1 EXCEPT !.inflate = j]
  <1> HIDE DEF x, j
  <1>1. q1 = [kbps |-> c.kbps, frames |-> c.frames, inflate |-> c.inflate,
              deflate |-> c.deflate, cooldown |-> x]
    OBVIOUS
  <1> HIDE DEF q1
  <1>2. q2 = [kbps |-> c.kbps, frames |-> c.frames, inflate |-> j, deflate |-> c.deflate,
              cooldown |-> x]
    BY <1>1
  <1>3. q1.inflate = c.inflate
    BY <1>1
  <1>4. Cooled(c) = q2
    BY <1>3, Zenon DEF Cooled, q1, q2, j, x
  <1> QED
    BY <1>2, <1>4 DEF j, x

\* A lossy report: a decrease, and every count starts again.
LEMMA LossStep ==
    ASSUME NEW c \in Controllers, NEW f \in 0 .. CalmCap, Spaced(c, f)
    PROVE  /\ OnLossReport(c) \in Controllers /\ OnLossReport(c).kbps <= c.kbps
           /\ Spaced(OnLossReport(c), 0)
           /\ OnLossReport(c).deflate = 0 /\ OnLossReport(c).cooldown = CooldownFrames
  <1>1. c.kbps \in CcMin .. CcMax
    BY DEF Controllers
  <1>2. Cut(c.kbps) \in CcMin .. CcMax /\ Cut(c.kbps) <= c.kbps
    BY <1>1, CutBounds
  <1>3. /\ OnLossReport(c) \in Controllers /\ OnLossReport(c).kbps <= c.kbps
        /\ OnLossReport(c).deflate = 0 /\ OnLossReport(c).inflate = 0
        /\ OnLossReport(c).cooldown = CooldownFrames
    BY <1>2, LossForm, CcAssumption DEF Controllers, CcSanitised
  <1> QED
    BY <1>3, CcAssumption DEF Spaced, CcSanitised

\* A frame before the window is full.
LEMMA ColdFrame ==
    ASSUME NEW c \in Controllers, NEW f \in 0 .. CalmCap, Spaced(c, f), ~Warm(c),
           NEW s \in Signals
    PROVE  /\ OnFrame(c, s) \in Controllers /\ Spaced(OnFrame(c, s), Lesser(f + 1, CalmCap))
           /\ OnFrame(c, s).kbps = c.kbps /\ OnFrame(c, s).deflate = 0
  <1> DEFINE e == OnFrame(c, s)
  <1>1. /\ e.kbps = c.kbps /\ e.inflate = 0 /\ e.deflate = 0
        /\ e.cooldown = Greater(c.cooldown - 1, 0)
    BY ColdForm DEF Spaced
  <1>2. e \in Controllers
    BY ColdForm, CcAssumption DEF Controllers, Warm, Greater, CcSanitised
  <1> HIDE DEF e
  <1>3. Spaced(e, Lesser(f + 1, CalmCap))
    BY <1>1, CcAssumption DEF Controllers, Spaced, Greater, Lesser, CalmCap, CcSanitised
  <1> QED
    BY <1>1, <1>2, <1>3 DEF e

\* A frame after that: a decrease comes only when the frames since the last
\* one make up a cooldown and a full run over budget, and an increase only on a
\* full run under budget.
LEMMA WarmFrame ==
    ASSUME NEW c \in Controllers, NEW f \in 0 .. CalmCap, Spaced(c, f), Warm(c),
           NEW s \in Signals, NEW u \in 0 .. DeflateFrames, c.deflate <= u
    PROVE  LET e == OnFrame(c, s)
               v == IF s = "under" THEN Lesser(u + 1, DeflateFrames) ELSE 0
           IN /\ e \in Controllers
              /\ Decreases(Counted(c, s)) =>
                    /\ Spaced(e, 0) /\ Lesser(f + 1, CalmCap) = CalmCap /\ c.cooldown = 0
              /\ ~Decreases(Counted(c, s)) => Spaced(e, Lesser(f + 1, CalmCap))
              /\ e.kbps > c.kbps => v >= DeflateFrames
              /\ e.deflate <= v
  <1> DEFINE w == [c EXCEPT !.frames = WindowFrames]
             d == Counted(w, s)
             e == OnFrame(c, s)
             v == IF s = "under" THEN Lesser(u + 1, DeflateFrames) ELSE 0
  <1>1. w \in Controllers /\ w.kbps = c.kbps /\ w.frames = WindowFrames
        /\ w.inflate = c.inflate /\ w.deflate = c.deflate /\ w.cooldown = c.cooldown
    BY CcAssumption DEF Controllers, CcSanitised
  <1>2. e = Cooled(Controlled(d))
    BY DEF OnFrame
  <1>3. /\ d \in Controllers /\ d.kbps = c.kbps /\ d.frames = WindowFrames
        /\ d.cooldown = c.cooldown /\ d.inflate <= c.inflate + 1 /\ d.deflate <= v
    <2> HIDE DEF w
    <2> QED
      BY <1>1, CountedForm, CcAssumption DEF Controllers, Lesser, CcSanitised
  <1>4. Decreases(Counted(c, s)) <=> Decreases(d)
    <2> HIDE DEF w
    <2>1. Counted(c, s).inflate = d.inflate /\ Counted(c, s).cooldown = d.cooldown
      BY <1>1, CountedForm
    <2> QED
      BY <2>1 DEF Decreases
  <1> HIDE DEF w, d, e, v
  <1>5. CASE Decreases(d)
    <2>1. /\ Cut(d.kbps) \in CcMin .. CcMax /\ Cut(d.kbps) <= d.kbps
      BY <1>3, CutBounds DEF Controllers
    <2>3. e = [kbps |-> Cut(d.kbps), frames |-> d.frames, inflate |-> 0,
               deflate |-> d.deflate, cooldown |-> CooldownFrames]
      <3> DEFINE m == Controlled(d)
      <3>1. m = [kbps |-> Cut(d.kbps), frames |-> d.frames, inflate |-> 0,
                 deflate |-> d.deflate, cooldown |-> CooldownFrames + 1]
        BY <1>3, <1>5, CutForm
      <3>2. e = Cooled(m)
        BY <1>2
      <3> HIDE DEF m
      <3>3. m \in [kbps : Int, frames : Int, inflate : Int, deflate : Int, cooldown : Int]
        BY <1>3, <2>1, <3>1, CcAssumption DEF Controllers, CcSanitised
      <3>4. e = [kbps |-> m.kbps, frames |-> m.frames,
                 inflate |-> IF m.cooldown = 1 THEN 0 ELSE m.inflate,
                 deflate |-> m.deflate, cooldown |-> Greater(m.cooldown - 1, 0)]
        BY <3>2, <3>3, CooledForm
      <3>5. /\ m.kbps = Cut(d.kbps) /\ m.frames = d.frames /\ m.inflate = 0
            /\ m.deflate = d.deflate /\ m.cooldown = CooldownFrames + 1
        BY <3>1
      <3>6. Greater(m.cooldown - 1, 0) = CooldownFrames /\ m.cooldown # 1
        BY <3>5, CcAssumption DEF Greater, CcSanitised
      <3> QED
        BY <3>4, <3>5, <3>6
    <2>4. e \in Controllers /\ Spaced(e, 0) /\ e.kbps <= c.kbps /\ e.deflate = d.deflate
      BY <1>3, <2>1, <2>3, CcAssumption DEF Controllers, Spaced, Warm, CcSanitised
    <2>5. Lesser(f + 1, CalmCap) = CalmCap /\ c.cooldown = 0
      BY <1>3, <1>5, CcAssumption DEF Decreases, Spaced, Controllers, CalmCap, Lesser, CcSanitised
    <2>6. e.kbps \in Int /\ c.kbps \in Int
      BY <2>4 DEF Controllers
    <2> QED
      BY <1>3, <1>4, <1>5, <2>4, <2>5, <2>6 DEF e, v
  <1>6. CASE ~Decreases(d)
    <2> DEFINE m == Controlled(d)
    <2>1. /\ m \in Controllers /\ m.cooldown = d.cooldown /\ m.inflate = d.inflate
          /\ m.frames = WindowFrames /\ m.deflate <= d.deflate
          /\ m.kbps > d.kbps => d.deflate >= DeflateFrames
      <3>1. CASE Increases(d)
        BY <1>3, <1>6, <3>1, ProbeForm, CcAssumption DEF Increases, Controllers, Lesser, CcSanitised
      <3>2. CASE ~Increases(d)
        <4>1. m = d
          BY <1>6, <3>2 DEF Controlled
        <4> QED
          BY <1>3, <4>1 DEF Controllers
      <3> QED
        BY <3>1, <3>2
    <2> HIDE DEF m
    <2>2. e = [kbps |-> m.kbps, frames |-> m.frames,
               inflate |-> IF m.cooldown = 1 THEN 0 ELSE m.inflate,
               deflate |-> m.deflate, cooldown |-> Greater(m.cooldown - 1, 0)]
      <3>1. m \in [kbps : Int, frames : Int, inflate : Int, deflate : Int, cooldown : Int]
        BY <2>1, CcAssumption DEF Controllers, CcSanitised
      <3>2. e = Cooled(m)
        BY <1>2 DEF m
      <3> QED
        BY <3>1, <3>2, CooledForm
    <2>3. e \in Controllers /\ e.kbps = m.kbps /\ e.deflate = m.deflate /\ Warm(e)
      BY <2>1, <2>2, CcAssumption DEF Controllers, Greater, Warm, CcSanitised
    <2>4. Spaced(e, Lesser(f + 1, CalmCap))
      <3>1. /\ e.cooldown = Greater(c.cooldown - 1, 0)
            /\ e.inflate = IF c.cooldown = 1 THEN 0 ELSE d.inflate
        BY <1>3, <2>1, <2>2
      <3> QED
        BY <1>3, <2>3, <3>1, CcAssumption
        DEF Controllers, Greater, Spaced, Lesser, CalmCap, CcSanitised
    <2>5. e.deflate <= v /\ (e.kbps > c.kbps => v >= DeflateFrames)
      BY <1>3, <2>1, <2>3, CcAssumption DEF Controllers, CcSanitised, v, Lesser
    <2> QED
      BY <1>4, <1>6, <2>3, <2>4, <2>5 DEF e, v
  <1> QED
    BY <1>5, <1>6

\* Both, as the sender loop applies them: n is the distance to the last
\* decrease and v the run under budget after the frame.
LEMMA AnyFrame ==
    ASSUME NEW c \in Controllers, NEW f \in 0 .. CalmCap, Spaced(c, f),
           NEW s \in Signals, NEW u \in 0 .. DeflateFrames, c.deflate <= u
    PROVE  LET e == OnFrame(c, s)
               cut == Warm(c) /\ Decreases(Counted(c, s))
               n == Lesser(f + 1, CalmCap)
               v == IF s # "under" \/ ~Warm(c) THEN 0 ELSE Lesser(u + 1, DeflateFrames)
           IN /\ e \in Controllers
              /\ cut => n = CalmCap /\ Spaced(e, 0)
              /\ ~cut => Spaced(e, n)
              /\ e.kbps > c.kbps => v >= DeflateFrames
              /\ e.deflate <= v
  <1> DEFINE e == OnFrame(c, s)
  <1>1. CASE Warm(c)
    <2>1. CASE s = "under"
      BY <1>1, <2>1, WarmFrame
    <2>2. CASE s # "under"
      BY <1>1, <2>2, WarmFrame
    <2> QED
      BY <2>1, <2>2
  <1>2. CASE ~Warm(c)
    <2>1. /\ e \in Controllers /\ Spaced(e, Lesser(f + 1, CalmCap))
          /\ e.kbps = c.kbps /\ e.deflate = 0
      BY <1>2, ColdFrame
    <2>2. ~(e.kbps > c.kbps)
      BY <2>1, CcAssumption DEF Controllers, CcSanitised
    <2> QED
      BY <1>2, <2>1, <2>2
  <1> QED
    BY <1>1, <1>2

\* A probe upwards rests on a full run under budget.
RiseEarned ==
    \A g \in Gens : (liveGen = g /\ ctl'[g].kbps > ctl[g].kbps) => under'[g] >= DeflateFrames

\* -------------------------------------------------------------- the sender loop

\* A controller that is superseded is forgotten.
LEMMA FreshController ==
    Fresh \in Controllers /\ Spaced(Fresh, CalmCap) /\ Fresh.deflate = 0
  BY CcAssumption DEF Fresh, Controllers, Spaced, CalmCap, CcSanitised

\* What one sender does to its own controller and publication.
SenderStep(g) ==
    /\ g <= liveGen /\ out[g] = 0
    /\ mailbox' \in {0, mailbox}
    /\ \E e \in Controllers, n \in 0 .. CalmCap, p \in Int, v \in 0 .. DeflateFrames :
          /\ ctl' = [ctl EXCEPT ![g] = e]
          /\ out' = [out EXCEPT ![g] = IF liveGen = g THEN e.kbps ELSE 0]
          /\ calm' = [calm EXCEPT ![g] = n] /\ gap' = [gap EXCEPT ![g] = p]
          /\ under' = [under EXCEPT ![g] = v]
          /\ Spaced(e, n) /\ p >= CalmCap /\ e.deflate <= v
          /\ liveGen = g /\ e.kbps > ctl[g].kbps => v >= DeflateFrames
    /\ UNCHANGED <<liveGen, target, setup, read, ghosts>>

LEMMA SenderStepInv ==
    ASSUME CcInv, NEW g \in Gens, SenderStep(g)
    PROVE  CcInv' /\ RiseEarned
  <1>1. PICK e \in Controllers, n \in 0 .. CalmCap, p \in Int, v \in 0 .. DeflateFrames :
          /\ ctl' = [ctl EXCEPT ![g] = e]
          /\ out' = [out EXCEPT ![g] = IF liveGen = g THEN e.kbps ELSE 0]
          /\ calm' = [calm EXCEPT ![g] = n] /\ gap' = [gap EXCEPT ![g] = p]
          /\ under' = [under EXCEPT ![g] = v]
          /\ Spaced(e, n) /\ p >= CalmCap /\ e.deflate <= v
          /\ liveGen = g /\ e.kbps > ctl[g].kbps => v >= DeflateFrames
    BY DEF SenderStep
  <1>2. /\ g <= liveGen /\ out[g] = 0 /\ mailbox' \in {0, mailbox}
        /\ UNCHANGED <<liveGen, target, setup, read, ghosts>>
    BY DEF SenderStep
  <1>3. e.kbps \in 0 .. CcMax /\ e.kbps # 0
    BY CcAssumption DEF Controllers, CcSanitised
  <1>4. /\ ctl'[g] = e /\ calm'[g] = n /\ gap'[g] = p /\ under'[g] = v
        /\ out'[g] = IF liveGen = g THEN e.kbps ELSE 0
        /\ \A h \in Gens : h # g => /\ ctl'[h] = ctl[h] /\ calm'[h] = calm[h] /\ gap'[h] = gap[h]
                                    /\ under'[h] = under[h] /\ out'[h] = out[h]
    BY <1>1 DEF CcInv, CcTypes
  <1>5. CcTypes'
    <2>1. mailbox' \in 0 .. MaxSetups
      BY <1>2, CcAssumption DEF CcInv, CcTypes
    <2>2. /\ ctl' \in [Gens -> Controllers] /\ calm' \in [Gens -> 0 .. CalmCap]
          /\ gap' \in [Gens -> Int] /\ under' \in [Gens -> 0 .. DeflateFrames]
      BY <1>1 DEF CcInv, CcTypes
    <2>3. out' \in [Gens -> 0 .. CcMax]
      BY <1>1, <1>3, CcAssumption DEF CcInv, CcTypes, CcSanitised
    <2> QED
      BY <1>2, <2>1, <2>2, <2>3 DEF CcInv, CcTypes
  <1>6. SpacingInv'
    BY <1>1, <1>4 DEF CcInv, SpacingInv, Spaced, Warm
  <1>7. PublishInv'
    <2>1. ASSUME NEW h \in Gens
          PROVE  /\ out'[h] # 0 => h <= liveGen
                 /\ out'[h] # 0 /\ h = liveGen => out'[h] = ctl'[h].kbps
                 /\ ghosts[h] # 0 => h < liveGen /\ ghosts[h] = 1 /\ out'[h] = 0
      <3>0. liveGen \in Int /\ h \in Int
        BY CcAssumption DEF CcInv, CcTypes, Gens
      <3>1. /\ liveGen \in Int /\ h \in Int
            /\ out[h] # 0 => h <= liveGen
            /\ out[h] # 0 /\ h = liveGen => out[h] = ctl[h].kbps
            /\ ghosts[h] # 0 => h < liveGen /\ ghosts[h] = 1 /\ out[h] = 0
        BY <3>0 DEF CcInv, PublishInv
      <3>2. CASE h = g
        <4>1. CASE liveGen = g
          BY <1>3, <1>4, <3>1, <3>2, <4>1
        <4>2. CASE liveGen # g
          BY <1>2, <1>4, <3>1, <3>2, <4>2
        <4> QED
          BY <4>1, <4>2
      <3>3. CASE h # g
        BY <1>4, <3>1, <3>3
      <3> QED
        BY <3>2, <3>3
    <2>2. target.gen = liveGen /\ target.kbps # 0 =>
             liveGen \in Gens /\ (target.kbps = ctl'[liveGen].kbps \/ out'[liveGen] # 0)
      BY <1>2, <1>3, <1>4 DEF CcInv, PublishInv
    <2> QED
      BY <1>2, <2>1, <2>2 DEF CcInv, PublishInv
  <1>8. RiseEarned
    BY <1>1, <1>4 DEF RiseEarned, CcInv, CcTypes, Controllers
  <1> QED
    BY <1>5, <1>6, <1>7, <1>8 DEF CcInv

\* The frame that was written and the skipped one are such steps.
LEMMA FrameIsSenderStep ==
    ASSUME CcInv, NEW g \in Gens, NEW s \in Signals, Frame(g, s)
    PROVE  SenderStep(g)
  <1> DEFINE c == IF TakesLoss(g) THEN OnLossReport(ctl[g]) ELSE ctl[g]
             f == IF TakesLoss(g) THEN 0 ELSE calm[g]
             u == IF TakesLoss(g) THEN 0 ELSE under[g]
             live == liveGen = g
             fires == Warm(c) /\ Decreases(Counted(c, s))
             m == Lesser(f + 1, CalmCap)
             w == IF s # "under" \/ ~Warm(c) THEN 0 ELSE Lesser(u + 1, DeflateFrames)
             e == IF live THEN OnFrame(c, s) ELSE Fresh
             n == IF ~live THEN CalmCap ELSE IF fires THEN 0 ELSE m
             p == IF fires /\ live THEN Lesser(gap[g], m) ELSE gap[g]
             v == IF ~live THEN 0 ELSE w
  <1>0. /\ ctl[g] \in Controllers /\ calm[g] \in 0 .. CalmCap /\ under[g] \in 0 .. DeflateFrames
        /\ gap[g] \in Int /\ gap[g] >= CalmCap /\ Spaced(ctl[g], calm[g]) /\ ctl[g].deflate <= under[g]
    BY DEF CcInv, CcTypes, SpacingInv
  <1>1. /\ c \in Controllers /\ f \in 0 .. CalmCap /\ u \in 0 .. DeflateFrames
        /\ Spaced(c, f) /\ c.deflate <= u /\ c.kbps <= ctl[g].kbps
    <2>1. CASE TakesLoss(g)
      BY <1>0, <2>1, LossStep, CcAssumption DEF CalmCap, CcSanitised
    <2>2. CASE ~TakesLoss(g)
      <3>1. ctl[g].kbps <= ctl[g].kbps
        BY <1>0, CcAssumption DEF Controllers, CcSanitised
      <3> QED
        BY <1>0, <2>2, <3>1
    <2> QED
      BY <2>1, <2>2
  <1>2. /\ Started(g) /\ out[g] = 0
        /\ mailbox' = IF TakesLoss(g) THEN 0 ELSE mailbox
        /\ ctl' = [ctl EXCEPT ![g] = e]
        /\ calm' = [calm EXCEPT ![g] = n] /\ gap' = [gap EXCEPT ![g] = p]
        /\ UNCHANGED <<liveGen, target, setup, read, ghosts>>
    BY DEF Frame
  <1>3. under' = [under EXCEPT ![g] = v]
    BY DEF Frame
  <1>4. out' = [out EXCEPT ![g] = IF liveGen = g THEN e.kbps ELSE 0]
    <2>1. ctl'[g] = e
      BY <1>2 DEF CcInv, CcTypes
    <2>2. out' = [out EXCEPT ![g] = IF liveGen = g THEN ctl'[g].kbps ELSE 0]
      BY DEF Frame
    <2> QED
      BY <2>1, <2>2
  <1> HIDE DEF c, f, u
  <1>5. /\ OnFrame(c, s) \in Controllers
        /\ fires => m = CalmCap /\ Spaced(OnFrame(c, s), 0)
        /\ ~fires => Spaced(OnFrame(c, s), m)
        /\ OnFrame(c, s).kbps > c.kbps => w >= DeflateFrames
        /\ OnFrame(c, s).deflate <= w
    BY <1>1, AnyFrame
  <1>6. m \in 0 .. CalmCap /\ w \in 0 .. DeflateFrames /\ CalmCap \in Nat
    BY <1>1, CcAssumption DEF Lesser, CalmCap, CcSanitised
  <1> HIDE DEF fires, m, w
  <1>7. e \in Controllers /\ n \in 0 .. CalmCap /\ p \in Int /\ v \in 0 .. DeflateFrames
    BY <1>0, <1>5, <1>6, FreshController, CcAssumption DEF Lesser, CcSanitised
  <1>8. Spaced(e, n) /\ p >= CalmCap /\ e.deflate <= v
    BY <1>0, <1>5, <1>6, FreshController DEF Lesser
  <1>9. liveGen = g /\ e.kbps > ctl[g].kbps => v >= DeflateFrames
    BY <1>0, <1>1, <1>5, CcAssumption DEF Controllers, CcSanitised
  <1>10. g <= liveGen
    BY <1>2 DEF Started, CcInv, CcTypes, Gens
  <1> HIDE DEF e, n, p, v
  <1>11. mailbox' \in {0, mailbox}
    BY <1>2
  <1> QED
    BY <1>2, <1>3, <1>4, <1>7, <1>8, <1>9, <1>10, <1>11 DEF SenderStep

LEMMA SkippedIsSenderStep ==
    ASSUME CcInv, NEW g \in Gens, SkippedFrame(g)
    PROVE  SenderStep(g)
  <1> DEFINE e == IF liveGen = g THEN OnLossReport(ctl[g]) ELSE Fresh
             n == IF liveGen = g THEN 0 ELSE CalmCap
  <1>0. /\ ctl[g] \in Controllers /\ calm[g] \in 0 .. CalmCap
        /\ gap[g] \in Int /\ gap[g] >= CalmCap /\ Spaced(ctl[g], calm[g])
    BY DEF CcInv, CcTypes, SpacingInv
  <1>1. /\ Started(g) /\ out[g] = 0 /\ mailbox' = 0
        /\ ctl' = [ctl EXCEPT ![g] = e] /\ calm' = [calm EXCEPT ![g] = n]
        /\ under' = [under EXCEPT ![g] = 0]
        /\ UNCHANGED <<liveGen, target, setup, read, gap, ghosts>>
    BY DEF SkippedFrame
  <1>2. out' = [out EXCEPT ![g] = IF liveGen = g THEN e.kbps ELSE 0]
    <2>1. ctl'[g] = e
      BY <1>1 DEF CcInv, CcTypes
    <2>2. out' = [out EXCEPT ![g] = IF liveGen = g THEN ctl'[g].kbps ELSE 0]
      BY DEF SkippedFrame
    <2> QED
      BY <2>1, <2>2
  <1>3. gap' = [gap EXCEPT ![g] = gap[g]]
    BY <1>1 DEF CcInv, CcTypes
  <1>4. /\ e \in Controllers /\ n \in 0 .. CalmCap /\ Spaced(e, n) /\ e.deflate = 0
        /\ liveGen = g => e.kbps <= ctl[g].kbps
    BY <1>0, LossStep, FreshController, CcAssumption DEF CalmCap, CcSanitised
  <1>5. 0 \in 0 .. DeflateFrames /\ g <= liveGen
    <2>1. liveGen \in Int /\ g \in Int
      BY CcAssumption DEF CcInv, CcTypes, Gens
    <2> QED
      BY <1>1, <2>1, CcAssumption DEF Started, CcSanitised
  <1> HIDE DEF e, n
  <1>6. ~(liveGen = g /\ e.kbps > ctl[g].kbps) /\ e.deflate <= 0
    BY <1>0, <1>4, CcAssumption DEF Controllers, CcSanitised
  <1> QED
    BY <1>0, <1>1, <1>2, <1>3, <1>4, <1>5, <1>6 DEF SenderStep

\* ------------------------------------------------------------ the other steps

\* publish_target_for: the live sender publishes its rate, a superseded one
\* its last store, which is tagged with its own generation.
LEMMA PublishStep ==
    ASSUME CcInv, NEW g \in Gens, PublishTarget(g)
    PROVE  CcInv'
  <1>0. /\ liveGen \in 0 .. MaxSetups /\ g \in Nat /\ g \in 0 .. MaxSetups /\ out[g] \in 0 .. CcMax
        /\ ghosts[g] \in 0 .. 2
    BY CcAssumption DEF CcInv, CcTypes, Gens
  <1>1. /\ out[g] # 0 /\ g <= liveGen /\ target' = [gen |-> g, kbps |-> out[g]]
        /\ out' = [out EXCEPT ![g] = 0]
        /\ UNCHANGED <<liveGen, mailbox, setup, ctl, post, read, calm, gap, under>>
    BY DEF PublishTarget, CcInv, PublishInv
  <1>2. ghosts[g] = 0
    BY <1>0, <1>1 DEF CcInv, PublishInv
  <1>3. \/ ghosts' = ghosts
        \/ ghosts' = [ghosts EXCEPT ![g] = 1] /\ g < liveGen
    <2>1. ghosts' = [ghosts EXCEPT ![g] = IF liveGen > g /\ setup = "idle" THEN Lesser(ghosts[g] + 1, 2)
                                          ELSE ghosts[g]]
      BY DEF PublishTarget, Ghost
    <2>2. Lesser(ghosts[g] + 1, 2) = 1
      BY <1>2 DEF Lesser
    <2>3. CASE liveGen > g /\ setup = "idle"
      BY <1>0, <2>1, <2>2, <2>3
    <2>4. CASE ~(liveGen > g /\ setup = "idle")
      BY <2>1, <2>4 DEF CcInv, CcTypes
    <2> QED
      BY <2>3, <2>4
  <1>4. /\ out'[g] = 0 /\ \A h \in Gens : h # g => out'[h] = out[h]
        /\ out' \in [Gens -> 0 .. CcMax] /\ target' \in [gen : 0 .. MaxSetups, kbps : 0 .. CcMax]
        /\ ghosts' \in [Gens -> 0 .. 2]
        /\ \A h \in Gens : h # g => ghosts'[h] = ghosts[h]
        /\ ghosts'[g] = 0 \/ (ghosts'[g] = 1 /\ g < liveGen)
    BY <1>0, <1>1, <1>2, <1>3, CcAssumption DEF CcInv, CcTypes, CcSanitised
  <1>5. CcTypes'
    BY <1>1, <1>4 DEF CcInv, CcTypes
  <1>6. SpacingInv'
    BY <1>1 DEF CcInv, SpacingInv, Spaced, Warm
  <1>7. PublishInv'
    <2>1. target'.gen = g /\ target'.kbps = out[g]
      BY <1>1
    <2>2. target'.gen = liveGen' => target'.kbps = ctl'[liveGen'].kbps /\ liveGen' \in Gens
      BY <1>1, <2>1 DEF CcInv, PublishInv
    <2>3. \A h \in Gens :
            /\ out'[h] # 0 => h <= liveGen'
            /\ out'[h] # 0 /\ h = liveGen' => out'[h] = ctl'[h].kbps
            /\ ghosts'[h] # 0 => h < liveGen' /\ ghosts'[h] = 1 /\ out'[h] = 0
      BY <1>1, <1>4 DEF CcInv, PublishInv
    <2> QED
      BY <1>1, <2>1, <2>2, <2>3 DEF PublishInv
  <1> QED
    BY <1>5, <1>6, <1>7 DEF CcInv

\* begin_generation: nothing is tagged with the new generation yet.
LEMMA BeginStep ==
    ASSUME CcInv, BeginGeneration \/ BeginClearsTarget \/ BeginClearsLoss
    PROVE  CcInv'
  <1>1. /\ UNCHANGED <<ctl, out, calm, gap, under, ghosts, read>>
        /\ liveGen \in 0 .. MaxSetups /\ target.gen \in 0 .. MaxSetups
    BY DEF BeginGeneration, BeginClearsTarget, BeginClearsLoss, tasks, CcInv, CcTypes
  <1>2. SpacingInv'
    BY <1>1 DEF CcInv, SpacingInv, Spaced, Warm
  <1>3. CASE BeginGeneration
    <2>1. /\ liveGen' = liveGen + 1 /\ liveGen < MaxSetups /\ setup' = "bumped"
          /\ UNCHANGED <<target, mailbox>>
      BY <1>3 DEF BeginGeneration
    <2>2. CcTypes'
      BY <1>1, <2>1, CcAssumption DEF CcInv, CcTypes
    <2>3. PublishInv'
      BY <1>1, <2>1, CcAssumption DEF CcInv, PublishInv, Gens
    <2> QED
      BY <1>2, <2>2, <2>3 DEF CcInv
  <1>4. CASE BeginClearsTarget
    <2>1. /\ target' = [gen |-> liveGen, kbps |-> 0] /\ setup' = "cleared"
          /\ UNCHANGED <<liveGen, mailbox>>
      BY <1>4 DEF BeginClearsTarget
    <2>2. CcTypes'
      BY <1>1, <2>1, CcAssumption DEF CcInv, CcTypes, CcSanitised
    <2>3. PublishInv'
      BY <1>1, <2>1 DEF CcInv, PublishInv
    <2> QED
      BY <1>2, <2>2, <2>3 DEF CcInv
  <1>5. CASE BeginClearsLoss
    <2>1. mailbox' = 0 /\ setup' = "idle" /\ UNCHANGED <<liveGen, target>>
      BY <1>5 DEF BeginClearsLoss
    <2>2. CcTypes' /\ PublishInv'
      BY <1>1, <2>1, CcAssumption DEF CcInv, CcTypes, PublishInv
    <2> QED
      BY <1>2, <2>2 DEF CcInv
  <1> QED
    BY <1>3, <1>4, <1>5

\* Steps that touch none of it but the mailbox and the reading task.
LEMMA AsideStep ==
    ASSUME CcInv, UNCHANGED <<liveGen, target, setup, ctl, out, calm, gap, under, ghosts>>,
           mailbox' \in 0 .. MaxSetups, read' \in 0 .. MaxSetups
    PROVE  CcInv'
  BY DEF CcInv, CcTypes, SpacingInv, PublishInv, Spaced, Warm

LEMMA NoRise ==
    ASSUME CcInv, UNCHANGED ctl
    PROVE  RiseEarned
  BY CcAssumption DEF RiseEarned, CcInv, CcTypes, Controllers, CcSanitised

\* One step per action.
LEMMA CcStep ==
    CcInv /\ [CcNext]_ccVars => CcInv' /\ RiseEarned
  <1> SUFFICES ASSUME CcInv, [CcNext]_ccVars PROVE CcInv' /\ RiseEarned
    OBVIOUS
  <1>0. liveGen \in 0 .. MaxSetups /\ mailbox \in 0 .. MaxSetups /\ read \in 0 .. MaxSetups
        /\ 0 \in 0 .. MaxSetups /\ Gens \subseteq 0 .. MaxSetups
    BY CcAssumption DEF CcInv, CcTypes, Gens
  <1>1. CASE BeginGeneration \/ BeginClearsTarget \/ BeginClearsLoss
    <2>1. UNCHANGED ctl
      BY <1>1 DEF BeginGeneration, BeginClearsTarget, BeginClearsLoss, tasks
    <2> QED
      BY <1>1, <2>1, BeginStep, NoRise
  <1>2. ASSUME NEW g \in Gens, NEW s \in Signals, Frame(g, s) PROVE CcInv' /\ RiseEarned
    BY <1>2, FrameIsSenderStep, SenderStepInv
  <1>3. ASSUME NEW g \in Gens, SkippedFrame(g) PROVE CcInv' /\ RiseEarned
    BY <1>3, SkippedIsSenderStep, SenderStepInv
  <1>4. ASSUME NEW g \in Gens, PublishTarget(g) PROVE CcInv' /\ RiseEarned
    BY <1>4, PublishStep, NoRise DEF PublishTarget
  <1>5. ASSUME NEW g \in Gens, ReceiverReport(g) \/ \E lossy \in BOOLEAN : PostLoss(g, lossy)
        PROVE  CcInv' /\ RiseEarned
    <2>1. /\ UNCHANGED <<liveGen, target, setup, ctl, out, calm, gap, under, ghosts, read>>
          /\ mailbox' \in {0, g, mailbox}
      BY <1>5 DEF ReceiverReport, PostLoss, shared
    <2> QED
      BY <1>0, <2>1, AsideStep, NoRise
  <1>6. CASE ReadGeneration \/ ReadTarget \/ UNCHANGED ccVars
    <2>1. /\ UNCHANGED <<liveGen, target, setup, ctl, out, calm, gap, under, ghosts, mailbox>>
          /\ read' \in {0, liveGen, read}
      BY <1>6 DEF ReadGeneration, ReadTarget, ccVars, shared, tasks
    <2> QED
      BY <1>0, <2>1, AsideStep, NoRise
  <1> QED
    BY <1>1, <1>2, <1>3, <1>4, <1>5, <1>6 DEF CcNext, CcTasks

LEMMA CcStart == CcInit => CcInv
  <1> SUFFICES ASSUME CcInit PROVE CcInv
    OBVIOUS
  <1>1. CalmCap \in Nat /\ 0 \in 0 .. DeflateFrames /\ 0 \in 0 .. CcMax /\ 0 \in 0 .. MaxSetups
    BY CcAssumption DEF CalmCap, CcSanitised
  <1>2. CcTypes
    BY <1>1, FreshController DEF CcInit, CcTypes
  <1>3. SpacingInv
    <2>1. \A g \in Gens : ctl[g] = Fresh /\ calm[g] = CalmCap /\ gap[g] = CalmCap /\ under[g] = 0
      BY DEF CcInit
    <2> QED
      BY <1>1, <2>1, FreshController DEF SpacingInv
  <1>4. PublishInv
    BY DEF CcInit, PublishInv
  <1> QED
    BY <1>2, <1>3, <1>4 DEF CcInv

LEMMA CcInvariance == CcSpec => []CcInv
  <1>1. CcInv /\ [CcNext]_ccVars => CcInv'
    BY CcStep
  <1> QED
    BY <1>1, CcStart, PTL DEF CcSpec

\* --------------------------------------------------------------- the theorems

\* Decreases by delay are a cooldown and a full run over budget apart, and the
\* sender of a replaced stream disturbs the target at most once
\* (CongestionController::on_frame, publish_target_for), whatever the
\* configuration and however the tasks of the setups interleave.
THEOREM SteadyRate == CcSpec => []RateSteady
  <1>1. CcInv => RateSteady
    <2> SUFFICES ASSUME CcInv PROVE RateSteady
      OBVIOUS
    <2>1. CcTypeOK
      BY DEF CcInv, CcTypes, CcTypeOK, Controllers
    <2>2. DecreaseSpacing
      BY DEF CcInv, SpacingInv, DecreaseSpacing, CalmCap
    <2>3. GhostMasksOnce
      BY DEF CcInv, CcTypes, PublishInv, GhostMasksOnce
    <2> QED
      BY <2>1, <2>2, <2>3 DEF RateSteady
  <1> QED
    BY <1>1, CcInvariance, PTL

\* The rate moves for cause only: no probe upwards over a loss, and no target
\* of a replaced stream (CongestionController::on_loss_report, CcShared).
THEOREM EarnedMoves == CcSpec => RateMovesEarned
  <1> DEFINE Live == (read # 0 /\ read' = 0 /\ liveGen = read /\ TargetKbps(read) # 0)
                        => TargetKbps(read) = ctl[read].kbps \/ out[read] # 0
  <1>1. CcInv => Live
    BY DEF CcInv, PublishInv, TargetKbps
  <1>2. CcInv /\ [CcNext]_ccVars => RiseEarned
    BY CcStep
  <1>3. CcInv /\ [CcNext]_ccVars => [RiseEarned]_ccVars /\ [Live]_ccVars
    BY <1>1, <1>2
  <1>4. CcSpec => [][RiseEarned]_ccVars /\ [][Live]_ccVars
    BY <1>3, CcInvariance, PTL DEF CcSpec
  <1> QED
    BY <1>4 DEF RateMovesEarned, LossNotReversed, StaleNeverLive, RiseEarned

(***************************************************************************)
(* The properties of BitrateApply for every sanitised configuration, every *)
(* interval and timeout, and every number of estimates.                    *)
(***************************************************************************)

\* ---------------------------------------------------- the inductive invariant

Places == {"idle", "sent", "pending", "applied", "refused", "timeout", "unsupported", "failed"}
Statuses == [at : Places, kbps : Int, age : 0 .. Cap]
Verdicts == {"dispatched", "refused", "unknown"}

ApplyTypes ==
    /\ gate \in [last : 0 .. Ceiling, age : 0 .. Cap]
    /\ status \in Statuses /\ attempt \in 0 .. Cap /\ held \in Nat /\ expired \in Nat
    /\ wire \in Seq(Int) /\ answers \in Seq([kbps : Int, status : Verdicts])
    /\ Len(answers) <= AckQueue

\* Without a configured rate there is neither target nor baseline; with one
\* both stay within the bounds.
SeedInv ==
    \/ abrKbps = 0 /\ ccKbps = 0 /\ gate.last = 0
    \/ /\ abrKbps \in Floor .. Ceiling /\ gate.last \in Floor .. Ceiling
       /\ ccKbps = 0 \/ ccKbps \in Floor .. Ceiling

\* How long an emergency has been waiting: as long as the request before it
\* has been pending, or its failed send held back; otherwise it has been sent.
WaitInv ==
    /\ status.at = "pending" => status.age < AckTimeout /\ held <= status.age
    /\ status.at = "failed" => held <= attempt /\ held < MinApplyInterval
    /\ status.at \in {"idle", "sent", "applied", "refused", "unsupported"} => held = 0
    /\ held <= AckTimeout

ApplyInv == ApplyTypes /\ SeedInv /\ WaitInv /\ OneInFlight

\* ---------------------------------------------------------------- arithmetic

LEMMA ApplyBounds ==
    /\ Ceiling \in Nat /\ Floor \in Nat /\ Floor > 0 /\ Floor <= Ceiling /\ Step \in Nat
    /\ MinApplyInterval \in Nat /\ AckTimeout \in Nat /\ AckQueue \in Nat
    /\ MinApplyInterval > 0 /\ AckTimeout > 0 /\ MinApplyInterval <= AckTimeout
    /\ Cap \in Nat /\ Cap = AckTimeout + MinApplyInterval
  BY ApplyAssumption DEF AbrSanitised, Cap

LEMMA OlderFacts ==
    ASSUME NEW a \in 0 .. Cap
    PROVE  /\ Older(a) \in 0 .. Cap /\ Older(a) <= a + 1
           /\ a < AckTimeout => Older(a) = a + 1
           /\ Older(a) < MinApplyInterval => Older(a) = a + 1
  BY ApplyBounds DEF Older, Smaller

\* An emergency passes the gate at once.
LEMMA EmergencyPasses ==
    ASSUME NEW k \in Floor .. Ceiling, gate \in [last : 0 .. Ceiling, age : 0 .. Cap],
           NEW age \in 0 .. Cap, Emergency(k)
    PROVE  NextCandidate(k, age)
  BY ApplyBounds DEF Emergency, NextCandidate, Delta

LEMMA TargetBounds ==
    ASSUME SeedInv
    PROVE  \/ EffectiveTarget \in Floor .. Ceiling /\ abrKbps # 0
           \/ EffectiveTarget = 0 /\ gate.last = 0
  BY ApplyBounds DEF SeedInv, EffectiveTarget, Smaller

\* --------------------------------------------------------------- the machine

\* An answer ends a pending request and nothing else.
LEMMA AckedShape ==
    ASSUME NEW s \in Statuses, NEW a
    PROVE  \/ Acked(s, a) = s
           \/ /\ s.at = "pending" /\ Acked(s, a) \in Statuses
              /\ Acked(s, a).at \in {"applied", "refused"}
  <1>1. CASE s.at # "pending" \/ a.status = "unknown"
    BY <1>1 DEF Acked
  <1>2. CASE ~(s.at # "pending" \/ a.status = "unknown")
    <2> DEFINE x == IF a.status = "dispatched" THEN "applied" ELSE "refused"
               q1 == [s EXCEPT !.at = x]
               q2 == [q1 EXCEPT !.age = 0]
    <2>1. x \in {"applied", "refused"}
      OBVIOUS
    <2>2. Acked(s, a) = q2
      BY <1>2, Zenon DEF Acked
    <2> HIDE DEF x
    <2>3. q1 \in Statuses /\ q1.at = x
      BY <2>1 DEF Statuses, Places
    <2> HIDE DEF q1
    <2>4. q2 \in Statuses /\ q2.at = x
      BY <2>3, ApplyBounds DEF Statuses
    <2> HIDE DEF q2
    <2> QED
      BY <1>2, <2>1, <2>2, <2>4
  <1> QED
    BY <1>1, <1>2

\* A request that has been pending for too long.
LEMMA PollShape ==
    ASSUME NEW s \in Statuses
    PROVE  \/ Poll(s) = s /\ (s.at = "pending" => s.age < AckTimeout)
           \/ /\ s.at = "pending" /\ s.age >= AckTimeout
              /\ Poll(s) \in Statuses /\ Poll(s).at = "timeout"
  <1>1. CASE ~(s.at = "pending" /\ s.age >= AckTimeout)
    BY <1>1, ApplyBounds DEF Poll, Statuses
  <1>2. CASE s.at = "pending" /\ s.age >= AckTimeout
    <2> DEFINE q1 == [s EXCEPT !.at = "timeout"]
               q2 == [q1 EXCEPT !.age = 0]
    <2>1. Poll(s) = q2
      BY <1>2, Zenon DEF Poll
    <2>2. q1 \in Statuses /\ q1.at = "timeout"
      BY DEF Statuses, Places
    <2> HIDE DEF q1
    <2>3. q2 \in Statuses /\ q2.at = "timeout"
      BY <2>2, ApplyBounds DEF Statuses
    <2> HIDE DEF q2
    <2> QED
      BY <1>2, <2>1, <2>3
  <1> QED
    BY <1>1, <1>2

\* The status a tick starts from, once the answers are drained and time has
\* passed.
LEMMA TickStatus ==
    ASSUME ApplyTypes, WaitInv
    PROVE  LET s == Aged(Drained(status))
           IN /\ s \in Statuses
              /\ \/ status.at # "pending" /\ s = status
                 \/ status.at = "pending" /\ s.at = "pending" /\ s.age = status.age + 1
                 \/ status.at = "pending" /\ s.at \in {"applied", "refused"} /\ Len(answers) > 0
  <1> DEFINE d == Drained(status)
  <1>1. /\ d \in Statuses
        /\ \/ d = status
           \/ status.at = "pending" /\ d.at \in {"applied", "refused"} /\ Len(answers) > 0
    <2>1. status \in Statuses /\ Len(answers) \in Nat
      BY LenProperties DEF ApplyTypes
    <2>2. d = status \/ (d = Acked(status, answers[FirstKnown]) /\ KnownAnswers # {})
      BY DEF Drained
    <2>3. KnownAnswers # {} => Len(answers) > 0
      BY <2>1 DEF KnownAnswers
    <2> HIDE DEF d
    <2> QED
      BY <2>1, <2>2, <2>3, AckedShape
  <1> HIDE DEF d
  <1>2. CASE d.at # "pending"
    <2>1. Aged(d) = d
      BY <1>2 DEF Aged
    <2> QED
      BY <1>1, <1>2, <2>1 DEF d
  <1>3. CASE d.at = "pending"
    <2>1. d = status /\ status.age < AckTimeout /\ status.age \in 0 .. Cap
      BY <1>1, <1>3 DEF WaitInv, Statuses
    <2>2. Aged(d) = [status EXCEPT !.age = Older(status.age)]
      BY <1>3, <2>1 DEF Aged
    <2>3. Older(status.age) \in 0 .. Cap /\ Older(status.age) = status.age + 1
      BY <2>1, OlderFacts
    <2>4. Aged(d) \in Statuses /\ Aged(d).at = "pending" /\ Aged(d).age = status.age + 1
      BY <1>1, <1>3, <2>1, <2>2, <2>3 DEF Statuses
    <2> QED
      BY <1>3, <2>1, <2>4 DEF d
  <1> QED
    BY <1>2, <1>3

\* apply: what is queued is what the gate records.
LEMMA ApplyStep ==
    ASSUME ApplyInv, NEW k \in Floor .. Ceiling, NEW o \in {"sent", "failed", "unsupported"},
           Apply(k, o), held' = 0, answers' = << >>, UNCHANGED <<abrKbps, ccKbps, tracked, expired>>,
           abrKbps # 0, tracked => Len(wire) <= expired
    PROVE  ApplyInv'
  <1>1. k \in Int /\ gate.age \in 0 .. Cap
    BY ApplyBounds DEF ApplyInv, ApplyTypes
  <1>2. /\ Older(gate.age) \in 0 .. Cap /\ 0 \in 0 .. Cap /\ 0 < AckTimeout
    <2>1. Older(gate.age) \in 0 .. Cap
      BY <1>1, OlderFacts
    <2> QED
      BY <2>1, ApplyBounds
  <1>3. status' \in Statuses /\ status'.age = 0 /\ attempt' = 0
    <2> DEFINE x == IF o = "sent" THEN (IF tracked THEN "pending" ELSE "sent") ELSE o
    <2>1. x \in Places
      BY DEF Places
    <2>2. status' = [kbps |-> k, age |-> 0, at |-> x] /\ attempt' = 0
      BY DEF Apply
    <2> HIDE DEF x
    <2> QED
      BY <1>1, <1>2, <2>1, <2>2 DEF Statuses
  <1>4. /\ gate' \in [last : 0 .. Ceiling, age : 0 .. Cap] /\ gate'.last \in Floor .. Ceiling
        /\ wire' \in Seq(Int)
        /\ \/ Len(wire') = Len(wire) + 1 /\ (tracked => status'.at = "pending")
           \/ Len(wire') = Len(wire)
    <2>1. CASE o = "sent"
      <3>1. /\ gate' = [last |-> k, age |-> 0] /\ wire' = Append(wire, k)
            /\ tracked => status'.at = "pending"
        BY <2>1 DEF Apply, Recorded
      <3>2. wire' \in Seq(Int) /\ Len(wire') = Len(wire) + 1
        BY <1>1, <3>1, AppendProperties DEF ApplyInv, ApplyTypes
      <3> QED
        BY <1>1, <1>2, <3>1, <3>2, ApplyBounds
    <2>2. CASE o # "sent"
      <3>1. gate' = [gate EXCEPT !.age = Older(gate.age)] /\ wire' = wire
        BY <2>2 DEF Apply, Recorded
      <3> QED
        BY <1>2, <3>1 DEF ApplyInv, ApplyTypes, SeedInv
    <2> QED
      BY <2>1, <2>2
  <1>5. Len(answers') = 0 /\ answers' \in Seq([kbps : Int, status : Verdicts])
    BY EmptySeq
  <1>6. ApplyTypes'
    BY <1>2, <1>3, <1>4, <1>5, ApplyBounds DEF ApplyInv, ApplyTypes
  <1>7. WaitInv'
    BY <1>2, <1>3, ApplyBounds DEF WaitInv
  <1>8. SeedInv'
    BY <1>4, ApplyBounds DEF ApplyInv, SeedInv
  <1>9. OneInFlight'
    <2>1. Len(wire) \in Nat /\ expired \in Nat
      BY LenProperties DEF ApplyInv, ApplyTypes
    <2> QED
      BY <1>4, <1>5, <2>1 DEF OneInFlight
  <1> QED
    BY <1>6, <1>7, <1>8, <1>9 DEF ApplyInv

\* One tick of the task.
LEMMA TickStep ==
    ASSUME ApplyInv, Tick
    PROVE  ApplyInv'
  <1> DEFINE s == Aged(Drained(status))
             polled == Poll(s)
             k == EffectiveTarget
             now == Older(gate.age)
             sends == polled = s /\ ~Waits(s) /\ NextCandidate(k, now)
  <1>0. ApplyTypes /\ SeedInv /\ WaitInv /\ OneInFlight
    BY DEF ApplyInv
  <1>1. /\ status.at # "unsupported" /\ answers' = << >>
        /\ held' = IF Emergency(k) /\ ~sends THEN Smaller(held + 1, Cap + Cap) ELSE 0
        /\ \/ sends /\ \E o \in {"sent", "failed", "unsupported"} : Apply(k, o)
           \/ /\ ~sends /\ status' = polled
              /\ gate' = [gate EXCEPT !.age = now] /\ attempt' = Older(attempt)
              /\ UNCHANGED wire
        /\ expired' = IF polled = s THEN expired ELSE expired + 1
        /\ UNCHANGED <<abrKbps, ccKbps, tracked, changes>>
    BY DEF Tick
  <1>2. /\ now \in 0 .. Cap /\ gate \in [last : 0 .. Ceiling, age : 0 .. Cap]
        /\ attempt \in 0 .. Cap /\ held \in Nat /\ expired \in Nat /\ Len(wire) \in Nat /\ Len(answers) \in Nat
        /\ (k \in Floor .. Ceiling /\ abrKbps # 0) \/ (k = 0 /\ gate.last = 0)
    BY <1>0, TargetBounds, OlderFacts, LenProperties DEF ApplyTypes
  <1>3. /\ s \in Statuses
        /\ \/ status.at # "pending" /\ s = status
           \/ status.at = "pending" /\ s.at = "pending" /\ s.age = status.age + 1
           \/ status.at = "pending" /\ s.at \in {"applied", "refused"} /\ Len(answers) > 0
    BY <1>0, TickStatus
  <1> HIDE DEF s
  <1>4. \/ polled = s /\ (s.at = "pending" => s.age < AckTimeout)
        \/ /\ s.at = "pending" /\ s.age >= AckTimeout
           /\ polled \in Statuses /\ polled.at = "timeout"
    BY <1>3, PollShape
  <1>5. Emergency(k) => NextCandidate(k, now)
    <2>1. CASE k \in Floor .. Ceiling
      BY <1>2, <2>1, EmergencyPasses
    <2>2. CASE k = 0 /\ gate.last = 0
      BY <2>2 DEF Emergency
    <2> QED
      BY <1>2, <2>1, <2>2
  <1>6. /\ s.at = "failed" => held <= attempt /\ held < MinApplyInterval
        /\ s.at = "pending" => status.age \in Nat /\ s.age = status.age + 1 /\ held <= status.age
                               /\ status.age < AckTimeout
        /\ held <= AckTimeout
    <2>1. status.age \in Nat
      BY <1>0 DEF ApplyTypes, Statuses
    <2> QED
      BY <1>0, <1>3, <2>1 DEF WaitInv
  <1>7. s.at # "unsupported"
    BY <1>1, <1>3
  <1>8. held' \in Nat /\ held' <= held + 1
    <2>1. Smaller(held + 1, Cap + Cap) \in Nat /\ Smaller(held + 1, Cap + Cap) <= held + 1
      BY <1>2, ApplyBounds DEF Smaller
    <2>2. held' \in {0, Smaller(held + 1, Cap + Cap)}
      BY <1>1
    <2> QED
      BY <1>2, <2>1, <2>2
  <1>9. CASE sends
    <2>1. held' = 0 /\ expired' = expired
      BY <1>1, <1>9
    <2>2. k \in Floor .. Ceiling /\ abrKbps # 0
      BY <1>2, <1>9 DEF NextCandidate
    <2>3. tracked => Len(wire) <= expired
      <3>1. s.at # "pending"
        BY <1>9 DEF Waits
      <3> QED
        BY <1>0, <1>2, <1>3, <3>1 DEF OneInFlight
    <2> HIDE DEF sends, k
    <2> QED
      BY <1>1, <1>9, <2>1, <2>2, <2>3, ApplyStep
  <1>10. CASE ~sends
    <2>1. /\ status' = polled /\ gate' = [gate EXCEPT !.age = now] /\ attempt' = Older(attempt)
          /\ UNCHANGED wire
      BY <1>1, <1>10
    <2>2. polled = s /\ ~Waits(s) => held' = 0
      BY <1>1, <1>5, <1>10
    <2>3. Waits(s) => s.at = "pending" \/ (s.at = "failed" /\ Older(attempt) < MinApplyInterval)
      BY <1>7 DEF Waits
    <2>4. Older(attempt) \in 0 .. Cap /\ (Older(attempt) < MinApplyInterval => Older(attempt) = attempt + 1)
      BY <1>2, OlderFacts
    <2>5. polled \in Statuses
      BY <1>3, <1>4
    <2>9. polled # s => s.at = "pending" /\ polled.at = "timeout" /\ expired' = expired + 1
      BY <1>1, <1>4
    <2>10. polled = s => expired' = expired
      BY <1>1
    <2>11. expired' \in Nat
      BY <1>2, <2>9, <2>10
    <2>12. /\ attempt \in Nat /\ held \in Nat /\ expired \in Nat
           /\ Len(wire) \in Nat /\ Len(answers) \in Nat
      BY <1>2
    <2> HIDE DEF polled, sends, k, now
    <2>6. ApplyTypes'
      <3>1. Len(answers') = 0 /\ answers' \in Seq([kbps : Int, status : Verdicts])
        BY <1>1, EmptySeq
      <3>2. gate' \in [last : 0 .. Ceiling, age : 0 .. Cap]
        BY <1>2, <2>1
      <3> QED
        BY <1>0, <1>1, <1>8, <2>1, <2>4, <2>5, <2>11, <3>1, <3>2, ApplyBounds DEF ApplyTypes
    <2>7. SeedInv' /\ OneInFlight'
      <3>1. SeedInv'
        BY <1>0, <1>1, <1>2, <2>1 DEF SeedInv
      <3>2. Len(answers') = 0
        BY <1>1, EmptySeq
      <3>3. wire' = wire /\ tracked' = tracked /\ status' = polled
        BY <1>1, <2>1
      <3>4. tracked => Len(wire) + Len(answers) <= expired + IF status.at = "pending" THEN 1 ELSE 0
        BY <1>0 DEF OneInFlight
      <3>5. CASE polled # s
        <4>1. polled.at = "timeout" /\ expired' = expired + 1
          BY <2>9, <3>5
        <4> QED
          BY <2>12, <3>1, <3>2, <3>3, <3>4, <4>1 DEF OneInFlight
      <3>6. CASE polled = s
        <4>1. expired' = expired
          BY <2>10, <3>6
        <4> QED
          BY <1>3, <2>12, <3>1, <3>2, <3>3, <3>4, <3>6, <4>1 DEF OneInFlight
      <3> QED
        BY <3>5, <3>6
    <2>8. WaitInv'
      <3>1. CASE polled # s
        <4>1. status'.at = "timeout" /\ held' <= AckTimeout
          BY <1>4, <1>6, <1>8, <2>1, <2>12, <3>1, ApplyBounds
        <4> QED
          BY <4>1 DEF WaitInv
      <3>2. CASE polled = s /\ ~Waits(s)
        <4>1. held' = 0
          BY <2>2, <3>2
        <4>2. s.at # "pending"
          BY <3>2 DEF Waits
        <4> QED
          BY <2>1, <2>4, <3>2, <4>1, <4>2, ApplyBounds DEF WaitInv
      <3>3. CASE polled = s /\ s.at = "pending"
        <4>1. status'.at = "pending" /\ status'.age = s.age
          BY <2>1, <3>3
        <4>2. s.age < AckTimeout /\ held' <= s.age /\ s.age \in Nat
          BY <1>4, <1>6, <1>8, <2>12, <3>3, ApplyBounds
        <4>3. held' <= AckTimeout
          BY <1>8, <4>2, ApplyBounds
        <4> QED
          BY <4>1, <4>2, <4>3 DEF WaitInv
      <3>4. CASE polled = s /\ s.at = "failed" /\ Older(attempt) < MinApplyInterval
        BY <1>6, <1>8, <2>1, <2>4, <2>12, <3>4, ApplyBounds DEF WaitInv
      <3> QED
        BY <2>3, <3>1, <3>2, <3>3, <3>4
    <2> QED
      BY <2>6, <2>7, <2>8 DEF ApplyInv
  <1> QED
    BY <1>9, <1>10

\* The estimates stay within the bounds.
LEMMA TargetStep ==
    ASSUME ApplyInv,
           \/ \E estimate \in {0, Ceiling - 1, Ceiling} : Observe(estimate)
           \/ ObserveLoss \/ \E kbps \in {0, Floor, Ceiling} : CcPublishes(kbps)
    PROVE  ApplyInv'
  <1>1. abrKbps \in Floor .. Ceiling /\ gate.last \in Floor .. Ceiling
    BY DEF ApplyInv, SeedInv, Observe, ObserveLoss, CcPublishes, Changed
  <1>2. UNCHANGED <<gate, status, attempt, tracked, wire, answers, expired, held>>
    BY DEF Observe, ObserveLoss, CcPublishes
  <1>3. abrKbps' \in Floor .. Ceiling /\ (ccKbps' = ccKbps \/ ccKbps' \in {0, Floor, Ceiling})
    <2>1. ASSUME NEW e \in {0, Ceiling - 1, Ceiling}, Observe(e)
          PROVE  abrKbps' \in Floor .. Ceiling /\ ccKbps' = ccKbps
      <3> DEFINE usable == IF e >= Ceiling THEN Ceiling ELSE (e * 9) \div 10
                 bounded == Larger(usable, Floor)
      <3>1. usable \in Int /\ usable <= Ceiling
        BY ApplyBounds
      <3> HIDE DEF usable
      <3>2. bounded \in Floor .. Ceiling
        BY <3>1, ApplyBounds DEF Larger
      <3>3. abrKbps' = IF bounded < abrKbps THEN bounded ELSE Smaller(abrKbps + Step, bounded)
        BY <2>1 DEF Observe, usable
      <3> HIDE DEF bounded
      <3>4. abrKbps' \in Floor .. Ceiling
        BY <1>1, <3>2, <3>3, ApplyBounds DEF Smaller
      <3> QED
        BY <2>1, <3>4 DEF Observe
    <2>2. CASE ObserveLoss
      <3>1. (abrKbps * 3) \div 4 \in Int /\ (abrKbps * 3) \div 4 <= abrKbps
        BY <1>1, ApplyBounds
      <3> QED
        BY <1>1, <2>2, <3>1, ApplyBounds DEF ObserveLoss, Larger
    <2>3. ASSUME NEW x \in {0, Floor, Ceiling}, CcPublishes(x)
          PROVE  abrKbps' \in Floor .. Ceiling /\ ccKbps' \in {0, Floor, Ceiling}
      BY <1>1, <2>3 DEF CcPublishes
    <2> QED
      BY <2>1, <2>2, <2>3
  <1>4. ccKbps' = 0 \/ ccKbps' \in Floor .. Ceiling
    BY <1>1, <1>3, ApplyBounds DEF ApplyInv, SeedInv
  <1>5. SeedInv'
    BY <1>1, <1>2, <1>3, <1>4 DEF SeedInv
  <1> QED
    BY <1>2, <1>5 DEF ApplyInv, ApplyTypes, WaitInv, OneInFlight

\* The host's answers fill their channel to its capacity.
LEMMA HostStep ==
    ASSUME ApplyInv, HostSilent \/ \E v \in Verdicts : HostAnswers(v)
    PROVE  ApplyInv'
  <1>1. UNCHANGED <<abrKbps, ccKbps, gate, status, attempt, tracked, expired, held>>
    BY DEF HostSilent, HostAnswers
  <1>2. wire # << >> /\ wire' = Tail(wire) /\ wire \in Seq(Int)
    BY DEF HostSilent, HostAnswers, ApplyInv, ApplyTypes
  <1>3. wire' \in Seq(Int) /\ Head(wire) \in Int /\ Len(wire') = Len(wire) - 1
    BY <1>2, HeadTailProperties
  <1>4. /\ answers' \in Seq([kbps : Int, status : Verdicts])
        /\ Len(answers') <= AckQueue /\ Len(answers') <= Len(answers) + 1
    <2> DEFINE A == [kbps : Int, status : Verdicts]
    <2>1. answers \in Seq(A) /\ Len(answers) <= AckQueue /\ Len(answers) \in Nat
      BY LenProperties DEF ApplyInv, ApplyTypes
    <2>2. CASE answers' = answers
      BY <2>1, <2>2
    <2>3. ASSUME NEW a \in A, answers' = Append(answers, a), Len(answers) < AckQueue
          PROVE  answers' \in Seq(A) /\ Len(answers') <= AckQueue /\ Len(answers') <= Len(answers) + 1
      <3>1. answers' \in Seq(A) /\ Len(answers') = Len(answers) + 1
        BY <2>1, <2>3, AppendProperties
      <3> QED
        BY <2>1, <2>3, <3>1, ApplyBounds
    <2>4. ASSUME NEW v \in Verdicts, HostAnswers(v)
          PROVE  answers' \in Seq(A) /\ Len(answers') <= AckQueue /\ Len(answers') <= Len(answers) + 1
      <3>1. [kbps |-> Head(wire), status |-> v] \in A
        BY <1>3
      <3>2. answers' = IF tracked /\ Len(answers) < AckQueue
                       THEN Append(answers, [kbps |-> Head(wire), status |-> v]) ELSE answers
        BY <2>4 DEF HostAnswers
      <3> HIDE DEF A
      <3>3. CASE tracked /\ Len(answers) < AckQueue
        BY <2>3, <3>1, <3>2, <3>3
      <3>4. CASE ~(tracked /\ Len(answers) < AckQueue)
        <4>1. answers' = answers
          BY <3>2, <3>4, Zenon
        <4> QED
          BY <2>2, <4>1 DEF A
      <3> QED
        BY <3>3, <3>4
    <2> QED
      BY <2>2, <2>4 DEF HostSilent
  <1>5. OneInFlight'
    <2>1. /\ Len(wire) \in Nat /\ Len(answers) \in Nat /\ Len(answers') \in Nat /\ expired \in Nat
      BY <1>2, <1>4, LenProperties DEF ApplyInv, ApplyTypes
    <2> QED
      BY <1>1, <1>3, <1>4, <2>1 DEF ApplyInv, OneInFlight
  <1> QED
    BY <1>1, <1>3, <1>4, <1>5 DEF ApplyInv, ApplyTypes, SeedInv, WaitInv

\* --------------------------------------------------------------- the theorems

LEMMA ApplyStart == ApplyInit => ApplyInv
  <1> SUFFICES ASSUME ApplyInit PROVE ApplyInv
    OBVIOUS
  <1>1. /\ << >> \in Seq(Int) /\ << >> \in Seq([kbps : Int, status : Verdicts])
        /\ Len(answers) = 0 /\ Len(wire) = 0
    BY EmptySeq DEF ApplyInit
  <1>2. ApplyTypes
    BY <1>1, ApplyBounds DEF ApplyInit, ApplyTypes, Statuses, Places, Idle
  <1> QED
    BY <1>1, <1>2, ApplyBounds DEF ApplyInit, ApplyInv, SeedInv, WaitInv, OneInFlight, Idle

LEMMA ApplyNextStep == ApplyInv /\ [ApplyNext]_applyVars => ApplyInv'
  <1> SUFFICES ASSUME ApplyInv, [ApplyNext]_applyVars PROVE ApplyInv'
    OBVIOUS
  <1>1. CASE UNCHANGED applyVars
    BY <1>1 DEF applyVars, ApplyInv, ApplyTypes, SeedInv, WaitInv, OneInFlight
  <1>2. CASE Tick
    BY <1>2, TickStep
  <1>3. CASE \/ \E estimate \in {0, Ceiling - 1, Ceiling} : Observe(estimate)
             \/ ObserveLoss \/ \E kbps \in {0, Floor, Ceiling} : CcPublishes(kbps)
    BY <1>3, TargetStep
  <1>4. CASE HostSilent \/ \E v \in Verdicts : HostAnswers(v)
    BY <1>4, HostStep
  <1> QED
    BY <1>1, <1>2, <1>3, <1>4 DEF ApplyNext, Verdicts

LEMMA ApplyInvariance == ApplySpec => []ApplyInv
  BY ApplyStart, ApplyNextStep, PTL DEF ApplySpec

\* An emergency decrease is held back by the request before it alone, and no
\* request is made while another waits for its answer, whatever answers are
\* lost and whatever sends fail (ApplyGate::next_candidate,
\* BitrateApplyMachine::poll).
THEOREM GovernedRate == ApplySpec => []RateGoverned
  <1>1. ApplyInv => RateGoverned
    <2> SUFFICES ASSUME ApplyInv PROVE RateGoverned
      OBVIOUS
    <2>1. ApplyTypeOK
      BY ApplyBounds DEF ApplyInv, ApplyTypes, SeedInv, ApplyTypeOK
    <2>2. held \in Nat /\ status.at \in Places
      BY DEF ApplyInv, ApplyTypes, Statuses
    <2>3. EmergencyBounded
      BY <2>2, ApplyBounds DEF ApplyInv, WaitInv, EmergencyBounded, Places
    <2> QED
      BY <2>1, <2>3 DEF ApplyInv, RateGoverned
  <1> QED
    BY <1>1, ApplyInvariance, PTL

(***************************************************************************)
(* HostVideo: the broken picture chains heal, and frames and tasks end.    *)
(*                                                                         *)
(* VideoInv describes every sender task by itself (TaskOK: what it still   *)
(* owns at each place of its life), among the others (TaskFits: its wakeup,*)
(* its one terminal code, its one late symbol) and, for the current one,   *)
(* what the decode callback may rely on (CurFits).  OneChanges is the frame*)
(* every step goes through: one task changes and the others fit as before. *)
(***************************************************************************)

Commands == {"subscribe", "needs_idr"}
Ends == Reasons \cup {NoExit}
TaskPlaces == {"select", "drain", "chunk", "source", "repair", "sendrepair",
               "deactivate", "flag", "slot", "die", "clear", "gone"}
UnitPlaces == {"idle", "enqueue", "terminal", "locked", "notify", "rtp", "idr", "setup"}
Hands == [key : BOOLEAN, left : Nat, whole : BOOLEAN, late : BOOLEAN, repairs : Nat]
Tasks == [pc : TaskPlaces, active : BOOLEAN, live : BOOLEAN, exit : Ends, slot : Ends,
          queue : Seq(BOOLEAN), permit : BOOLEAN, acks : Seq(Commands), hand : Hands]

\* A sender task by itself: what it still owns at each place of its life.
TaskOK(t) ==
    /\ Len(t.queue) <= QueueCapacity /\ Len(t.acks) <= AckCapacity /\ t.hand.left <= MaxChunks
    /\ t.pc = "source" => t.hand.left > 0
    /\ t.pc = "sendrepair" => t.hand.repairs > 0
    /\ t.pc \in {"select", "drain"} => ~t.hand.key
    /\ Running(t) => t.live /\ t.exit = NoExit /\ t.slot = NoExit
    /\ t.pc \in {"deactivate", "flag", "slot"} => t.live /\ t.exit # NoExit /\ t.slot = NoExit
    /\ t.pc = "die" => t.live /\ t.exit # NoExit /\ t.slot = t.exit
    /\ t.pc \in {"clear", "gone"} => ~t.live /\ t.exit # NoExit /\ t.slot \in {NoExit, t.exit}
    /\ t.active => Running(t) \/ t.pc = "deactivate"
    /\ t.pc = "gone" => t.queue = <<>>
    /\ Running(t) /\ ~t.active => t.pc = "select" /\ t.queue = <<>> /\ ~t.permit

\* The terminal codes task g has been good for.
Code(t) == IF fecOnly /\ ~t.live /\ t.slot = NoExit /\ ErrorCode(t.exit) THEN 1 ELSE 0

\* Task g, in state t, among the others.
TaskFits(g, t) ==
    /\ t \in Tasks /\ TaskOK(t)
    /\ t.pc = "select" /\ t.queue # <<>> => t.permit \/ (g = handle /\ unit.pc = "notify")
    /\ reported[g] = Code(t)
    /\ ghost[g] \in 0 .. 1
    /\ g = generation \/ t.pc \in {"source", "sendrepair"} => ghost[g] = 0
    /\ t.exit = "AckChannelClosed" => dropped /\ g = handle

HasKey(frames) == \E i \in 1 .. Len(frames) : frames[i] = TRUE

\* A key frame is on its way to the client: asked for, about to be queued, queued or being sent.
Heals(t) ==
    \/ needsIdr \/ idrAsked \/ (unit.key /\ unit.pc \in {"enqueue", "locked"})
    \/ t.pc = "deactivate" \/ (t.hand.key /\ t.hand.whole) \/ HasKey(t.queue)

\* The current task, in state t: before the client subscribes nothing was lost and
\* nothing is being queued, and after its death the next frame claims the reason.
CurFits(t) ==
    /\ Running(t) /\ ~t.active => ~fecBroken /\ unit.pc \notin {"enqueue", "locked", "notify"}
    /\ silentUnits > 0 => ~t.live /\ (unit.pc # "terminal" => t.slot = NoExit)
    /\ fecBroken /\ t.active /\ ~dropped => Heals(t)

UnitInv ==
    /\ unit \in [pc : UnitPlaces, key : BOOLEAN, carried : BOOLEAN]
    /\ unit.key => unit.pc \in {"enqueue", "terminal", "locked", "notify", "rtp"}
    /\ dropped => unit.pc = "idle"
    /\ generation \in 1 .. MaxGenerations /\ handle \in 1 .. MaxGenerations
    /\ handle = IF unit.pc = "setup" THEN generation - 1 ELSE generation

RtpInv ==
    /\ rtp \in Seq(BOOLEAN)
    /\ Len(rtp) <= ChannelQueueSize \/ Len(rtp) = 1
    /\ rtpBroken /\ ~dropped /\ ~fecOnly => needsIdr \/ idrAsked \/ unit.key \/ HasKey(rtp)

Flags ==
    /\ dropped \in BOOLEAN /\ needsIdr \in BOOLEAN /\ idrAsked \in BOOLEAN
    /\ fecBroken \in BOOLEAN /\ rtpBroken \in BOOLEAN /\ silentUnits \in Nat

Lists ==
    /\ task \in Seq(Tasks) /\ reported \in Seq(Nat) /\ ghost \in Seq(Nat)
    /\ Len(task) = handle /\ Len(reported) = handle /\ Len(ghost) = handle

VideoInv ==
    /\ Flags /\ Lists /\ UnitInv /\ RtpInv /\ CurFits(task[handle])
    /\ \A g \in 1 .. handle : TaskFits(g, task[g])

\* ------------------------------------------------------------ sequences

LEMMA TakenFrom ==
    ASSUME NEW S, NEW list \in Seq(S), list # <<>>
    PROVE  Tail(list) \in Seq(S) /\ Len(Tail(list)) = Len(list) - 1 /\ Head(list) \in S
  OBVIOUS

LEMMA KeyQueued ==
    ASSUME NEW frames \in Seq(BOOLEAN), NEW e \in BOOLEAN, HasKey(frames)
    PROVE  HasKey(Append(frames, e))
  <1>1. PICK i \in 1 .. Len(frames) : frames[i] = TRUE
    BY DEF HasKey
  <1>2. i \in 1 .. Len(Append(frames, e)) /\ Append(frames, e)[i] = frames[i]
    OBVIOUS
  <1> QED
    BY <1>1, <1>2, Zenon DEF HasKey

LEMMA KeyTaken ==
    ASSUME NEW frames \in Seq(BOOLEAN), frames # <<>>, HasKey(frames)
    PROVE  Head(frames) = TRUE \/ HasKey(Tail(frames))
  <1>1. PICK i \in 1 .. Len(frames) : frames[i] = TRUE
    BY DEF HasKey
  <1>2. Head(frames) = frames[1]
    OBVIOUS
  <1>3. CASE i = 1
    BY <1>1, <1>2, <1>3, Zenon
  <1>4. CASE i # 1
    <2>1. i - 1 \in 1 .. Len(Tail(frames)) /\ Tail(frames)[i - 1] = frames[i]
      BY <1>4
    <2> QED
      BY <1>1, <2>1, Zenon DEF HasKey
  <1> QED
    BY <1>3, <1>4

\* ------------------------------------------------------- one task changes

LEMMA OneChanges ==
    ASSUME VideoInv, NEW g \in 1 .. handle, NEW t \in Tasks, Becomes(g, t),
           UNCHANGED <<mode, generation, handle>>, dropped => dropped',
           g = handle \/ unit' = unit,
           reported' \in Seq(Nat), Len(reported') = handle, \A h \in 1 .. handle : h # g => reported'[h] = reported[h],
           ghost' \in Seq(Nat), Len(ghost') = handle, \A h \in 1 .. handle : h # g => ghost'[h] = ghost[h],
           Flags', UnitInv', RtpInv', TaskFits(g, t)',
           NEW c, c = IF g = handle THEN t ELSE task[handle], CurFits(c)'
    PROVE  VideoInv'
  <1>1. task \in Seq(Tasks) /\ Len(task) = handle /\ task' = [task EXCEPT ![g] = t]
    BY Zenon DEF VideoInv, Lists, Becomes
  <1>2. /\ task' \in Seq(Tasks) /\ Len(task') = handle /\ task'[g] = t
        /\ \A j \in 1 .. handle : j # g => task'[j] = task[j]
    <2>1. g \in 1 .. Len(task)
      BY <1>1, Zenon
    <2>2. /\ task' \in Seq(Tasks) /\ Len(task') = Len(task) /\ task'[g] = t
          /\ \A j \in 1 .. Len(task) : j # g => task'[j] = task[j]
      BY <1>1, <2>1
    <2> QED
      BY <1>1, <2>2, Zenon
  <1>3. handle \in 1 .. handle
    BY DEF VideoInv, UnitInv
  <1>4. task'[handle'] = c
    BY <1>2, <1>3, Zenon
  <1>5. ASSUME NEW h \in 1 .. handle, h # g PROVE TaskFits(h, task[h])'
    <2>1. TaskFits(h, task[h]) /\ task'[h] = task[h] /\ reported'[h] = reported[h] /\ ghost'[h] = ghost[h]
      BY <1>2, <1>5, Zenon DEF VideoInv
    <2>3. PICK s : s = task[h] /\ s = task'[h]
      BY <2>1
    <2>4. TaskFits(h, s)
      BY <2>1, <2>3, Zenon
    <2>5. TaskFits(h, s)'
      <3>1. fecOnly' = fecOnly
        BY DEF fecOnly
      <3>2. Code(s)' = Code(s)
        BY <3>1, Zenon DEF Code
      <3>3. h = handle => unit' = unit
        BY <1>5, Zenon
      <3>4. s.pc = "select" /\ s.queue # <<>> => s.permit \/ (h = handle' /\ unit'.pc = "notify")
        BY <2>4, <3>3, Zenon DEF TaskFits
      <3>5. s.exit = "AckChannelClosed" => dropped' /\ h = handle'
        BY <2>4, Zenon DEF TaskFits
      <3>6. /\ s \in Tasks /\ TaskOK(s) /\ reported'[h] = Code(s)' /\ ghost'[h] \in 0 .. 1
            /\ h = generation' \/ s.pc \in {"source", "sendrepair"} => ghost'[h] = 0
        BY <2>1, <2>4, <3>2, Zenon DEF TaskFits
      <3>7. TaskOK(s)'
        BY <3>6 DEF TaskOK
      <3> QED
        BY <3>4, <3>5, <3>6, <3>7, Zenon DEF TaskFits
    <2> QED
      BY <2>3, <2>5, Zenon
  <1>6. \A h \in 1 .. handle' : TaskFits(h, task[h])'
    BY <1>2, <1>5, Zenon
  <1>7. Lists'
    BY <1>2, Zenon DEF Lists
  <1> QED
    BY <1>4, <1>6, <1>7, Zenon DEF VideoInv

\* A step of task g: the flags may only be raised, and the rest is left alone.
Aside == UNCHANGED <<mode, generation, handle, dropped, idrAsked, unit, rtp, rtpBroken, reported, silentUnits>>

LEMMA SenderChanges ==
    ASSUME VideoInv, NEW g \in 1 .. handle, NEW t \in Tasks, Becomes(g, t), Aside, TaskOK(t),
           needsIdr' \in BOOLEAN, needsIdr => needsIdr',
           fecBroken' \in BOOLEAN, g # handle => fecBroken' = fecBroken,
           ghost' \in Seq(Nat), Len(ghost') = handle, \A h \in 1 .. handle : h # g => ghost'[h] = ghost[h],
           ghost'[g] \in 0 .. 1, g = generation \/ t.pc \in {"source", "sendrepair"} => ghost'[g] = 0,
           t.pc = "select" /\ t.queue # <<>> => t.permit \/ (g = handle /\ unit.pc = "notify"),
           Code(t) = Code(task[g]),
           t.exit = "AckChannelClosed" => dropped /\ g = handle,
           g = handle => CurFits(t)'
    PROVE  VideoInv'
  <1>1. UNCHANGED <<mode, generation, handle, dropped, idrAsked, unit, rtp, rtpBroken, reported, silentUnits>>
    BY DEF Aside
  <1>2. Flags' /\ UnitInv'
    <2>1. Flags'
      BY <1>1, Zenon DEF VideoInv, Flags
    <2>2. UnitInv'
      BY <1>1 DEF VideoInv, UnitInv
    <2> QED
      BY <2>1, <2>2
  <1>3. RtpInv'
    <2>1. fecOnly' = fecOnly
      BY <1>1 DEF fecOnly
    <2> QED
      BY <1>1, <2>1, Zenon DEF VideoInv, RtpInv, HasKey
  <1>4. TaskFits(g, t)'
    <2>1. Code(t)' = Code(t)
      BY <1>1, Zenon DEF Code, fecOnly
    <2>2. reported'[g] = Code(t)'
      BY <1>1, <2>1, Zenon DEF VideoInv, TaskFits
    <2>3. TaskOK(t)'
      BY DEF TaskOK
    <2> QED
      BY <1>1, <2>2, <2>3, Zenon DEF TaskFits
  <1>5. g # handle => CurFits(task[handle])'
    <2>1. SUFFICES ASSUME g # handle PROVE CurFits(task[handle])'
      OBVIOUS
    <2>2. handle \in 1 .. handle /\ task \in Seq(Tasks) /\ Len(task) = handle
      BY DEF VideoInv, UnitInv, Lists
    <2>3. task' = [task EXCEPT ![g] = t]
      BY DEF Becomes
    <2>4. task'[handle] = task[handle]
      BY <2>1, <2>2, <2>3
    <2>5. PICK c : c = task[handle] /\ c = task'[handle']
      BY <1>1, <2>4, Zenon
    <2>6. CurFits(c)
      BY <2>5, Zenon DEF VideoInv
    <2>7. CurFits(c)'
      <3>1. Heals(c) => Heals(c)'
        BY <1>1, Zenon DEF Heals
      <3> QED
        BY <1>1, <2>1, <2>6, <3>1, Zenon DEF CurFits
    <2> QED
      BY <2>5, <2>7, Zenon
  <1>6. PICK c : c = IF g = handle THEN t ELSE task[handle]
    OBVIOUS
  <1>7. CurFits(c)'
    <2>1. CASE g = handle
      BY <1>6, <2>1, Zenon
    <2>2. CASE g # handle
      <3>1. handle \in 1 .. handle /\ task \in Seq(Tasks) /\ Len(task) = handle /\ task' = [task EXCEPT ![g] = t]
        BY DEF VideoInv, UnitInv, Lists, Becomes
      <3>2. c = task'[handle']
        BY <1>1, <1>6, <2>2, <3>1
      <3> QED
        BY <1>5, <2>2, <3>2, Zenon
    <2> QED
      BY <2>1, <2>2
  <1>8. /\ reported' \in Seq(Nat) /\ Len(reported') = handle
        /\ \A h \in 1 .. handle : h # g => reported'[h] = reported[h]
    BY <1>1, Zenon DEF VideoInv, Lists
  <1> QED
    BY <1>1, <1>2, <1>3, <1>4, <1>6, <1>7, <1>8, OneChanges, Zenon

\* A task inside its loop ...
Alive(t) ==
    /\ Running(t) /\ t.live /\ t.exit = NoExit /\ t.slot = NoExit
    /\ Len(t.queue) <= QueueCapacity /\ Len(t.acks) <= AckCapacity /\ t.hand.left <= MaxChunks
    /\ t.pc = "source" => t.hand.left > 0
    /\ t.pc = "sendrepair" => t.hand.repairs > 0
    /\ t.pc \in {"select", "drain"} => ~t.hand.key
    /\ ~t.active => t.pc = "select" /\ t.queue = <<>> /\ ~t.permit

LEMMA AliveTask ==
    ASSUME NEW t \in Tasks, Running(t)
    PROVE  Alive(t) <=> TaskOK(t)
  <1>1. t.pc \in {"select", "drain", "chunk", "source", "repair", "sendrepair"}
    BY DEF Running
  <1>2. t.pc \notin {"deactivate", "flag", "slot"} /\ t.pc # "die" /\ t.pc \notin {"clear", "gone"} /\ t.pc # "gone"
    BY <1>1
  <1> QED
    BY <1>2, Zenon DEF TaskOK, Alive

\* ... that stays in it.
LEMMA RunStep ==
    ASSUME VideoInv, NEW g \in 1 .. handle, Running(task[g]), NEW t \in Tasks, Becomes(g, t), Aside, Alive(t),
           needsIdr' \in BOOLEAN, needsIdr => needsIdr',
           fecBroken' \in BOOLEAN, g # handle => fecBroken' = fecBroken,
           ghost' \in Seq(Nat), Len(ghost') = handle, \A h \in 1 .. handle : h # g => ghost'[h] = ghost[h],
           ghost'[g] \in 0 .. 1, g = generation \/ t.pc \in {"source", "sendrepair"} => ghost'[g] = 0,
           t.pc = "select" /\ t.queue # <<>> => t.permit \/ (g = handle /\ unit.pc = "notify"),
           g = handle /\ ~t.active => ~task[g].active /\ ~fecBroken',
           g = handle /\ fecBroken' /\ t.active /\ ~dropped => Heals(t)'
    PROVE  VideoInv'
  <1>1. task[g] \in Tasks /\ TaskOK(task[g]) /\ Alive(task[g])
    BY AliveTask, Zenon DEF VideoInv, TaskFits
  <1>2. TaskOK(t) /\ Running(t)
    BY AliveTask, Zenon DEF Alive
  <1>3. Code(t) = Code(task[g])
    BY <1>1, Zenon DEF Code, Alive
  <1>4. t.exit # "AckChannelClosed"
    BY DEF Alive, NoExit
  <1>5. g = handle => CurFits(t)'
    <2>1. SUFFICES ASSUME g = handle PROVE CurFits(t)'
      OBVIOUS
    <2>2. CurFits(task[g])
      BY <2>1, Zenon DEF VideoInv
    <2>3. UNCHANGED <<unit, silentUnits, dropped>>
      BY DEF Aside
    <2>4. ~(silentUnits > 0)
      BY <1>1, <2>2, Zenon DEF CurFits, Alive
    <2>5. ~t.active => unit.pc \notin {"enqueue", "locked", "notify"}
      BY <1>1, <2>1, <2>2, Zenon DEF CurFits, Alive
    <2> QED
      BY <2>1, <2>3, <2>4, <2>5, Zenon DEF CurFits
  <1> QED
    BY <1>2, <1>3, <1>4, <1>5, SenderChanges, Zenon

\* ... or leaves it.
LEMMA ExitStep ==
    ASSUME VideoInv, NEW g \in 1 .. handle, Running(task[g]), NEW reason \in Reasons,
           Becomes(g, Exiting(task[g], reason)), Aside, UNCHANGED <<needsIdr, fecBroken, ghost>>,
           reason = "AckChannelClosed" => dropped /\ g = handle
    PROVE  VideoInv'
  <1>1. PICK s \in Tasks : s = task[g]
    BY Zenon DEF VideoInv, TaskFits
  <1>2. Alive(s) /\ TaskOK(s)
    BY <1>1, AliveTask, Zenon DEF VideoInv, TaskFits
  <1>3. PICK t : t = Exiting(s, reason)
    OBVIOUS
  <1>4. /\ t \in Tasks /\ t.pc = "deactivate" /\ t.exit = reason /\ t.live = s.live /\ t.slot = s.slot
        /\ t.queue = s.queue /\ t.acks = <<>> /\ t.hand = NoFrame /\ t.active = s.active
    <2>1. NoFrame \in Hands /\ <<>> \in Seq(Commands) /\ reason \in Ends
      BY DEF NoFrame, Hands, Ends
    <2> QED
      BY <1>3, <2>1, Zenon DEF Exiting, Tasks, TaskPlaces
  <1>5. reason # NoExit
    BY DEF Reasons, NoExit
  <1>6. Len(<<>>) <= AckCapacity /\ 0 <= MaxChunks /\ NoFrame.left = 0
    BY SizeAssumption DEF NoFrame
  <1>7. TaskOK(t)
    <2>1. t.pc \notin {"select", "drain", "chunk", "source", "repair", "sendrepair"} /\ t.pc # "source" /\ t.pc # "sendrepair" /\ t.pc # "die"
          /\ t.pc # "gone" /\ t.pc \notin {"clear", "gone"} /\ t.pc \notin {"select", "drain"}
      BY <1>4
    <2>2. ~Running(t)
      BY <2>1 DEF Running
    <2> QED
      BY <1>2, <1>4, <1>5, <1>6, <2>1, <2>2, Zenon DEF TaskOK, Alive
  <1>8. Becomes(g, t)
    BY <1>1, <1>3, Zenon
  <1>9. Code(t) = Code(task[g])
    BY <1>1, <1>2, <1>4, Zenon DEF Code, Alive
  <1>10. g = handle => CurFits(t)'
    <2>1. SUFFICES ASSUME g = handle PROVE CurFits(t)'
      OBVIOUS
    <2>2. CurFits(s)
      BY <1>1, <2>1, Zenon DEF VideoInv
    <2>3. ~(silentUnits > 0) /\ UNCHANGED silentUnits
      BY <1>2, <2>2, Zenon DEF CurFits, Alive, Aside
    <2>4. ~Running(t)
      BY <1>4 DEF Running
    <2>5. Heals(t)'
      BY <1>4, Zenon DEF Heals
    <2> QED
      BY <2>3, <2>4, <2>5, Zenon DEF CurFits
  <1>11. /\ ghost' \in Seq(Nat) /\ Len(ghost') = handle /\ (\A h \in 1 .. handle : h # g => ghost'[h] = ghost[h])
         /\ ghost'[g] \in 0 .. 1 /\ (g = generation \/ t.pc \in {"source", "sendrepair"} => ghost'[g] = 0)
    <2>1. t.pc \notin {"source", "sendrepair"}
      BY <1>4
    <2> QED
      BY <2>1, Zenon DEF VideoInv, Lists, TaskFits
  <1>12. t.pc # "select"
    BY <1>4
  <1>13. needsIdr' \in BOOLEAN /\ (needsIdr => needsIdr') /\ fecBroken' \in BOOLEAN /\ fecBroken' = fecBroken
    BY Zenon DEF VideoInv, Flags
  <1> QED
    BY <1>4, <1>7, <1>8, <1>9, <1>10, <1>11, <1>12, <1>13, SenderChanges, Zenon

\* ------------------------------------------------- the steps of the loop

\* What the steps of a task that leave the network alone need not say again.
LEMMA NoSymbol ==
    ASSUME VideoInv, NEW g \in 1 .. handle, UNCHANGED ghost
    PROVE  /\ ghost' \in Seq(Nat) /\ Len(ghost') = handle /\ (\A h \in 1 .. handle : h # g => ghost'[h] = ghost[h])
           /\ ghost'[g] \in 0 .. 1 /\ (g = generation \/ task[g].pc \in {"source", "sendrepair"} => ghost'[g] = 0)
  BY Zenon DEF VideoInv, Lists, TaskFits

LEMMA TaskFacts ==
    ASSUME VideoInv, NEW g \in 1 .. handle
    PROVE  /\ task[g] \in Tasks /\ TaskOK(task[g]) /\ TaskFits(g, task[g]) /\ (g = handle => CurFits(task[g]))
           /\ needsIdr \in BOOLEAN /\ fecBroken \in BOOLEAN
  BY Zenon DEF VideoInv, TaskFits, Flags

LEMMA ReceiveStep ==
    ASSUME VideoInv, NEW g \in 1 .. handle, ReceiveControl(g)
    PROVE  VideoInv'
  <1>1. PICK s \in Tasks : s = task[g] /\ TaskOK(s) /\ TaskFits(g, s) /\ (g = handle => CurFits(s))
    BY TaskFacts, Zenon
  <1>2. s.pc = "select" /\ s.acks # <<>>
    BY <1>1, Zenon DEF ReceiveControl
  <1>3. Running(s) /\ Alive(s)
    BY <1>1, <1>2, AliveTask DEF Running
  <1>4. s.acks \in Seq(Commands) /\ s.active \in BOOLEAN
    BY Zenon DEF Tasks
  <1>5. Tail(s.acks) \in Seq(Commands) /\ Len(Tail(s.acks)) <= AckCapacity
    <2>1. Len(s.acks) <= AckCapacity
      BY <1>3, Zenon DEF Alive
    <2> QED
      BY <1>2, <1>4, <2>1, SizeAssumption
  <1>6. PICK on \in BOOLEAN : on = (s.active \/ Head(s.acks) = "subscribe")
    OBVIOUS
  <1>7. PICK t : t = [s EXCEPT !.acks = Tail(@), !.active = on]
    OBVIOUS
  <1>8. /\ t \in Tasks /\ t.pc = s.pc /\ t.active = on /\ t.live = s.live /\ t.exit = s.exit /\ t.slot = s.slot
        /\ t.queue = s.queue /\ t.permit = s.permit /\ t.acks = Tail(s.acks) /\ t.hand = s.hand
    BY <1>5, <1>7, Zenon DEF Tasks
  <1>9. Becomes(g, t) /\ Aside /\ needsIdr' = (needsIdr \/ Head(s.acks) = "needs_idr") /\ UNCHANGED <<fecBroken, ghost>>
    BY <1>1, <1>6, <1>7, Zenon DEF ReceiveControl, Aside, history
  <1>10. Alive(t)
    BY <1>3, <1>5, <1>6, <1>8, Zenon DEF Alive, Running
  <1>11. needsIdr' \in BOOLEAN /\ (needsIdr => needsIdr') /\ fecBroken' \in BOOLEAN /\ fecBroken' = fecBroken
    BY <1>9, TaskFacts, Zenon
  <1>12. t.pc = "select" /\ t.queue # <<>> => t.permit \/ (g = handle /\ unit.pc = "notify")
    BY <1>1, <1>8, Zenon DEF TaskFits
  <1>13. g = handle /\ ~t.active => ~task[g].active /\ ~fecBroken'
    BY <1>1, <1>3, <1>6, <1>8, <1>11, Zenon DEF CurFits
  <1>14. g = handle /\ fecBroken' /\ t.active /\ ~dropped => Heals(t)'
    <2>1. SUFFICES ASSUME g = handle, fecBroken', ~dropped PROVE Heals(t)'
      OBVIOUS
    <2>2. Heals(s)
      BY <1>1, <1>3, <1>11, <2>1, Zenon DEF CurFits
    <2> QED
      BY <1>8, <1>9, <1>11, <2>2, Zenon DEF Heals, Aside
  <1>15. g = generation \/ t.pc \in {"source", "sendrepair"} => ghost'[g] = 0
    BY <1>1, <1>8, <1>9, NoSymbol, Zenon
  <1>16. /\ ghost' \in Seq(Nat) /\ Len(ghost') = handle /\ (\A h \in 1 .. handle : h # g => ghost'[h] = ghost[h])
         /\ ghost'[g] \in 0 .. 1
    BY <1>9, NoSymbol, Zenon
  <1> QED
    BY <1>1, <1>3, <1>8, <1>9, <1>10, <1>11, <1>12, <1>13, <1>14, <1>15, <1>16, RunStep, Zenon

LEMMA ClosedStep ==
    ASSUME VideoInv, NEW g \in 1 .. handle, ControlClosed(g)
    PROVE  VideoInv'
  <1>1. PICK reason \in Reasons : reason = IF g # generation THEN "Superseded" ELSE "AckChannelClosed"
    BY DEF Reasons
  <1>2. /\ task[g].pc = "select" /\ HandleDropped(g) /\ Becomes(g, Exiting(task[g], reason)) /\ Aside
        /\ UNCHANGED <<needsIdr, fecBroken, ghost>>
    BY <1>1, Zenon DEF ControlClosed, Aside, flags, history
  <1>3. Running(task[g])
    BY <1>2 DEF Running
  <1>4. ASSUME reason = "AckChannelClosed" PROVE dropped /\ g = handle
    <2>1. g = generation
      BY <1>1, <1>4
    <2>2. handle = generation \/ handle = generation - 1
      BY Zenon DEF VideoInv, UnitInv
    <2>3. g = handle
      BY <2>1, <2>2 DEF VideoInv, UnitInv
    <2> QED
      BY <1>2, <2>3, Zenon DEF HandleDropped
  <1> QED
    BY <1>2, <1>3, <1>4, ExitStep, Zenon

LEMMA NotifiedStep ==
    ASSUME VideoInv, NEW g \in 1 .. handle, Notified(g)
    PROVE  VideoInv'
  <1>1. PICK s \in Tasks : s = task[g] /\ TaskOK(s) /\ TaskFits(g, s) /\ (g = handle => CurFits(s))
    BY TaskFacts, Zenon
  <1>2. s.pc = "select" /\ s.permit
    BY <1>1, Zenon DEF Notified
  <1>3. Running(s) /\ Alive(s)
    BY <1>1, <1>2, AliveTask DEF Running
  <1>4. s.active
    BY <1>2, <1>3, Zenon DEF Alive
  <1>7. PICK t : t = [s EXCEPT !.permit = FALSE, !.pc = "drain"]
    OBVIOUS
  <1>8. /\ t \in Tasks /\ t.pc = "drain" /\ t.active = s.active /\ t.live = s.live /\ t.exit = s.exit /\ t.slot = s.slot
        /\ t.queue = s.queue /\ t.acks = s.acks /\ t.hand = s.hand
    BY <1>7, Zenon DEF Tasks, TaskPlaces
  <1>9. Becomes(g, t) /\ Aside /\ UNCHANGED <<needsIdr, fecBroken, ghost>>
    BY <1>1, <1>7, Zenon DEF Notified, Aside, flags, history
  <1>10. Alive(t)
    <2>1. Running(t) /\ t.pc # "source" /\ t.pc # "sendrepair" /\ ~s.hand.key
      BY <1>2, <1>3, <1>8, Zenon DEF Running, Alive
    <2> QED
      BY <1>3, <1>4, <1>8, <2>1, Zenon DEF Alive
  <1>11. needsIdr' \in BOOLEAN /\ (needsIdr => needsIdr') /\ fecBroken' \in BOOLEAN /\ fecBroken' = fecBroken
    BY <1>9, TaskFacts, Zenon
  <1>14. g = handle /\ fecBroken' /\ t.active /\ ~dropped => Heals(t)'
    <2>1. SUFFICES ASSUME g = handle, fecBroken', ~dropped PROVE Heals(t)'
      OBVIOUS
    <2>2. Heals(s)
      BY <1>1, <1>4, <1>11, <2>1, Zenon DEF CurFits
    <2> QED
      BY <1>2, <1>8, <1>9, <1>11, <2>2, Zenon DEF Heals, Aside
  <1>15. t.pc # "select" /\ t.pc \notin {"source", "sendrepair"} /\ t.active
    BY <1>4, <1>8
  <1>16. /\ ghost' \in Seq(Nat) /\ Len(ghost') = handle /\ (\A h \in 1 .. handle : h # g => ghost'[h] = ghost[h])
         /\ ghost'[g] \in 0 .. 1 /\ (g = generation => ghost'[g] = 0)
    BY <1>9, NoSymbol, Zenon
  <1> QED
    BY <1>1, <1>3, <1>8, <1>9, <1>10, <1>11, <1>14, <1>15, <1>16, RunStep, Zenon

\* A step of the drain, which only a subscribed task is in.
LEMMA DrainStep ==
    ASSUME VideoInv, NEW g \in 1 .. handle, NEW s \in Tasks, s = task[g], Running(s), s.pc # "select",
           NEW t \in Tasks, Becomes(g, t), Aside, Running(t),
           t.active = s.active, t.live = s.live, t.exit = s.exit, t.slot = s.slot, t.acks = s.acks,
           Len(t.queue) <= QueueCapacity, t.hand.left <= MaxChunks,
           t.pc = "source" => t.hand.left > 0, t.pc = "sendrepair" => t.hand.repairs > 0,
           t.pc \in {"select", "drain"} => ~t.hand.key,
           t.pc = "select" => t.queue = <<>>,
           needsIdr' \in BOOLEAN, needsIdr => needsIdr',
           fecBroken' \in BOOLEAN, g # handle => fecBroken' = fecBroken,
           ghost' \in Seq(Nat), Len(ghost') = handle, \A h \in 1 .. handle : h # g => ghost'[h] = ghost[h],
           ghost'[g] \in 0 .. 1, g = generation \/ t.pc \in {"source", "sendrepair"} => ghost'[g] = 0,
           g = handle /\ fecBroken' => needsIdr' \/ (fecBroken /\ (Heals(s) => Heals(t)'))
    PROVE  VideoInv'
  <1>1. TaskOK(s) /\ (g = handle => CurFits(s))
    BY TaskFacts, Zenon
  <1>2. Alive(s)
    BY <1>1, AliveTask, Zenon
  <1>3. s.active
    BY <1>2, Zenon DEF Alive
  <1>4. Alive(t)
    BY <1>2, <1>3, Zenon DEF Alive
  <1>5. t.active
    BY <1>3
  <1>6. g = handle /\ fecBroken' /\ t.active /\ ~dropped => Heals(t)'
    <2>1. needsIdr' => Heals(t)'
      BY Zenon DEF Heals
    <2>2. g = handle /\ fecBroken /\ ~dropped => Heals(s)
      BY <1>1, <1>3, Zenon DEF CurFits
    <2> QED
      BY <2>1, <2>2, Zenon
  <1> QED
    BY <1>4, <1>5, <1>6, RunStep, Zenon

LEMMA PopStep ==
    ASSUME VideoInv, NEW g \in 1 .. handle, PopFrame(g)
    PROVE  VideoInv'
  <1>1. PICK s \in Tasks : s = task[g] /\ TaskOK(s)
    BY TaskFacts, Zenon
  <1>2. s.pc = "drain" /\ Aside /\ UNCHANGED ghost
    BY <1>1, Zenon DEF PopFrame, Aside
  <1>3. Running(s) /\ s.pc # "select" /\ Alive(s)
    BY <1>1, <1>2, AliveTask DEF Running
  <1>4. /\ s.queue \in Seq(BOOLEAN) /\ Len(s.queue) <= QueueCapacity /\ ~s.hand.key /\ s.hand.left <= MaxChunks
    BY <1>2, <1>3, Zenon DEF Tasks, Alive
  <1>5. /\ ghost' \in Seq(Nat) /\ Len(ghost') = handle /\ (\A h \in 1 .. handle : h # g => ghost'[h] = ghost[h])
        /\ ghost'[g] \in 0 .. 1 /\ (g = generation => ghost'[g] = 0)
    BY <1>2, NoSymbol, Zenon
  <1>6. needsIdr \in BOOLEAN /\ fecBroken \in BOOLEAN
    BY TaskFacts, Zenon
  <1>7. CASE s.queue = <<>>
    <2>1. PICK t : t = [s EXCEPT !.pc = "select"]
      OBVIOUS
    <2>2. /\ t \in Tasks /\ t.pc = "select" /\ t.active = s.active /\ t.live = s.live /\ t.exit = s.exit /\ t.slot = s.slot
          /\ t.queue = s.queue /\ t.acks = s.acks /\ t.hand = s.hand
      BY <2>1, Zenon DEF Tasks, TaskPlaces
    <2>3. Becomes(g, t) /\ UNCHANGED <<needsIdr, fecBroken>>
      BY <1>1, <1>7, <2>1, Zenon DEF PopFrame
    <2>4. Running(t) /\ t.pc \notin {"source", "sendrepair"} /\ t.pc # "source" /\ t.pc # "sendrepair"
      BY <2>2 DEF Running
    <2>5. Heals(s) => Heals(t)'
      BY <1>2, <1>4, <2>2, <2>3, Zenon DEF Heals, Aside
    <2>6. Len(t.queue) <= QueueCapacity /\ t.hand.left <= MaxChunks /\ ~t.hand.key /\ t.queue = <<>>
      BY <1>4, <1>7, <2>2, Zenon
    <2> QED
      BY <1>1, <1>2, <1>3, <1>5, <1>6, <2>2, <2>3, <2>4, <2>5, <2>6, DrainStep, Zenon
  <1>8. CASE s.queue # <<>>
    <2>0. Tail(s.queue) \in Seq(BOOLEAN) /\ Len(Tail(s.queue)) <= QueueCapacity /\ Head(s.queue) \in BOOLEAN
      <3>1. Tail(s.queue) \in Seq(BOOLEAN) /\ Len(Tail(s.queue)) = Len(s.queue) - 1 /\ Head(s.queue) \in BOOLEAN
        BY <1>4, <1>8, TakenFrom, Zenon
      <3>2. Len(s.queue) \in Nat
        BY <1>4
      <3>3. Len(s.queue) - 1 <= QueueCapacity
        BY <1>4, <3>2, SizeAssumption
      <3> QED
        BY <3>1, <3>3, Zenon
    <2>1. ASSUME NEW n \in Chunks,
                 Becomes(g, [s EXCEPT !.queue = Tail(@), !.pc = "chunk",
                             !.hand = [NoFrame EXCEPT !.key = Head(s.queue), !.left = n, !.whole = TRUE]]),
                 UNCHANGED <<needsIdr, fecBroken>>
          PROVE  VideoInv'
      <3>1. PICK hand : hand = [NoFrame EXCEPT !.key = Head(s.queue), !.left = n, !.whole = TRUE]
        OBVIOUS
      <3>2. n \in Nat /\ n <= MaxChunks
        BY SizeAssumption DEF Chunks
      <3>3. hand \in Hands /\ hand.key = Head(s.queue) /\ hand.left = n /\ hand.whole = TRUE
        <4>1. NoFrame \in Hands
          BY DEF NoFrame, Hands
        <4> QED
          BY <2>0, <3>1, <3>2, <4>1, Zenon DEF Hands
      <3>4. PICK t : t = [s EXCEPT !.queue = Tail(@), !.pc = "chunk", !.hand = hand]
        OBVIOUS
      <3>5. /\ t \in Tasks /\ t.pc = "chunk" /\ t.active = s.active /\ t.live = s.live /\ t.exit = s.exit /\ t.slot = s.slot
            /\ t.queue = Tail(s.queue) /\ t.acks = s.acks /\ t.hand = hand
        BY <2>0, <3>3, <3>4, Zenon DEF Tasks, TaskPlaces
      <3>6. Becomes(g, t)
        BY <2>1, <3>1, <3>4, Zenon
      <3>7. Running(t) /\ t.pc \notin {"source", "sendrepair"} /\ t.pc \notin {"select", "drain"} /\ t.pc # "source" /\ t.pc # "sendrepair" /\ t.pc # "select"
        BY <3>5 DEF Running
      <3>8. Heals(s) => Heals(t)'
        <4>1. HasKey(s.queue) => Head(s.queue) = TRUE \/ HasKey(Tail(s.queue))
          BY <1>4, <1>8, KeyTaken, Zenon
        <4>2. s.pc # "deactivate"
          BY <1>2
        <4> QED
          BY <1>2, <1>4, <2>1, <3>3, <3>5, <4>1, <4>2, Zenon DEF Heals, Aside
      <3>9. Len(t.queue) <= QueueCapacity /\ t.hand.left <= MaxChunks
        BY <2>0, <3>2, <3>3, <3>5, Zenon
      <3> QED
        BY <1>1, <1>2, <1>3, <1>5, <1>6, <2>1, <3>5, <3>6, <3>7, <3>8, <3>9, DrainStep, Zenon
    <2>2. ASSUME Becomes(g, [s EXCEPT !.queue = Tail(@)]), needsIdr' = TRUE, LoseFrame(g)
          PROVE  VideoInv'
      <3>1. PICK t : t = [s EXCEPT !.queue = Tail(@)]
        OBVIOUS
      <3>2. /\ t \in Tasks /\ t.pc = "drain" /\ t.active = s.active /\ t.live = s.live /\ t.exit = s.exit /\ t.slot = s.slot
            /\ t.queue = Tail(s.queue) /\ t.acks = s.acks /\ t.hand = s.hand
        BY <1>2, <2>0, <3>1, Zenon DEF Tasks
      <3>3. Becomes(g, t)
        BY <2>2, <3>1, Zenon
      <3>4. Running(t) /\ t.pc \notin {"source", "sendrepair"} /\ t.pc # "source" /\ t.pc # "sendrepair" /\ t.pc # "select"
        BY <3>2 DEF Running
      <3>5. Len(t.queue) <= QueueCapacity /\ t.hand.left <= MaxChunks /\ ~t.hand.key
        BY <1>4, <2>0, <3>2, Zenon
      <3>6. needsIdr' \in BOOLEAN /\ needsIdr'
        BY <2>2, Zenon
      <3>7. fecBroken' \in BOOLEAN /\ (g # handle => fecBroken' = fecBroken)
        BY <1>6, <2>2, Zenon DEF LoseFrame
      <3> QED
        BY <1>1, <1>2, <1>3, <1>5, <3>2, <3>3, <3>4, <3>5, <3>6, <3>7, DrainStep, Zenon
    <2> QED
      BY <1>1, <1>8, <2>1, <2>2, Zenon DEF PopFrame
  <1> QED
    BY <1>7, <1>8

LEMMA ChunkStep ==
    ASSUME VideoInv, NEW g \in 1 .. handle, NextChunk(g)
    PROVE  VideoInv'
  <1>1. PICK s \in Tasks : s = task[g] /\ TaskOK(s)
    BY TaskFacts, Zenon
  <1>2. s.pc = "chunk" /\ Aside /\ UNCHANGED ghost
    BY <1>1, Zenon DEF NextChunk, Aside
  <1>3. Running(s) /\ s.pc # "select" /\ Alive(s) /\ s.pc # "deactivate"
    BY <1>1, <1>2, AliveTask DEF Running
  <1>4. s.hand \in Hands /\ s.hand.left \in Nat /\ Len(s.queue) <= QueueCapacity /\ s.hand.left <= MaxChunks
    BY <1>2, <1>3, Zenon DEF Tasks, Alive, Hands
  <1>5. /\ ghost' \in Seq(Nat) /\ Len(ghost') = handle /\ (\A h \in 1 .. handle : h # g => ghost'[h] = ghost[h])
        /\ ghost'[g] \in 0 .. 1 /\ (g = generation => ghost'[g] = 0)
    BY <1>2, NoSymbol, Zenon
  <1>6. needsIdr \in BOOLEAN /\ fecBroken \in BOOLEAN
    BY TaskFacts, Zenon
  <1>7. CASE s.hand.left = 0
    <2>1. PICK t : t = [s EXCEPT !.pc = "drain", !.hand = NoFrame]
      OBVIOUS
    <2>2. NoFrame \in Hands /\ NoFrame.left = 0 /\ NoFrame.key = FALSE /\ 0 <= MaxChunks
      BY SizeAssumption DEF NoFrame, Hands
    <2>3. /\ t \in Tasks /\ t.pc = "drain" /\ t.active = s.active /\ t.live = s.live /\ t.exit = s.exit /\ t.slot = s.slot
          /\ t.queue = s.queue /\ t.acks = s.acks /\ t.hand = NoFrame
      BY <2>1, <2>2, Zenon DEF Tasks, TaskPlaces
    <2>4. /\ Becomes(g, t) /\ UNCHANGED needsIdr
          /\ fecBroken' = IF g = handle /\ s.hand.key /\ s.hand.whole THEN FALSE ELSE fecBroken
      BY <1>1, <1>7, <2>1, Zenon DEF NextChunk
    <2>5. Running(t) /\ t.pc \notin {"source", "sendrepair"} /\ t.pc # "source" /\ t.pc # "sendrepair" /\ t.pc # "select"
      BY <2>3 DEF Running
    <2>6. fecBroken' \in BOOLEAN /\ (g # handle => fecBroken' = fecBroken)
      BY <1>6, <2>4, Zenon
    <2>7. g = handle /\ fecBroken' => fecBroken /\ (Heals(s) => Heals(t)')
      BY <1>2, <1>3, <2>3, <2>4, Zenon DEF Heals, Aside
    <2>8. Len(t.queue) <= QueueCapacity /\ t.hand.left <= MaxChunks /\ ~t.hand.key
      BY <1>4, <2>2, <2>3, Zenon
    <2> QED
      BY <1>1, <1>2, <1>3, <1>5, <1>6, <2>3, <2>4, <2>5, <2>6, <2>7, <2>8, DrainStep, Zenon
  <1>8. CASE s.hand.left # 0
    <2>1. ASSUME Becomes(g, [s EXCEPT !.hand = SkipChunk(@)]),
                 needsIdr' = TRUE, LoseFrame(g)
          PROVE  VideoInv'
      <3>1. PICK hand : hand = SkipChunk(s.hand)
        OBVIOUS
      <3>2. s.hand.left - 1 \in Nat /\ s.hand.left - 1 <= MaxChunks
        BY <1>4, <1>8, SizeAssumption
      <3>3. hand \in Hands /\ hand.left = s.hand.left - 1
        BY <1>4, <3>1, <3>2, Zenon DEF Hands, SkipChunk
      <3>4. PICK t : t = [s EXCEPT !.hand = hand]
        OBVIOUS
      <3>5. /\ t \in Tasks /\ t.pc = "chunk" /\ t.active = s.active /\ t.live = s.live /\ t.exit = s.exit /\ t.slot = s.slot
            /\ t.queue = s.queue /\ t.acks = s.acks /\ t.hand = hand
        BY <1>2, <3>3, <3>4, Zenon DEF Tasks
      <3>6. Becomes(g, t)
        BY <2>1, <3>1, <3>4, Zenon
      <3>7. Running(t) /\ t.pc \notin {"source", "sendrepair"} /\ t.pc \notin {"select", "drain"} /\ t.pc # "source" /\ t.pc # "sendrepair" /\ t.pc # "select"
        BY <3>5 DEF Running
      <3>8. Len(t.queue) <= QueueCapacity /\ t.hand.left <= MaxChunks
        BY <1>4, <3>2, <3>3, <3>5, Zenon
      <3>9. needsIdr' \in BOOLEAN /\ needsIdr' /\ fecBroken' \in BOOLEAN /\ (g # handle => fecBroken' = fecBroken)
        BY <1>6, <2>1, Zenon DEF LoseFrame
      <3> QED
        BY <1>1, <1>2, <1>3, <1>5, <3>5, <3>6, <3>7, <3>8, <3>9, DrainStep, Zenon
    <2>2. ASSUME g # generation, Becomes(g, Exiting(s, "Superseded")), UNCHANGED <<needsIdr, fecBroken>>
          PROVE  VideoInv'
      <3>1. "Superseded" \in Reasons /\ "Superseded" # "AckChannelClosed"
        BY DEF Reasons
      <3> QED
        BY <1>1, <1>2, <1>3, <2>2, <3>1, ExitStep, Zenon
    <2>3. ASSUME g = generation, Becomes(g, [s EXCEPT !.pc = "source"]), UNCHANGED <<needsIdr, fecBroken>>
          PROVE  VideoInv'
      <3>1. PICK t : t = [s EXCEPT !.pc = "source"]
        OBVIOUS
      <3>2. /\ t \in Tasks /\ t.pc = "source" /\ t.active = s.active /\ t.live = s.live /\ t.exit = s.exit /\ t.slot = s.slot
            /\ t.queue = s.queue /\ t.acks = s.acks /\ t.hand = s.hand
        BY <3>1, Zenon DEF Tasks, TaskPlaces
      <3>3. Becomes(g, t)
        BY <2>3, <3>1, Zenon
      <3>4. Running(t) /\ t.pc # "select" /\ t.pc # "sendrepair" /\ t.pc \notin {"select", "drain"}
        BY <3>2 DEF Running
      <3>5. t.hand.left > 0 /\ t.hand.left <= MaxChunks /\ Len(t.queue) <= QueueCapacity
        BY <1>4, <1>8, <3>2
      <3>6. Heals(s) => Heals(t)'
        BY <1>2, <1>3, <2>3, <3>2, Zenon DEF Heals, Aside
      <3>7. ghost'[g] = 0
        BY <1>5, <2>3, Zenon
      <3> QED
        BY <1>1, <1>2, <1>3, <1>5, <1>6, <2>3, <3>2, <3>3, <3>4, <3>5, <3>6, <3>7, DrainStep, Zenon
    <2> QED
      BY <1>1, <1>8, <2>1, <2>2, <2>3, Zenon DEF NextChunk
  <1> QED
    BY <1>7, <1>8

\* A superseded task had sent nothing before the symbol it is about to send.
LEMMA SymbolSent ==
    ASSUME VideoInv, NEW g \in 1 .. handle, task[g].pc \in {"source", "sendrepair"}, GhostSend(g)
    PROVE  /\ ghost' \in Seq(Nat) /\ Len(ghost') = handle /\ (\A h \in 1 .. handle : h # g => ghost'[h] = ghost[h])
           /\ ghost'[g] \in 0 .. 1 /\ (g = generation => ghost'[g] = 0)
  <1>1. ghost[g] = 0 /\ ghost \in Seq(Nat) /\ Len(ghost) = handle
    BY Zenon DEF VideoInv, Lists, TaskFits
  <1>2. CASE g = generation
    <2>1. ghost' = ghost
      BY <1>2 DEF GhostSend
    <2> QED
      BY <1>1, <2>1
  <1>3. CASE g # generation
    <2>1. ghost' = [ghost EXCEPT ![g] = ghost[g] + 1]
      BY <1>3 DEF GhostSend
    <2> QED
      BY <1>1, <1>3, <2>1
  <1> QED
    BY <1>2, <1>3

\* A symbol is sent and the repair loop entered or continued.
LEMMA SymbolStep ==
    ASSUME VideoInv, NEW g \in 1 .. handle, NEW s \in Tasks, s = task[g], s.pc \in {"source", "sendrepair"}, Aside,
           NEW hand \in Hands, hand.left <= MaxChunks, hand.key = s.hand.key, hand.whole = s.hand.whole,
           Becomes(g, [s EXCEPT !.pc = "repair", !.hand = hand]),
           UNCHANGED <<needsIdr, fecBroken>>, GhostSend(g)
    PROVE  VideoInv'
  <1>1. TaskOK(s) /\ needsIdr \in BOOLEAN /\ fecBroken \in BOOLEAN
    BY TaskFacts, Zenon
  <1>2. Running(s) /\ s.pc # "select" /\ Alive(s) /\ s.pc # "deactivate"
    BY <1>1, AliveTask DEF Running
  <1>3. PICK t : t = [s EXCEPT !.pc = "repair", !.hand = hand]
    OBVIOUS
  <1>4. /\ t \in Tasks /\ t.pc = "repair" /\ t.active = s.active /\ t.live = s.live /\ t.exit = s.exit /\ t.slot = s.slot
        /\ t.queue = s.queue /\ t.acks = s.acks /\ t.hand = hand
    BY <1>3, Zenon DEF Tasks, TaskPlaces
  <1>5. Becomes(g, t)
    BY <1>3, Zenon
  <1>6. Running(t) /\ t.pc # "select" /\ t.pc \notin {"select", "drain"} /\ t.pc \notin {"source", "sendrepair"} /\ t.pc # "source" /\ t.pc # "sendrepair"
    BY <1>4 DEF Running
  <1>7. Len(t.queue) <= QueueCapacity /\ t.hand.left <= MaxChunks
    BY <1>2, <1>4, Zenon DEF Alive
  <1>8. Heals(s) => Heals(t)'
    BY <1>2, <1>4, Zenon DEF Heals, Aside
  <1>9. /\ ghost' \in Seq(Nat) /\ Len(ghost') = handle /\ (\A h \in 1 .. handle : h # g => ghost'[h] = ghost[h])
        /\ ghost'[g] \in 0 .. 1 /\ (g = generation => ghost'[g] = 0)
    BY SymbolSent, Zenon
  <1> QED
    BY <1>1, <1>2, <1>4, <1>5, <1>6, <1>7, <1>8, <1>9, DrainStep, Zenon

LEMMA Failed ==
    ASSUME NEW closed \in {"SinkClosed", "ChannelClosed"}, NEW reason \in Failures(closed)
    PROVE  reason \in Reasons /\ reason # "AckChannelClosed"
  BY DEF Failures, Reasons

LEMMA SourceStep ==
    ASSUME VideoInv, NEW g \in 1 .. handle, SendSource(g)
    PROVE  VideoInv'
  <1>1. PICK s \in Tasks : s = task[g] /\ TaskOK(s)
    BY TaskFacts, Zenon
  <1>2. s.pc = "source" /\ Aside /\ UNCHANGED <<needsIdr, fecBroken>>
    BY <1>1, Zenon DEF SendSource, Aside, flags
  <1>3. Running(s) /\ Alive(s) /\ s.pc \in {"source", "sendrepair"}
    BY <1>1, <1>2, AliveTask DEF Running
  <1>4. s.hand \in Hands /\ s.hand.left \in Nat /\ s.hand.left > 0 /\ s.hand.left <= MaxChunks
    BY <1>2, <1>3, Zenon DEF Tasks, Alive, Hands
  <1>5. ASSUME NEW repairs \in 0 .. 1, Becomes(g, [s EXCEPT !.pc = "repair", !.hand = SentChunk(@, repairs)]), GhostSend(g)
        PROVE  VideoInv'
    <2>1. PICK hand : hand = SentChunk(s.hand, repairs)
      OBVIOUS
    <2>2. s.hand.left - 1 \in Nat /\ s.hand.left - 1 <= MaxChunks /\ repairs \in Nat
      BY <1>4, SizeAssumption
    <2>3. hand \in Hands /\ hand.left = s.hand.left - 1 /\ hand.key = s.hand.key /\ hand.whole = s.hand.whole
      BY <1>4, <2>1, <2>2, Zenon DEF Hands, SentChunk
    <2>4. Becomes(g, [s EXCEPT !.pc = "repair", !.hand = hand])
      BY <1>5, <2>1, Zenon
    <2>5. hand.left <= MaxChunks
      BY <2>2, <2>3, Zenon
    <2> QED
      BY <1>1, <1>2, <1>3, <1>5, <2>3, <2>4, <2>5, SymbolStep, Zenon
  <1>6. ASSUME NEW reason \in Failures("SinkClosed"), Becomes(g, Exiting(s, reason)), UNCHANGED ghost
        PROVE  VideoInv'
    <2>1. reason \in Reasons /\ reason # "AckChannelClosed"
      BY Failed
    <2> QED
      BY <1>1, <1>2, <1>3, <1>6, <2>1, ExitStep, Zenon
  <1> QED
    BY <1>1, <1>5, <1>6, Zenon DEF SendSource

LEMMA SendRepairStep ==
    ASSUME VideoInv, NEW g \in 1 .. handle, SendRepair(g)
    PROVE  VideoInv'
  <1>1. PICK s \in Tasks : s = task[g] /\ TaskOK(s)
    BY TaskFacts, Zenon
  <1>2. s.pc = "sendrepair" /\ Aside /\ UNCHANGED <<needsIdr, fecBroken>>
    BY <1>1, Zenon DEF SendRepair, Aside, flags
  <1>3. Running(s) /\ Alive(s) /\ s.pc \in {"source", "sendrepair"}
    BY <1>1, <1>2, AliveTask DEF Running
  <1>4. s.hand \in Hands /\ s.hand.repairs \in Nat /\ s.hand.left <= MaxChunks /\ s.hand.repairs > 0
    BY <1>1, <1>2, <1>3, Zenon DEF Tasks, Alive, Hands, TaskOK
  <1>5. ASSUME Becomes(g, [s EXCEPT !.pc = "repair", !.hand = SentRepair(@)]), GhostSend(g)
        PROVE  VideoInv'
    <2>1. PICK hand : hand = SentRepair(s.hand)
      OBVIOUS
    <2>2. s.hand.repairs - 1 \in Nat
      BY <1>4
    <2>3. hand \in Hands /\ hand.left = s.hand.left /\ hand.key = s.hand.key /\ hand.whole = s.hand.whole
      BY <1>4, <2>1, <2>2, Zenon DEF Hands, SentRepair
    <2>4. Becomes(g, [s EXCEPT !.pc = "repair", !.hand = hand])
      BY <1>5, <2>1, Zenon
    <2> QED
      BY <1>1, <1>2, <1>3, <1>4, <1>5, <2>3, <2>4, SymbolStep, Zenon
  <1>6. ASSUME NEW reason \in Failures("ChannelClosed"), Becomes(g, Exiting(s, reason)), UNCHANGED ghost
        PROVE  VideoInv'
    <2>1. reason \in Reasons /\ reason # "AckChannelClosed"
      BY Failed
    <2> QED
      BY <1>1, <1>2, <1>3, <1>6, <2>1, ExitStep, Zenon
  <1> QED
    BY <1>1, <1>5, <1>6, Zenon DEF SendRepair

LEMMA NextRepairStep ==
    ASSUME VideoInv, NEW g \in 1 .. handle, NextRepair(g)
    PROVE  VideoInv'
  <1>1. PICK s \in Tasks : s = task[g] /\ TaskOK(s)
    BY TaskFacts, Zenon
  <1>2. s.pc = "repair" /\ Aside /\ UNCHANGED <<fecBroken, ghost>>
    BY <1>1, Zenon DEF NextRepair, Aside, history
  <1>3. Running(s) /\ s.pc # "select" /\ Alive(s) /\ s.pc # "deactivate"
    BY <1>1, <1>2, AliveTask DEF Running
  <1>4. s.hand \in Hands /\ Len(s.queue) <= QueueCapacity /\ s.hand.left <= MaxChunks
    BY <1>2, <1>3, Zenon DEF Tasks, Alive, Hands
  <1>5. /\ ghost' \in Seq(Nat) /\ Len(ghost') = handle /\ (\A h \in 1 .. handle : h # g => ghost'[h] = ghost[h])
        /\ ghost'[g] \in 0 .. 1 /\ (g = generation => ghost'[g] = 0)
    BY <1>2, NoSymbol, Zenon
  <1>6. needsIdr \in BOOLEAN /\ fecBroken \in BOOLEAN
    BY TaskFacts, Zenon
  <1>7. ASSUME NEW pc \in {"chunk", "sendrepair"}, pc = "sendrepair" => g = generation /\ s.hand.repairs > 0,
               NEW hand \in Hands, hand.left = s.hand.left, hand.key = s.hand.key, hand.whole = s.hand.whole,
               pc = "sendrepair" => hand = s.hand,
               Becomes(g, [s EXCEPT !.pc = pc, !.hand = hand]), needsIdr' \in BOOLEAN, needsIdr => needsIdr'
        PROVE  VideoInv'
    <2>1. PICK t : t = [s EXCEPT !.pc = pc, !.hand = hand]
      OBVIOUS
    <2>2. pc \in TaskPlaces
      BY <1>7 DEF TaskPlaces
    <2>3. /\ t \in Tasks /\ t.pc = pc /\ t.active = s.active /\ t.live = s.live /\ t.exit = s.exit /\ t.slot = s.slot
          /\ t.queue = s.queue /\ t.acks = s.acks /\ t.hand = hand
      BY <2>1, <2>2, Zenon DEF Tasks
    <2>4. Becomes(g, t)
      BY <1>7, <2>1, Zenon
    <2>5. Running(t) /\ t.pc # "source" /\ t.pc # "select" /\ t.pc \notin {"select", "drain"}
      BY <1>7, <2>3 DEF Running
    <2>6. t.pc \in {"source", "sendrepair"} => ghost'[g] = 0
      BY <1>5, <1>7, <2>3
    <2>7. Heals(s) => Heals(t)'
      BY <1>2, <1>3, <1>7, <2>3, Zenon DEF Heals, Aside
    <2>8. Len(t.queue) <= QueueCapacity /\ t.hand.left <= MaxChunks /\ (t.pc = "sendrepair" => t.hand.repairs > 0)
      BY <1>4, <1>7, <2>3, Zenon
    <2> QED
      BY <1>1, <1>2, <1>3, <1>5, <1>6, <1>7, <2>3, <2>4, <2>5, <2>6, <2>7, <2>8, DrainStep, Zenon
  <1>8. [s EXCEPT !.pc = "chunk"] = [s EXCEPT !.pc = "chunk", !.hand = s.hand]
    BY DEF Tasks
  <1>9. [s EXCEPT !.pc = "sendrepair"] = [s EXCEPT !.pc = "sendrepair", !.hand = s.hand]
    BY DEF Tasks
  <1>10. ASSUME Becomes(g, [s EXCEPT !.pc = "chunk"]), UNCHANGED needsIdr PROVE VideoInv'
    <2>1. Becomes(g, [s EXCEPT !.pc = "chunk", !.hand = s.hand])
      BY <1>8, <1>10, Zenon
    <2>2. "chunk" # "sendrepair"
      OBVIOUS
    <2> QED
      BY <1>4, <1>6, <1>7, <1>10, <2>1, <2>2, Zenon
  <1>11. ASSUME Becomes(g, [s EXCEPT !.pc = "chunk", !.hand = SkipRepairs(@)]), needsIdr' = TRUE PROVE VideoInv'
    <2>1. PICK hand : hand = SkipRepairs(s.hand)
      OBVIOUS
    <2>2. 0 \in Nat
      OBVIOUS
    <2>3. hand \in Hands /\ hand.left = s.hand.left /\ hand.key = s.hand.key /\ hand.whole = s.hand.whole
      BY <1>4, <2>1, <2>2, Zenon DEF Hands, SkipRepairs
    <2>4. Becomes(g, [s EXCEPT !.pc = "chunk", !.hand = hand])
      BY <1>11, <2>1, Zenon
    <2>5. "chunk" # "sendrepair"
      OBVIOUS
    <2> QED
      BY <1>7, <1>11, <2>3, <2>4, <2>5, Zenon
  <1>12. ASSUME g # generation, Becomes(g, Exiting(s, "Superseded")), UNCHANGED needsIdr PROVE VideoInv'
    <2>1. "Superseded" \in Reasons /\ "Superseded" # "AckChannelClosed"
      BY DEF Reasons
    <2> QED
      BY <1>1, <1>2, <1>3, <1>12, <2>1, ExitStep, Zenon
  <1>13. ASSUME g = generation, s.hand.repairs > 0, Becomes(g, [s EXCEPT !.pc = "sendrepair"]), UNCHANGED needsIdr PROVE VideoInv'
    <2>1. Becomes(g, [s EXCEPT !.pc = "sendrepair", !.hand = s.hand])
      BY <1>9, <1>13, Zenon
    <2> QED
      BY <1>4, <1>6, <1>7, <1>13, <2>1, Zenon
  <1> QED
    BY <1>1, <1>10, <1>11, <1>12, <1>13, Zenon DEF NextRepair

\* A step of the end of a task.
LEMMA EndStep ==
    ASSUME VideoInv, NEW g \in 1 .. handle, NEW s \in Tasks, s = task[g],
           NEW t \in Tasks, Becomes(g, t), Aside, UNCHANGED <<fecBroken, ghost>>,
           needsIdr' \in BOOLEAN, needsIdr => needsIdr',
           TaskOK(t), t.exit = s.exit, ~t.active, t.pc \in {"flag", "slot", "die", "clear", "gone"},
           s.live \/ (~t.live /\ t.slot = s.slot), Code(t) = Code(s)
    PROVE  VideoInv'
  <1>1. TaskFits(g, s) /\ (g = handle => CurFits(s)) /\ fecBroken \in BOOLEAN
    BY TaskFacts, Zenon
  <1>2. t.pc # "select" /\ t.pc \notin {"source", "sendrepair"}
    OBVIOUS
  <1>3. ~Running(t)
    BY DEF Running
  <1>4. g = handle => CurFits(t)'
    <2>1. SUFFICES ASSUME g = handle PROVE CurFits(t)'
      OBVIOUS
    <2>2. silentUnits' > 0 => ~t.live /\ (unit'.pc # "terminal" => t.slot = NoExit)
      BY <1>1, <2>1, Zenon DEF CurFits, Aside
    <2> QED
      BY <1>3, <2>2, Zenon DEF CurFits
  <1>5. t.exit = "AckChannelClosed" => dropped /\ g = handle
    BY <1>1, Zenon DEF TaskFits
  <1>6. /\ ghost' \in Seq(Nat) /\ Len(ghost') = handle /\ (\A h \in 1 .. handle : h # g => ghost'[h] = ghost[h])
        /\ ghost'[g] \in 0 .. 1 /\ (g = generation => ghost'[g] = 0)
    BY NoSymbol, Zenon
  <1> QED
    BY <1>1, <1>2, <1>4, <1>5, <1>6, SenderChanges, Zenon

LEMMA EndOfTaskStep ==
    ASSUME VideoInv, NEW g \in 1 .. handle, EndOfTask(g)
    PROVE  VideoInv'
  <1>1. PICK s \in Tasks : s = task[g] /\ TaskOK(s)
    BY TaskFacts, Zenon
  <1>2. Aside /\ UNCHANGED <<fecBroken, ghost>> /\ needsIdr \in BOOLEAN
    BY TaskFacts, Zenon DEF EndOfTask, Aside, history
  <1>3. /\ Len(s.queue) <= QueueCapacity /\ Len(s.acks) <= AckCapacity /\ s.hand.left <= MaxChunks
    BY <1>1, Zenon DEF TaskOK
  <1>4. ASSUME s.pc = "deactivate", Becomes(g, [s EXCEPT !.active = FALSE, !.pc = "flag"]), UNCHANGED needsIdr
        PROVE  VideoInv'
    <2>1. PICK t : t = [s EXCEPT !.active = FALSE, !.pc = "flag"]
      OBVIOUS
    <2>2. /\ t \in Tasks /\ t.pc = "flag" /\ t.active = FALSE /\ t.live = s.live /\ t.exit = s.exit /\ t.slot = s.slot
          /\ t.queue = s.queue /\ t.acks = s.acks /\ t.hand = s.hand
      BY <2>1, Zenon DEF Tasks, TaskPlaces
    <2>3. s.live /\ s.exit # NoExit /\ s.slot = NoExit
      BY <1>1, <1>4 DEF TaskOK
    <2>4. TaskOK(t)
      BY <1>3, <2>2, <2>3 DEF TaskOK, Running
    <2>5. t.pc \in {"flag", "slot", "die", "clear", "gone"} /\ Becomes(g, t)
      BY <1>4, <2>1, <2>2, Zenon
    <2>6. Code(t) = Code(s)
      BY <2>2, Zenon DEF Code
    <2> QED
      BY <1>1, <1>2, <1>4, <2>2, <2>3, <2>4, <2>5, <2>6, EndStep, Zenon
  <1>5. ASSUME s.pc = "flag", Becomes(g, [s EXCEPT !.pc = "slot"]), needsIdr' = (needsIdr \/ s.exit # "Superseded")
        PROVE  VideoInv'
    <2>1. PICK t : t = [s EXCEPT !.pc = "slot"]
      OBVIOUS
    <2>2. /\ t \in Tasks /\ t.pc = "slot" /\ t.active = s.active /\ t.live = s.live /\ t.exit = s.exit /\ t.slot = s.slot
          /\ t.queue = s.queue /\ t.acks = s.acks /\ t.hand = s.hand
      BY <2>1, Zenon DEF Tasks, TaskPlaces
    <2>3. s.live /\ s.exit # NoExit /\ s.slot = NoExit /\ ~s.active
      BY <1>1, <1>5 DEF TaskOK, Running
    <2>4. TaskOK(t)
      BY <1>3, <2>2, <2>3 DEF TaskOK, Running
    <2>5. t.pc \in {"flag", "slot", "die", "clear", "gone"} /\ Becomes(g, t) /\ ~t.active
      BY <1>5, <2>1, <2>2, <2>3, Zenon
    <2>6. Code(t) = Code(s)
      BY <2>2, Zenon DEF Code
    <2>7. needsIdr' \in BOOLEAN /\ (needsIdr => needsIdr')
      BY <1>2, <1>5, Zenon
    <2> QED
      BY <1>1, <1>2, <2>2, <2>3, <2>4, <2>5, <2>6, <2>7, EndStep, Zenon
  <1>6. ASSUME s.pc = "slot", Becomes(g, [s EXCEPT !.slot = s.exit, !.pc = "die"]), UNCHANGED needsIdr
        PROVE  VideoInv'
    <2>1. PICK t : t = [s EXCEPT !.slot = s.exit, !.pc = "die"]
      OBVIOUS
    <2>2. /\ t \in Tasks /\ t.pc = "die" /\ t.active = s.active /\ t.live = s.live /\ t.exit = s.exit /\ t.slot = s.exit
          /\ t.queue = s.queue /\ t.acks = s.acks /\ t.hand = s.hand
      BY <2>1, Zenon DEF Tasks, TaskPlaces
    <2>3. s.live /\ s.exit # NoExit /\ ~s.active
      BY <1>1, <1>6 DEF TaskOK, Running
    <2>4. TaskOK(t)
      BY <1>3, <2>2, <2>3 DEF TaskOK, Running
    <2>5. t.pc \in {"flag", "slot", "die", "clear", "gone"} /\ Becomes(g, t) /\ ~t.active
      BY <1>6, <2>1, <2>2, <2>3, Zenon
    <2>6. Code(t) = Code(s)
      BY <2>2, <2>3, Zenon DEF Code
    <2> QED
      BY <1>1, <1>2, <1>6, <2>2, <2>3, <2>4, <2>5, <2>6, EndStep, Zenon
  <1>7. ASSUME s.pc = "die", Becomes(g, [s EXCEPT !.live = FALSE, !.pc = "clear"]), UNCHANGED needsIdr
        PROVE  VideoInv'
    <2>1. PICK t : t = [s EXCEPT !.live = FALSE, !.pc = "clear"]
      OBVIOUS
    <2>2. /\ t \in Tasks /\ t.pc = "clear" /\ t.active = s.active /\ t.live = FALSE /\ t.exit = s.exit /\ t.slot = s.slot
          /\ t.queue = s.queue /\ t.acks = s.acks /\ t.hand = s.hand
      BY <2>1, Zenon DEF Tasks, TaskPlaces
    <2>3. s.live /\ s.exit # NoExit /\ s.slot = s.exit /\ ~s.active
      BY <1>1, <1>7 DEF TaskOK, Running
    <2>4. TaskOK(t)
      BY <1>3, <2>2, <2>3 DEF TaskOK, Running
    <2>5. t.pc \in {"flag", "slot", "die", "clear", "gone"} /\ Becomes(g, t) /\ ~t.active
      BY <1>7, <2>1, <2>2, <2>3, Zenon
    <2>6. Code(t) = Code(s)
      BY <2>2, <2>3, Zenon DEF Code
    <2> QED
      BY <1>1, <1>2, <1>7, <2>2, <2>3, <2>4, <2>5, <2>6, EndStep, Zenon
  <1>8. ASSUME s.pc = "clear", Becomes(g, [s EXCEPT !.pc = "gone", !.queue = <<>>]), UNCHANGED needsIdr
        PROVE  VideoInv'
    <2>1. PICK t : t = [s EXCEPT !.pc = "gone", !.queue = <<>>]
      OBVIOUS
    <2>0. <<>> \in Seq(BOOLEAN) /\ Len(<<>>) <= QueueCapacity
      BY SizeAssumption
    <2>2. /\ t \in Tasks /\ t.pc = "gone" /\ t.active = s.active /\ t.live = s.live /\ t.exit = s.exit /\ t.slot = s.slot
          /\ t.queue = <<>> /\ t.acks = s.acks /\ t.hand = s.hand
      BY <2>0, <2>1, Zenon DEF Tasks, TaskPlaces
    <2>3. ~s.live /\ s.exit # NoExit /\ s.slot \in {NoExit, s.exit} /\ ~s.active
      BY <1>1, <1>8 DEF TaskOK, Running
    <2>4. TaskOK(t)
      BY <1>3, <2>0, <2>2, <2>3 DEF TaskOK, Running
    <2>5. t.pc \in {"flag", "slot", "die", "clear", "gone"} /\ Becomes(g, t) /\ ~t.active
      BY <1>8, <2>1, <2>2, <2>3, Zenon
    <2>6. Code(t) = Code(s)
      BY <2>2, <2>3, Zenon DEF Code
    <2> QED
      BY <1>1, <1>2, <1>8, <2>2, <2>3, <2>4, <2>5, <2>6, EndStep, Zenon
  <1> QED
    BY <1>1, <1>4, <1>5, <1>6, <1>7, <1>8, Zenon DEF EndOfTask

LEMMA TaskStep ==
    ASSUME VideoInv, NEW g \in 1 .. handle, SenderTask(g)
    PROVE  VideoInv'
  BY ReceiveStep, ClosedStep, NotifiedStep, PopStep, ChunkStep, SourceStep, NextRepairStep, SendRepairStep,
     EndOfTaskStep, Zenon DEF SenderTask

\* --------------------------------------------- the decode callback's steps

Units == [pc : UnitPlaces, key : BOOLEAN, carried : BOOLEAN]

\* The current handle changes its task's state, but not its place.
LEMMA CurrentChanges ==
    ASSUME VideoInv, NEW t \in Tasks, Becomes(handle, t), UNCHANGED <<mode, generation, handle, ghost>>,
           dropped => dropped', TaskOK(t), Flags', UnitInv', RtpInv', CurFits(t)',
           reported' \in Seq(Nat), Len(reported') = handle, reported'[handle] = Code(t),
           \A h \in 1 .. handle : h # handle => reported'[h] = reported[h],
           t.exit = cur.exit, t.pc = cur.pc,
           t.pc = "select" /\ t.queue # <<>> => t.permit \/ unit'.pc = "notify"
    PROVE  VideoInv'
  <1>1. handle \in 1 .. handle
    BY DEF VideoInv, UnitInv
  <1>2. PICK s \in Tasks : s = task[handle] /\ TaskFits(handle, s)
    BY <1>1, TaskFacts, Zenon
  <1>3. t.exit = s.exit /\ t.pc = s.pc
    BY <1>2, Zenon DEF cur
  <1>4. Code(t)' = Code(t)
    BY Zenon DEF Code, fecOnly
  <1>5. TaskOK(t)'
    BY DEF TaskOK
  <1>6. /\ ghost' \in Seq(Nat) /\ Len(ghost') = handle /\ (\A h \in 1 .. handle : h # handle => ghost'[h] = ghost[h])
        /\ ghost'[handle] \in 0 .. 1 /\ (handle = generation \/ s.pc \in {"source", "sendrepair"} => ghost'[handle] = 0)
    BY <1>1, <1>2, NoSymbol, Zenon
  <1>7. TaskFits(handle, t)'
    <2>1. t.exit = "AckChannelClosed" => dropped'
      BY <1>2, <1>3, Zenon DEF TaskFits
    <2> QED
      BY <1>3, <1>4, <1>5, <1>6, <2>1, Zenon DEF TaskFits
  <1>8. PICK c : c = IF handle = handle THEN t ELSE task[handle]
    OBVIOUS
  <1>9. c = t
    BY <1>8, Zenon
  <1>10. CurFits(c)'
    BY <1>9, Zenon
  <1> QED
    BY <1>1, <1>6, <1>7, <1>8, <1>10, OneChanges, Zenon

LEMMA CurrentStays ==
    ASSUME VideoInv, UNCHANGED <<mode, generation, handle, task, ghost, reported>>,
           dropped => dropped', Flags', UnitInv', RtpInv', CurFits(task[handle])', unit.pc = "notify" => unit'.pc = "notify"
    PROVE  VideoInv'
  <1>1. handle \in 1 .. handle /\ task \in Seq(Tasks) /\ Len(task) = handle
    BY DEF VideoInv, UnitInv, Lists
  <1>2. PICK s \in Tasks : s = task[handle] /\ TaskFits(handle, s)
    BY <1>1, TaskFacts, Zenon
  <1>3. Becomes(handle, s)
    <2>1. task' = [task EXCEPT ![handle] = s]
      BY <1>1, <1>2
    <2> QED
      BY <2>1 DEF Becomes
  <1>4. s = cur /\ CurFits(s)'
    BY <1>2, Zenon DEF cur
  <1>5. /\ TaskOK(s) /\ (s.pc = "select" /\ s.queue # <<>> => s.permit \/ unit'.pc = "notify") /\ reported'[handle] = Code(s)
    BY <1>2, Zenon DEF TaskFits
  <1>6. /\ reported' \in Seq(Nat) /\ Len(reported') = handle
        /\ \A h \in 1 .. handle : h # handle => reported'[h] = reported[h]
    BY Zenon DEF VideoInv, Lists
  <1> QED
    BY <1>3, <1>4, <1>5, <1>6, CurrentChanges, Zenon

LEMMA UnitMoves ==
    ASSUME VideoInv, UNCHANGED <<generation, handle, dropped>>, ~dropped, unit.pc # "setup",
           unit' \in Units, unit'.pc # "setup",
           unit'.key => unit'.pc \in {"enqueue", "terminal", "locked", "notify", "rtp"}
    PROVE  UnitInv'
  <1>1. UnitInv
    BY DEF VideoInv
  <1> QED
    BY <1>1, Zenon DEF UnitInv, Units

LEMMA MovedTo ==
    ASSUME unit \in Units, NEW pc \in UnitPlaces, unit' = [unit EXCEPT !.pc = pc]
    PROVE  unit' \in Units /\ unit'.pc = pc /\ unit'.key = unit.key
  BY Zenon DEF Units

LEMMA RtpStays ==
    ASSUME VideoInv, UNCHANGED <<mode, rtp, rtpBroken>>, dropped => dropped',
           needsIdr \/ idrAsked \/ unit.key => needsIdr' \/ idrAsked' \/ unit'.key
    PROVE  RtpInv'
  <1>1. fecOnly' = fecOnly
    BY DEF fecOnly
  <1> QED
    BY <1>1, Zenon DEF VideoInv, RtpInv, HasKey

LEMMA UnitFacts ==
    ASSUME VideoInv
    PROVE  /\ unit \in Units /\ unit.pc \in UnitPlaces /\ unit.key \in BOOLEAN
           /\ unit.key => unit.pc \in {"enqueue", "terminal", "locked", "notify", "rtp"}
           /\ dropped => unit.pc = "idle"
           /\ handle \in 1 .. handle
           /\ Flags /\ UnitInv /\ RtpInv
  <1>1. handle \in 1 .. handle
    BY DEF VideoInv, UnitInv
  <1> QED
    BY <1>1, Zenon DEF VideoInv, UnitInv, Units

LEMMA CurFacts ==
    ASSUME VideoInv
    PROVE  cur \in Tasks /\ cur = task[handle] /\ TaskOK(cur) /\ TaskFits(handle, cur) /\ CurFits(cur)
  BY UnitFacts, TaskFacts, Zenon DEF cur

\* Only a task inside its loop, or about to leave it, is active.
LEMMA ActiveLives ==
    ASSUME NEW t \in Tasks, TaskOK(t), t.active
    PROVE  IsActive(t) /\ (Running(t) \/ t.pc = "deactivate")
  <1>1. Running(t) \/ t.pc = "deactivate"
    BY Zenon DEF TaskOK
  <1>2. t.pc = "deactivate" => t.live
    BY DEF TaskOK
  <1> QED
    BY <1>1, <1>2, Zenon DEF TaskOK, IsActive

LEMMA DecodeUnitStep ==
    ASSUME VideoInv, DecodeUnit
    PROVE  VideoInv'
  <1>1. PICK key \in {FALSE, idrAsked} :
            /\ unit' = [pc |-> IF IsActive(cur) THEN "enqueue" ELSE "terminal", key |-> key, carried |-> FALSE]
            /\ idrAsked' = (idrAsked /\ ~key)
    BY Zenon DEF DecodeUnit
  <1>2. /\ ~dropped /\ unit.pc = "idle" /\ silentUnits' = IF cur.live THEN 0 ELSE 1
        /\ UNCHANGED <<mode, generation, handle, task, dropped, needsIdr, rtp, fecBroken, rtpBroken, reported, ghost>>
    BY Zenon DEF DecodeUnit
  <1>3. PICK s \in Tasks : s = cur /\ s = task[handle] /\ TaskOK(s) /\ TaskFits(handle, s) /\ CurFits(s)
    BY CurFacts, Zenon
  <1>4. key \in BOOLEAN /\ (key => idrAsked)
    <2>1. idrAsked \in BOOLEAN
      BY UnitFacts, Zenon DEF Flags
    <2>2. key = FALSE \/ key = idrAsked
      OBVIOUS
    <2>3. CASE key = FALSE
      BY <2>3
    <2>4. CASE key = idrAsked
      BY <2>1, <2>4, Zenon
    <2> QED
      BY <2>2, <2>3, <2>4
  <1>5. PICK pc \in {"enqueue", "terminal"} : pc = IF IsActive(s) THEN "enqueue" ELSE "terminal"
    OBVIOUS
  <1>6. unit'.pc = pc /\ unit'.key = key /\ unit' \in Units
    <2>1. unit' = [pc |-> pc, key |-> key, carried |-> FALSE]
      BY <1>1, <1>3, <1>5, Zenon
    <2>2. pc \in UnitPlaces
      BY DEF UnitPlaces
    <2> QED
      BY <1>4, <2>1, <2>2, Zenon DEF Units
  <1>7. UnitInv'
    <2>1. pc # "setup" /\ pc \in {"enqueue", "terminal", "locked", "notify", "rtp"} /\ unit.pc # "setup"
      BY <1>2
    <2> QED
      BY <1>2, <1>6, <2>1, UnitMoves, Zenon
  <1>8. ~unit.key
    BY <1>2, UnitFacts
  <1>9. RtpInv'
    BY <1>1, <1>2, <1>4, <1>6, <1>8, RtpStays, Zenon
  <1>10. Flags'
    <2>1. silentUnits' \in Nat
      BY <1>2
    <2> QED
      BY <1>1, <1>2, <1>4, <2>1, UnitFacts, Zenon DEF Flags
  <1>11. CurFits(s)'
    <2>1. Running(s) /\ ~s.active => ~fecBroken' /\ unit'.pc \notin {"enqueue", "locked", "notify"}
      <3>1. SUFFICES ASSUME Running(s), ~s.active PROVE ~fecBroken' /\ unit'.pc \notin {"enqueue", "locked", "notify"}
        BY Zenon
      <3>2. pc = "terminal"
        BY <1>5, <3>1 DEF IsActive
      <3>3. ~fecBroken
        BY <1>3, <3>1, Zenon DEF CurFits
      <3> QED
        BY <1>2, <1>6, <3>2, <3>3
    <2>2. silentUnits' > 0 => ~s.live /\ (unit'.pc # "terminal" => s.slot = NoExit)
      <3>1. CASE s.live
        BY <1>2, <1>3, <3>1
      <3>2. CASE ~s.live
        BY <1>5, <1>6, <3>2 DEF IsActive
      <3> QED
        BY <3>1, <3>2
    <2>3. fecBroken' /\ s.active /\ ~dropped' => Heals(s)'
      <3>1. SUFFICES ASSUME fecBroken, s.active PROVE Heals(s)'
        BY <1>2, Zenon
      <3>2. Heals(s)
        BY <1>2, <1>3, <3>1, Zenon DEF CurFits
      <3>3. pc = "enqueue" /\ unit.pc \notin {"enqueue", "locked"}
        BY <1>2, <1>3, <1>5, <3>1, ActiveLives
      <3>4. pc \in {"enqueue", "locked"}
        BY <3>3
      <3> QED
        BY <1>1, <1>2, <1>4, <1>6, <3>2, <3>3, <3>4, Zenon DEF Heals
    <2> QED
      BY <2>1, <2>2, <2>3, Zenon DEF CurFits
  <1>12. CurFits(task[handle])'
    BY <1>2, <1>3, <1>11, Zenon
  <1>13. unit.pc # "notify"
    BY <1>2
  <1> QED
    BY <1>2, <1>7, <1>9, <1>10, <1>12, <1>13, CurrentStays, Zenon

\* The steps of the callback between the start of a frame and the RTP half.
LEMMA CallbackFacts ==
    ASSUME VideoInv, unit.pc \in {"enqueue", "terminal", "locked", "notify", "rtp", "idr"}
    PROVE  ~dropped /\ unit.pc # "setup" /\ unit.pc # "idle" /\ unit \in Units
  BY UnitFacts

LEMMA TerminalStep ==
    ASSUME VideoInv, TakeTerminal
    PROVE  VideoInv'
  <1>1. PICK s \in Tasks : s = cur /\ s = task[handle] /\ TaskOK(s) /\ TaskFits(handle, s) /\ CurFits(s)
    BY CurFacts, Zenon
  <1>2. /\ unit.pc = "terminal" /\ unit' = [unit EXCEPT !.pc = "rtp"]
        /\ UNCHANGED <<mode, generation, handle, dropped, needsIdr, idrAsked, rtp, fecBroken, rtpBroken, silentUnits, ghost>>
    BY Zenon DEF TakeTerminal, flags
  <1>3. ~dropped /\ unit.pc # "setup" /\ unit \in Units /\ unit.pc \notin {"enqueue", "locked"}
    BY <1>2, CallbackFacts
  <1>4. unit' \in Units /\ unit'.pc = "rtp" /\ unit'.key = unit.key
    <2>1. "rtp" \in UnitPlaces
      BY DEF UnitPlaces
    <2>2. unit \in Units
      BY <1>3
    <2>3. unit' = [unit EXCEPT !.pc = "rtp"]
      BY <1>2
    <2> QED
      BY <2>1, <2>2, <2>3, MovedTo, Zenon
  <1>5. unit'.pc # "setup" /\ unit'.pc \in {"enqueue", "terminal", "locked", "notify", "rtp"}
        /\ unit'.pc \notin {"enqueue", "locked", "notify"} /\ unit.pc # "notify"
    BY <1>2, <1>4
  <1>6. UnitInv' /\ RtpInv' /\ Flags'
    <2>1. UnitInv'
      BY <1>2, <1>3, <1>4, <1>5, UnitMoves, Zenon
    <2>2. RtpInv'
      BY <1>2, <1>4, RtpStays, Zenon
    <2>3. Flags'
      BY <1>2, UnitFacts, Zenon DEF Flags
    <2> QED
      BY <2>1, <2>2, <2>3
  <1>7. CASE s.live
    <2>1. UNCHANGED <<task, reported>>
      BY <1>1, <1>7, Zenon DEF TakeTerminal
    <2>2. CurFits(s)'
      <3>1. ~(silentUnits > 0)
        BY <1>1, <1>7, Zenon DEF CurFits
      <3>2. Heals(s) => Heals(s)'
        BY <1>2, <1>3, Zenon DEF Heals
      <3> QED
        BY <1>1, <1>2, <1>5, <3>1, <3>2, Zenon DEF CurFits
    <2>3. CurFits(task[handle])'
      BY <1>1, <1>2, <2>1, <2>2, Zenon
    <2> QED
      BY <1>2, <1>5, <1>6, <2>1, <2>3, CurrentStays, Zenon
  <1>8. CASE ~s.live
    <2>1. PICK t : t = [s EXCEPT !.slot = NoExit]
      OBVIOUS
    <2>2. /\ t \in Tasks /\ t.pc = s.pc /\ t.active = s.active /\ t.live = s.live /\ t.exit = s.exit /\ t.slot = NoExit
          /\ t.queue = s.queue /\ t.acks = s.acks /\ t.hand = s.hand /\ t.permit = s.permit
      BY <2>1, Zenon DEF Tasks, Ends
    <2>3. Becomes(handle, t)
      BY <1>1, <1>8, <2>1, Zenon DEF TakeTerminal
    <2>4. s.pc \in {"clear", "gone"} /\ s.exit # NoExit /\ s.slot \in {NoExit, s.exit}
      <3>1. s.pc \in TaskPlaces
        BY Zenon DEF Tasks
      <3> QED
        BY <1>1, <1>8, <3>1 DEF TaskOK, Running, TaskPlaces
    <2>5. ~Running(s) /\ ~s.active
      <3>1. ~Running(s)
        BY <2>4 DEF Running
      <3> QED
        BY <1>1, <2>4, <3>1 DEF TaskOK
    <2>6. TaskOK(t)
      <3>1. ~Running(t)
        BY <2>2, <2>5 DEF Running
      <3>2. Len(s.queue) <= QueueCapacity /\ Len(s.acks) <= AckCapacity /\ s.hand.left <= MaxChunks /\ (s.pc = "gone" => s.queue = <<>>)
        BY <1>1, Zenon DEF TaskOK
      <3> QED
        BY <1>8, <2>2, <2>4, <2>5, <3>1, <3>2 DEF TaskOK
    <2>7. reported' = [reported EXCEPT ![handle] = @ + IF fecOnly /\ ErrorCode(s.slot) THEN 1 ELSE 0]
      BY <1>1, <1>8, Zenon DEF TakeTerminal
    <2>8. reported \in Seq(Nat) /\ Len(reported) = handle /\ reported[handle] = Code(s) /\ handle \in 1 .. handle
      BY <1>1, UnitFacts, Zenon DEF VideoInv, Lists, TaskFits
    <2>9. /\ reported' \in Seq(Nat) /\ Len(reported') = handle
          /\ (\A h \in 1 .. handle : h # handle => reported'[h] = reported[h])
          /\ reported'[handle] = Code(s) + IF fecOnly /\ ErrorCode(s.slot) THEN 1 ELSE 0
      BY <2>7, <2>8
    <2>10. reported'[handle] = Code(t)
      <3>1. CASE s.slot = NoExit
        <4>1. ~ErrorCode(s.slot) /\ Code(t) = Code(s) /\ Code(s) \in Nat
          BY <2>2, <3>1 DEF ErrorCode, Code
        <4> QED
          BY <2>9, <4>1
      <3>2. CASE s.slot # NoExit
        <4>1. Code(s) = 0 /\ s.slot = s.exit
          BY <2>4, <3>2 DEF Code
        <4>2. Code(t) = IF fecOnly /\ ErrorCode(s.slot) THEN 1 ELSE 0
          BY <1>8, <2>2, <4>1 DEF Code
        <4> QED
          BY <2>9, <4>1, <4>2
      <3> QED
        BY <3>1, <3>2
    <2>11. CurFits(t)'
      <3>1. ~Running(t)
        BY <2>2, <2>5 DEF Running
      <3> QED
        BY <1>8, <2>2, <2>5, <3>1, Zenon DEF CurFits
    <2>12. t.exit = cur.exit /\ t.pc = cur.pc /\ t.pc # "select"
      BY <1>1, <2>2, <2>4
    <2> QED
      BY <1>2, <1>6, <2>2, <2>3, <2>6, <2>9, <2>10, <2>11, <2>12, CurrentChanges, Zenon
  <1> QED
    BY <1>7, <1>8

Filled(list, e) == [i \in 1 .. Len(list) |-> e]

LEMMA AllAlike ==
    ASSUME NEW S, NEW e \in S, NEW list \in Seq(S)
    PROVE  Filled(list, e) \in Seq(S) /\ Len(Filled(list, e)) = Len(list)
  BY DEF Filled

\* Making every key frame before a loss an ordinary frame.
LEMMA StaleSame ==
    ASSUME NEW s \in Tasks, NEW t, t = StaleTask(s)
    PROVE  /\ t \in Tasks /\ t.pc = s.pc /\ t.active = s.active /\ t.live = s.live /\ t.exit = s.exit /\ t.slot = s.slot
           /\ t.acks = s.acks /\ t.permit = s.permit /\ t.hand.left = s.hand.left /\ t.hand.repairs = s.hand.repairs
           /\ t.hand.key = FALSE /\ Len(t.queue) = Len(s.queue) /\ (t.queue = <<>> <=> s.queue = <<>>)
  <1>1. s.queue \in Seq(BOOLEAN) /\ s.hand \in Hands
    BY Zenon DEF Tasks
  <1>2. PICK q : q = Stale(s.queue)
    OBVIOUS
  <1>3. q \in Seq(BOOLEAN) /\ Len(q) = Len(s.queue) /\ (q = <<>> <=> s.queue = <<>>)
    <2>1. PICK B, no : B = BOOLEAN /\ no = FALSE
      OBVIOUS
    <2>2. no \in B /\ s.queue \in Seq(B)
      BY <1>1, <2>1
    <2>3. Filled(s.queue, no) \in Seq(B) /\ Len(Filled(s.queue, no)) = Len(s.queue)
      BY <2>2, AllAlike, Zenon
    <2>4. q = Filled(s.queue, no)
      BY <1>2, <2>1, Zenon DEF Stale, Filled
    <2>5. q \in Seq(B) /\ Len(q) = Len(s.queue)
      BY <2>3, <2>4, Zenon
    <2> QED
      BY <1>1, <2>1, <2>5
  <1>4. PICK hand : hand = [s.hand EXCEPT !.key = FALSE]
    OBVIOUS
  <1>5. hand \in Hands /\ hand.left = s.hand.left /\ hand.repairs = s.hand.repairs /\ hand.key = FALSE
    BY <1>1, <1>4, Zenon DEF Hands
  <1>6. t = [s EXCEPT !.queue = q, !.hand = hand]
    BY <1>2, <1>4 DEF StaleTask
  <1> QED
    BY <1>3, <1>5, <1>6, Zenon DEF Tasks

LEMMA StaleOK ==
    ASSUME NEW s \in Tasks, TaskOK(s), NEW t, t = StaleTask(s)
    PROVE  TaskOK(t)
  <1>1. /\ t \in Tasks /\ t.pc = s.pc /\ t.active = s.active /\ t.live = s.live /\ t.exit = s.exit /\ t.slot = s.slot
        /\ t.acks = s.acks /\ t.permit = s.permit /\ t.hand.left = s.hand.left /\ t.hand.repairs = s.hand.repairs
        /\ t.hand.key = FALSE /\ Len(t.queue) = Len(s.queue) /\ (t.queue = <<>> <=> s.queue = <<>>)
    BY StaleSame, Zenon
  <1>2. Running(t) <=> Running(s)
    BY <1>1, Zenon DEF Running
  <1> QED
    BY <1>1, <1>2, Zenon DEF TaskOK

LEMMA RefuseStep ==
    ASSUME VideoInv, EnqueueRefuse
    PROVE  VideoInv'
  <1>1. PICK s \in Tasks : s = cur /\ s = task[handle] /\ TaskOK(s) /\ TaskFits(handle, s) /\ CurFits(s)
    BY CurFacts, Zenon
  <1>2. /\ unit.pc = "enqueue" /\ unit' = [unit EXCEPT !.pc = "rtp"]
        /\ UNCHANGED <<mode, generation, handle, dropped, idrAsked, rtp, rtpBroken, reported, silentUnits, ghost>>
    BY Zenon DEF EnqueueRefuse
  <1>3. ~dropped /\ unit.pc # "setup" /\ unit \in Units /\ unit.pc \in {"enqueue", "locked", "notify"}
    BY <1>2, CallbackFacts
  <1>4. unit' \in Units /\ unit'.pc = "rtp" /\ unit'.key = unit.key
    <2>1. "rtp" \in UnitPlaces
      BY DEF UnitPlaces
    <2>2. unit \in Units
      BY <1>3
    <2>3. unit' = [unit EXCEPT !.pc = "rtp"]
      BY <1>2
    <2> QED
      BY <2>1, <2>2, <2>3, MovedTo, Zenon
  <1>5. unit'.pc # "setup" /\ unit'.pc \in {"enqueue", "terminal", "locked", "notify", "rtp"}
        /\ unit'.pc \notin {"enqueue", "locked", "notify"} /\ unit.pc # "notify" /\ unit.pc # "terminal"
    BY <1>2, <1>4
  <1>6. UnitInv'
    BY <1>2, <1>3, <1>4, <1>5, UnitMoves, Zenon
  <1>7. CASE ~IsActive(s) /\ UNCHANGED <<needsIdr, task, fecBroken>>
    <2>1. RtpInv'
      BY <1>2, <1>4, <1>7, RtpStays, Zenon
    <2>2. Flags'
      BY <1>2, <1>7, UnitFacts, Zenon DEF Flags
    <2>3. ~s.active
      BY <1>1, <1>7, ActiveLives, Zenon
    <2>4. CurFits(s)'
      BY <1>1, <1>2, <1>5, <1>7, <2>3, Zenon DEF CurFits
    <2>5. CurFits(task[handle])'
      BY <1>1, <1>2, <1>7, <2>4, Zenon
    <2> QED
      BY <1>2, <1>5, <1>6, <1>7, <2>1, <2>2, <2>5, CurrentStays, Zenon
  <1>8. CASE needsIdr' = TRUE /\ Becomes(handle, StaleTask(s)) /\ LoseFrame(handle)
    <2>1. PICK t : t = StaleTask(s)
      OBVIOUS
    <2>2. /\ t \in Tasks /\ t.pc = s.pc /\ t.active = s.active /\ t.live = s.live /\ t.exit = s.exit /\ t.slot = s.slot
          /\ t.permit = s.permit /\ (t.queue = <<>> <=> s.queue = <<>>)
      BY <2>1, StaleSame, Zenon
    <2>3. TaskOK(t)
      BY <1>1, <2>1, StaleOK, Zenon
    <2>4. RtpInv'
      BY <1>2, <1>8, RtpStays, Zenon
    <2>5. Flags'
      BY <1>2, <1>8, UnitFacts, Zenon DEF Flags, LoseFrame
    <2>6. CurFits(t)'
      <3>1. ~(Running(t) /\ ~t.active)
        BY <1>1, <1>3, <2>2, Zenon DEF CurFits, Running
      <3>2. Heals(t)'
        BY <1>8, Zenon DEF Heals
      <3> QED
        BY <1>1, <1>2, <1>5, <2>2, <3>1, <3>2, Zenon DEF CurFits
    <2>7. Becomes(handle, t) /\ t.exit = cur.exit /\ t.pc = cur.pc
      BY <1>1, <1>8, <2>1, <2>2, Zenon
    <2>8. t.pc = "select" /\ t.queue # <<>> => t.permit
      BY <1>1, <1>5, <2>2, Zenon DEF TaskFits
    <2>9. /\ reported' \in Seq(Nat) /\ Len(reported') = handle
          /\ \A h \in 1 .. handle : h # handle => reported'[h] = reported[h]
      BY <1>2, Zenon DEF VideoInv, Lists
    <2>10. reported'[handle] = Code(t)
      BY <1>1, <1>2, <2>2, Zenon DEF TaskFits, Code
    <2> QED
      BY <1>2, <1>6, <2>2, <2>3, <2>4, <2>5, <2>6, <2>7, <2>8, <2>9, <2>10, CurrentChanges, Zenon
  <1>9. needsIdr /\ UNCHANGED needsIdr => needsIdr' = TRUE
    BY UnitFacts, Zenon DEF Flags
  <1> QED
    BY <1>1, <1>7, <1>8, <1>9, Zenon DEF EnqueueRefuse

LEMMA AdmitStep ==
    ASSUME VideoInv, EnqueueAdmit
    PROVE  VideoInv'
  <1>1. PICK s \in Tasks : s = cur /\ s = task[handle] /\ TaskOK(s) /\ TaskFits(handle, s) /\ CurFits(s)
    BY CurFacts, Zenon
  <1>2. /\ unit.pc = "enqueue" /\ unit' = [unit EXCEPT !.pc = "locked"] /\ IsActive(s)
        /\ UNCHANGED <<mode, generation, handle, task, dropped, needsIdr, idrAsked, rtp>>
        /\ UNCHANGED <<fecBroken, rtpBroken, reported, silentUnits, ghost>>
    BY <1>1, Zenon DEF EnqueueAdmit, flags, history
  <1>3. ~dropped /\ unit.pc # "setup" /\ unit \in Units
    BY <1>2, CallbackFacts
  <1>4. unit' \in Units /\ unit'.pc = "locked" /\ unit'.key = unit.key
    <2>1. "locked" \in UnitPlaces
      BY DEF UnitPlaces
    <2>2. unit \in Units
      BY <1>3
    <2>3. unit' = [unit EXCEPT !.pc = "locked"]
      BY <1>2
    <2> QED
      BY <2>1, <2>2, <2>3, MovedTo, Zenon
  <1>5. unit'.pc # "setup" /\ unit'.pc \in {"enqueue", "terminal", "locked", "notify", "rtp"}
        /\ unit'.pc \in {"enqueue", "locked"} /\ unit.pc # "notify" /\ unit.pc # "terminal"
    BY <1>2, <1>4
  <1>6. UnitInv'
    BY <1>2, <1>3, <1>4, <1>5, UnitMoves, Zenon
  <1>7. RtpInv' /\ Flags'
    <2>1. RtpInv'
      BY <1>2, <1>4, RtpStays, Zenon
    <2>2. Flags'
      BY <1>2, UnitFacts, Zenon DEF Flags
    <2> QED
      BY <2>1, <2>2
  <1>8. CurFits(s)'
    <2>1. Heals(s) => Heals(s)'
      BY <1>2, <1>4, <1>5, Zenon DEF Heals
    <2> QED
      BY <1>1, <1>2, <1>5, <2>1, Zenon DEF CurFits, IsActive
  <1>9. CurFits(task[handle])'
    BY <1>1, <1>2, <1>8, Zenon
  <1> QED
    BY <1>2, <1>5, <1>6, <1>7, <1>9, CurrentStays, Zenon

LEMMA NotifyStep ==
    ASSUME VideoInv, EnqueueNotify
    PROVE  VideoInv'
  <1>1. PICK s \in Tasks : s = cur /\ s = task[handle] /\ TaskOK(s) /\ TaskFits(handle, s) /\ CurFits(s)
    BY CurFacts, Zenon
  <1>2. /\ unit.pc = "notify" /\ unit' = [unit EXCEPT !.pc = "rtp"] /\ Becomes(handle, [s EXCEPT !.permit = Running(s)])
        /\ UNCHANGED <<mode, generation, handle, dropped, needsIdr, idrAsked, rtp>>
        /\ UNCHANGED <<fecBroken, rtpBroken, reported, silentUnits, ghost>>
    BY <1>1, Zenon DEF EnqueueNotify, flags, history
  <1>3. ~dropped /\ unit.pc # "setup" /\ unit \in Units /\ unit.pc \notin {"enqueue", "locked"} /\ unit.pc \in {"enqueue", "locked", "notify"}
    BY <1>2, CallbackFacts
  <1>4. unit' \in Units /\ unit'.pc = "rtp" /\ unit'.key = unit.key
    <2>1. "rtp" \in UnitPlaces
      BY DEF UnitPlaces
    <2>2. unit \in Units
      BY <1>3
    <2>3. unit' = [unit EXCEPT !.pc = "rtp"]
      BY <1>2
    <2> QED
      BY <2>1, <2>2, <2>3, MovedTo, Zenon
  <1>5. unit'.pc # "setup" /\ unit'.pc \in {"enqueue", "terminal", "locked", "notify", "rtp"}
        /\ unit'.pc \notin {"enqueue", "locked", "notify"} /\ unit.pc # "terminal"
    BY <1>2, <1>4
  <1>6. UnitInv' /\ RtpInv' /\ Flags'
    <2>1. UnitInv'
      BY <1>2, <1>3, <1>4, <1>5, UnitMoves, Zenon
    <2>2. RtpInv'
      BY <1>2, <1>4, RtpStays, Zenon
    <2>3. Flags'
      BY <1>2, UnitFacts, Zenon DEF Flags
    <2> QED
      BY <2>1, <2>2, <2>3
  <1>7. PICK on \in BOOLEAN : on = Running(s)
    <2>1. Running(s) \in BOOLEAN
      BY SMT DEF Running
    <2> QED
      BY <2>1, Zenon
  <1>8. PICK t : t = [s EXCEPT !.permit = on]
    OBVIOUS
  <1>9. /\ t \in Tasks /\ t.pc = s.pc /\ t.active = s.active /\ t.live = s.live /\ t.exit = s.exit /\ t.slot = s.slot
        /\ t.permit = on /\ t.queue = s.queue /\ t.acks = s.acks /\ t.hand = s.hand
    BY <1>8, Zenon DEF Tasks
  <1>10. ~(Running(s) /\ ~s.active) /\ (Running(t) <=> Running(s))
    BY <1>1, <1>3, <1>9, Zenon DEF CurFits, Running
  <1>11. TaskOK(t)
    BY <1>1, <1>9, <1>10, Zenon DEF TaskOK
  <1>12. CurFits(t)'
    <2>1. Heals(s) => Heals(t)'
      BY <1>2, <1>3, <1>9, Zenon DEF Heals
    <2> QED
      BY <1>1, <1>2, <1>5, <1>9, <1>10, <2>1, Zenon DEF CurFits
  <1>13. t.exit = cur.exit /\ t.pc = cur.pc /\ Becomes(handle, t)
    BY <1>1, <1>2, <1>7, <1>8, <1>9, Zenon
  <1>14. t.pc = "select" => t.permit
    BY <1>7, <1>9 DEF Running
  <1>15. /\ reported' \in Seq(Nat) /\ Len(reported') = handle
         /\ \A h \in 1 .. handle : h # handle => reported'[h] = reported[h]
    BY <1>2, Zenon DEF VideoInv, Lists
  <1>16. reported'[handle] = Code(t)
    BY <1>1, <1>2, <1>9, Zenon DEF TaskFits, Code
  <1> QED
    BY <1>2, <1>6, <1>9, <1>11, <1>12, <1>13, <1>14, <1>15, <1>16, CurrentChanges, Zenon

LEMMA RestOf ==
    ASSUME NEW S, NEW list \in Seq(S), NEW n \in 0 .. Len(list)
    PROVE  /\ SubSeq(list, n + 1, Len(list)) \in Seq(S)
           /\ Len(SubSeq(list, n + 1, Len(list))) = Len(list) - n
           /\ n = 0 => SubSeq(list, n + 1, Len(list)) = list
  OBVIOUS

LEMMA Appended ==
    ASSUME NEW S, NEW list \in Seq(S), NEW e \in S
    PROVE  Append(list, e) \in Seq(S) /\ Len(Append(list, e)) = Len(list) + 1
  OBVIOUS

LEMMA OneFrame == <<TRUE>> \in Seq(BOOLEAN) /\ Len(<<TRUE>>) = 1 /\ HasKey(<<TRUE>>)
  <1>1. PICK B, yes : B = BOOLEAN /\ yes = TRUE
    OBVIOUS
  <1>2. <<yes>> \in Seq(B) /\ Len(<<yes>>) = 1 /\ 1 \in 1 .. Len(<<yes>>) /\ <<yes>>[1] = yes
    BY <1>1
  <1>3. \E i \in 1 .. Len(<<yes>>) : <<yes>>[i] = TRUE
    BY <1>1, <1>2, Zenon
  <1> QED
    BY <1>1, <1>2, <1>3, Zenon DEF HasKey

Lightened(s, kept, lost) == IF lost THEN StaleTask([s EXCEPT !.queue = kept]) ELSE [s EXCEPT !.queue = kept]

Lighter(s, kept, lost, base) ==
    /\ base \in Tasks /\ base.pc = s.pc /\ base.active = s.active /\ base.live = s.live /\ base.exit = s.exit
    /\ base.slot = s.slot /\ base.acks = s.acks /\ base.permit = s.permit
    /\ base.hand.left = s.hand.left /\ base.hand.repairs = s.hand.repairs /\ (base.hand.key => s.hand.key)
    /\ Len(base.queue) = Len(kept) /\ Len(kept) \in Nat /\ Len(kept) <= Len(s.queue)
    /\ ~lost => base.queue = s.queue /\ base.hand = s.hand

\* What the queue looks like under its lock once the expired frames are gone.
LEMMA ExpiredGone ==
    ASSUME NEW s \in Tasks, NEW n \in 0 .. Len(s.queue), NEW kept, kept = SubSeq(s.queue, n + 1, Len(s.queue)),
           NEW lost \in BOOLEAN, n > 0 => lost,
           NEW base, base = Lightened(s, kept, lost)
    PROVE  Lighter(s, kept, lost, base)
  <1>1. s.queue \in Seq(BOOLEAN)
    BY Zenon DEF Tasks
  <1>2. kept \in Seq(BOOLEAN) /\ Len(kept) = Len(s.queue) - n /\ (n = 0 => kept = s.queue)
    BY <1>1, RestOf, Zenon
  <1>3. Len(s.queue) \in Nat
    BY <1>1
  <1>4. Len(kept) \in Nat /\ Len(kept) <= Len(s.queue)
    BY <1>2, <1>3
  <1>5. ~lost => kept = s.queue
    <2>1. ~(n > 0) => n = 0
      BY <1>3
    <2> QED
      BY <1>2, <2>1, Zenon
  <1>6. PICK b : b = [s EXCEPT !.queue = kept]
    OBVIOUS
  <1>7. /\ b \in Tasks /\ b.pc = s.pc /\ b.active = s.active /\ b.live = s.live /\ b.exit = s.exit
        /\ b.slot = s.slot /\ b.acks = s.acks /\ b.permit = s.permit /\ b.hand = s.hand /\ b.queue = kept
    BY <1>2, <1>6, Zenon DEF Tasks
  <1>8. CASE lost
    <2>1. base = StaleTask(b)
      BY <1>6, <1>8, Zenon DEF Lightened
    <2>2. /\ base \in Tasks /\ base.pc = b.pc /\ base.active = b.active /\ base.live = b.live /\ base.exit = b.exit
          /\ base.slot = b.slot /\ base.acks = b.acks /\ base.permit = b.permit /\ base.hand.left = b.hand.left
          /\ base.hand.repairs = b.hand.repairs /\ base.hand.key = FALSE /\ Len(base.queue) = Len(b.queue)
      <3>1. b \in Tasks
        BY <1>7
      <3> QED
        BY <2>1, <3>1, StaleSame, Zenon
    <2> QED
      BY <1>4, <1>7, <1>8, <2>2, Zenon DEF Lighter
  <1>9. CASE ~lost
    <2>1. base = b
      BY <1>6, <1>9, Zenon DEF Lightened
    <2> QED
      BY <1>4, <1>5, <1>7, <1>9, <2>1, Zenon DEF Lighter
  <1> QED
    BY <1>8, <1>9, Zenon

\* The frame is refused at capacity, or queued.
LEMMA LockedStep ==
    ASSUME VideoInv, EnqueueLocked
    PROVE  VideoInv'
  <1>1. PICK s \in Tasks : s = cur /\ s = task[handle] /\ TaskOK(s) /\ TaskFits(handle, s) /\ CurFits(s)
    BY CurFacts, Zenon
  <1>2. /\ unit.pc = "locked"
        /\ UNCHANGED <<mode, generation, handle, dropped, idrAsked, rtp, rtpBroken, reported, silentUnits, ghost>>
    BY Zenon DEF EnqueueLocked
  <1>3. ~dropped /\ unit.pc # "setup" /\ unit \in Units /\ unit.pc # "notify" /\ unit.pc # "terminal" /\ unit.key \in BOOLEAN
        /\ unit.pc \in {"enqueue", "locked", "notify"}
    BY <1>2, CallbackFacts, UnitFacts
  <1>4. CASE ~IsActive(s)
    <2>1. unit' = [unit EXCEPT !.pc = "rtp"] /\ UNCHANGED <<task, needsIdr, fecBroken>>
      BY <1>1, <1>4, Zenon DEF EnqueueLocked
    <2>2. unit' \in Units /\ unit'.pc = "rtp" /\ unit'.key = unit.key
      <3>1. "rtp" \in UnitPlaces
        BY DEF UnitPlaces
      <3>2. unit \in Units
        BY <1>3
      <3> QED
        BY <2>1, <3>1, <3>2, MovedTo, Zenon
    <2>3. unit'.pc # "setup" /\ unit'.pc \in {"enqueue", "terminal", "locked", "notify", "rtp"}
          /\ unit'.pc \notin {"enqueue", "locked", "notify"}
      BY <2>2
    <2>4. UnitInv'
      BY <1>2, <1>3, <2>2, <2>3, UnitMoves, Zenon
    <2>5. RtpInv'
      BY <1>2, <2>1, <2>2, RtpStays, Zenon
    <2>6. Flags'
      BY <1>2, <2>1, UnitFacts, Zenon DEF Flags
    <2>7. ~s.active
      BY <1>1, <1>4, ActiveLives, Zenon
    <2>8. CurFits(s)'
      BY <1>1, <1>2, <1>3, <2>1, <2>3, <2>7, Zenon DEF CurFits
    <2>9. CurFits(task[handle])'
      BY <1>1, <1>2, <2>1, <2>8, Zenon
    <2> QED
      BY <1>2, <1>3, <2>1, <2>4, <2>5, <2>6, <2>9, CurrentStays, Zenon
  <1>5. CASE IsActive(s)
    <2>1. s.active /\ s.live /\ (Running(s) \/ s.pc = "deactivate")
      BY <1>1, <1>5, ActiveLives, Zenon DEF IsActive
    <2>0. s = cur
      BY <1>1
    <2> DEFINE Outcome(n) ==
            LET kept == SubSeq(cur.queue, n + 1, Len(cur.queue))
                full == ~unit.key /\ Len(kept) >= QueueCapacity
                lost == n > 0 \/ full
                base == IF lost THEN StaleTask([cur EXCEPT !.queue = kept]) ELSE [cur EXCEPT !.queue = kept]
            IN  /\ needsIdr' = (needsIdr \/ lost)
                /\ fecBroken' = (fecBroken \/ lost)
                /\ Becomes(handle, IF full THEN base
                     ELSE [base EXCEPT !.queue = IF unit.key THEN <<TRUE>> ELSE Append(@, FALSE)])
                /\ unit' = IF full THEN [unit EXCEPT !.pc = "rtp"]
                                   ELSE [unit EXCEPT !.pc = "notify", !.carried = TRUE]
    <2>2. PICK n \in 0 .. Len(s.queue) : Outcome(n)
      <3>1. \E n \in IF "late" \in mode THEN 0 .. Len(cur.queue) ELSE {0} : Outcome(n)
        <4>1. IsActive(cur)
          BY <1>5, <2>0, Zenon
        <4> QED
          BY <4>1, Zenon DEF EnqueueLocked
      <3>2. (IF "late" \in mode THEN 0 .. Len(s.queue) ELSE {0}) \subseteq 0 .. Len(s.queue)
        <4>1. s.queue \in Seq(BOOLEAN)
          BY Zenon DEF Tasks
        <4> QED
          BY <4>1
      <3> HIDE DEF Outcome
      <3> QED
        BY <2>0, <3>1, <3>2, Zenon
    <2>3. PICK kept : kept = SubSeq(s.queue, n + 1, Len(s.queue))
      OBVIOUS
    <2>4. PICK full \in BOOLEAN : full = (~unit.key /\ Len(kept) >= QueueCapacity)
      OBVIOUS
    <2>5. PICK lost \in BOOLEAN : lost = (n > 0 \/ full)
      OBVIOUS
    <2>6. PICK base : base = Lightened(s, kept, lost)
      OBVIOUS
    <2>7. PICK q : q = IF unit.key THEN <<TRUE>> ELSE Append(base.queue, FALSE)
      OBVIOUS
    <2>8. PICK t : t = IF full THEN base ELSE [base EXCEPT !.queue = q]
      OBVIOUS
    <2>9. /\ needsIdr' = (needsIdr \/ lost) /\ fecBroken' = (fecBroken \/ lost) /\ Becomes(handle, t)
          /\ unit' = IF full THEN [unit EXCEPT !.pc = "rtp"] ELSE [unit EXCEPT !.pc = "notify", !.carried = TRUE]
      BY <2>0, <2>2, <2>3, <2>4, <2>5, <2>6, <2>7, <2>8, Zenon DEF Lightened
    <2>10. (n > 0 => lost) /\ lost \in BOOLEAN /\ n \in 0 .. Len(s.queue) /\ s \in Tasks
      BY <1>1, <2>2, <2>5, Zenon
    <2>11. /\ base \in Tasks /\ base.pc = s.pc /\ base.active = s.active /\ base.live = s.live /\ base.exit = s.exit
           /\ base.slot = s.slot /\ base.acks = s.acks /\ base.permit = s.permit
           /\ base.hand.left = s.hand.left /\ base.hand.repairs = s.hand.repairs /\ (base.hand.key => s.hand.key)
           /\ Len(base.queue) = Len(kept) /\ Len(kept) \in Nat /\ Len(kept) <= Len(s.queue)
           /\ ~lost => base.queue = s.queue /\ base.hand = s.hand
      <3>1. Lighter(s, kept, lost, base)
        BY <2>3, <2>6, <2>10, ExpiredGone, Zenon
      <3> QED
        BY <3>1, Zenon DEF Lighter
    <2>12. base.queue \in Seq(BOOLEAN) /\ s.queue \in Seq(BOOLEAN) /\ Len(s.queue) <= QueueCapacity
      BY <1>1, <2>11, Zenon DEF Tasks, TaskOK
    <2>13. q \in Seq(BOOLEAN) /\ (~full => Len(q) <= QueueCapacity)
      <3>1. CASE unit.key
        <4>1. q = <<TRUE>>
          BY <2>7, <3>1, Zenon
        <4>2. q \in Seq(BOOLEAN) /\ Len(q) = 1
          BY <4>1, OneFrame, Zenon
        <4> QED
          BY <4>2, SizeAssumption
      <3>2. CASE ~unit.key
        <4>1. q = Append(base.queue, FALSE)
          BY <2>7, <3>2, Zenon
        <4>2. q \in Seq(BOOLEAN) /\ Len(q) = Len(base.queue) + 1
          <5>1. FALSE \in BOOLEAN
            OBVIOUS
          <5> QED
            BY <2>12, <4>1, <5>1, Appended, Zenon
        <4>3. ~full => ~(Len(kept) >= QueueCapacity)
          BY <2>4, <3>2, Zenon
        <4>4. Len(q) = Len(kept) + 1 /\ Len(kept) \in Nat
          BY <2>11, <4>2, Zenon
        <4> QED
          BY <4>2, <4>3, <4>4, SizeAssumption
      <3> QED
        BY <3>1, <3>2
    <2>14. /\ t \in Tasks /\ t.pc = s.pc /\ t.active = s.active /\ t.live = s.live /\ t.exit = s.exit
           /\ t.slot = s.slot /\ t.acks = s.acks /\ t.permit = s.permit /\ t.hand = base.hand
           /\ t.queue = IF full THEN base.queue ELSE q
      <3>1. CASE full
        BY <2>8, <2>11, <3>1, Zenon
      <3>2. CASE ~full
        <4>1. t = [base EXCEPT !.queue = q]
          BY <2>8, <3>2, Zenon
        <4>2. /\ t \in Tasks /\ t.pc = base.pc /\ t.active = base.active /\ t.live = base.live /\ t.exit = base.exit
              /\ t.slot = base.slot /\ t.acks = base.acks /\ t.permit = base.permit /\ t.hand = base.hand /\ t.queue = q
          BY <2>11, <2>13, <4>1, Zenon DEF Tasks
        <4> QED
          BY <2>11, <3>2, <4>2, Zenon
      <3> QED
        BY <3>1, <3>2
    <2>15. Len(t.queue) <= QueueCapacity
      <3>1. Len(s.queue) \in Nat
        BY <2>12
      <3>2. Len(kept) <= QueueCapacity
        BY <2>11, <2>12, <3>1, SizeAssumption
      <3>3. Len(base.queue) <= QueueCapacity
        BY <2>11, <3>2, Zenon
      <3> QED
        BY <2>13, <2>14, <3>3, Zenon
    <2>16. TaskOK(t)
      <3>1. (Running(t) <=> Running(s)) /\ s.pc # "gone"
        BY <2>1, <2>14 DEF Running
      <3>2. /\ t.hand.left = s.hand.left /\ t.hand.repairs = s.hand.repairs /\ (t.hand.key => s.hand.key)
        BY <2>11, <2>14, Zenon
      <3> QED
        BY <1>1, <2>1, <2>14, <2>15, <3>1, <3>2, Zenon DEF TaskOK
    <2>17. unit' \in Units /\ unit'.key = unit.key /\ unit'.pc = (IF full THEN "rtp" ELSE "notify")
      <3>1. "rtp" \in UnitPlaces /\ "notify" \in UnitPlaces
        BY DEF UnitPlaces
      <3>2. unit \in Units
        BY <1>3
      <3>3. CASE full
        <4>1. unit' = [unit EXCEPT !.pc = "rtp"]
          BY <2>9, <3>3, Zenon
        <4>2. unit' \in Units /\ unit'.pc = "rtp" /\ unit'.key = unit.key
          BY <3>1, <3>2, <4>1, MovedTo, Zenon
        <4> QED
          BY <3>3, <4>2, Zenon
      <3>4. CASE ~full
        BY <2>9, <3>1, <3>2, <3>4, Zenon DEF Units
      <3> QED
        BY <3>3, <3>4
    <2>18. unit'.pc # "setup" /\ unit'.pc \in {"enqueue", "terminal", "locked", "notify", "rtp"} /\ (~full => unit'.pc = "notify")
      BY <2>17
    <2>19. UnitInv'
      BY <1>2, <1>3, <2>17, <2>18, UnitMoves, Zenon
    <2>20. RtpInv'
      BY <1>2, <2>9, <2>17, RtpStays, Zenon
    <2>21. Flags'
      BY <1>2, <2>5, <2>9, UnitFacts, Zenon DEF Flags
    <2>22. CurFits(t)'
      <3>1. ~(silentUnits > 0)
        BY <1>1, <2>1, Zenon DEF CurFits
      <3>2. lost => Heals(t)'
        BY <2>9, Zenon DEF Heals
      <3>3. ASSUME ~lost, Heals(s) PROVE Heals(t)'
        <4>1. ~full
          BY <2>5, <3>3, Zenon
        <4>2. t.queue = q /\ t.hand = s.hand /\ base.queue = s.queue
          BY <2>11, <2>14, <3>3, <4>1, Zenon
        <4>3. CASE unit.key
          <5>1. HasKey(t.queue)
            BY <2>7, <4>2, <4>3, OneFrame, Zenon
          <5> QED
            BY <5>1, Zenon DEF Heals
        <4>4. CASE ~unit.key
          <5>1. HasKey(s.queue) => HasKey(t.queue)
            <6>1. t.queue = Append(s.queue, FALSE)
              BY <2>7, <4>2, <4>4, Zenon
            <6>2. FALSE \in BOOLEAN
              OBVIOUS
            <6> QED
              BY <2>12, <6>1, <6>2, KeyQueued, Zenon
          <5> QED
            BY <1>2, <2>9, <2>14, <3>3, <4>2, <4>4, <5>1, Zenon DEF Heals
        <4> QED
          BY <4>3, <4>4
      <3>4. fecBroken' /\ ~lost /\ ~dropped => Heals(s)
        BY <1>1, <2>1, <2>9, Zenon DEF CurFits
      <3> QED
        BY <1>2, <2>1, <2>14, <3>1, <3>2, <3>3, <3>4, Zenon DEF CurFits
    <2>23. t.pc = "select" /\ t.queue # <<>> => t.permit \/ unit'.pc = "notify"
      <3>1. SUFFICES ASSUME t.pc = "select", full PROVE t.permit
        BY <2>18, Zenon
      <3>2. Len(kept) >= QueueCapacity
        BY <2>4, <3>1, Zenon
      <3>3. s.queue # <<>>
        <4>1. Len(s.queue) \in Nat
          BY <2>12
        <4>2. Len(s.queue) > 0
          BY <2>11, <3>2, <4>1, SizeAssumption
        <4> QED
          BY <4>2
      <3> QED
        BY <1>1, <1>3, <2>14, <3>1, <3>3, Zenon DEF TaskFits
    <2>24. /\ reported' \in Seq(Nat) /\ Len(reported') = handle
           /\ \A h \in 1 .. handle : h # handle => reported'[h] = reported[h]
      BY <1>2, Zenon DEF VideoInv, Lists
    <2>25. reported'[handle] = Code(t)
      BY <1>1, <1>2, <2>14, Zenon DEF TaskFits, Code
    <2>26. t.exit = cur.exit /\ t.pc = cur.pc
      BY <1>1, <2>14, Zenon
    <2> QED
      BY <1>2, <2>9, <2>14, <2>16, <2>19, <2>20, <2>21, <2>22, <2>23, <2>24, <2>25, <2>26, CurrentChanges, Zenon
  <1> QED
    BY <1>4, <1>5

LEMMA IdleUnit == Waiting \in Units /\ Waiting.pc = "idle" /\ Waiting.key = FALSE
  <1>1. "idle" \in UnitPlaces
    BY DEF UnitPlaces
  <1> QED
    BY <1>1, Zenon DEF Waiting, Units

\* What becomes of the RTP queue when a frame is offered to it.
LEMMA OfferedFrame ==
    ASSUME VideoInv, ~SkipRtpTrack, AfterSendSamples(EnqueueFrame(rtp, unit.key)), UNCHANGED <<mode, dropped, idrAsked>>,
           NEW u, unit' = u
    PROVE  RtpInv' /\ rtpBroken' \in BOOLEAN /\ needsIdr' \in BOOLEAN /\ (needsIdr => needsIdr')
  <1>1. /\ rtp \in Seq(BOOLEAN) /\ (Len(rtp) <= ChannelQueueSize \/ Len(rtp) = 1)
        /\ (rtpBroken /\ ~dropped /\ ~fecOnly => needsIdr \/ idrAsked \/ unit.key \/ HasKey(rtp))
        /\ rtpBroken \in BOOLEAN /\ needsIdr \in BOOLEAN /\ unit.key \in BOOLEAN
    BY UnitFacts, Zenon DEF RtpInv, Flags
  <1>2. fecOnly' = fecOnly /\ fecOnly \in BOOLEAN
    BY SMT DEF fecOnly
  <1>3. CASE unit.key
    <2>1. PICK yes \in BOOLEAN : yes = ~fecOnly
      BY <1>2
    <2>2. rtp' = <<yes>> /\ UNCHANGED <<needsIdr, rtpBroken>>
      BY <1>3, <2>1 DEF AfterSendSamples, EnqueueFrame
    <2>3. rtp' \in Seq(BOOLEAN) /\ Len(rtp') = 1
      BY <2>1, <2>2
    <2>4. ~fecOnly => HasKey(rtp')
      <3>1. ~fecOnly => yes = TRUE
        BY <2>1, Zenon
      <3> QED
        BY <2>2, <3>1, OneFrame, Zenon
    <2>5. ~fecOnly' => HasKey(rtp)'
      BY <1>2, <2>4, Zenon DEF HasKey
    <2> QED
      BY <1>1, <2>2, <2>3, <2>5, Zenon DEF RtpInv
  <1>4. CASE ~unit.key /\ Len(rtp) < ChannelQueueSize
    <2>1. rtp' = Append(rtp, FALSE) /\ UNCHANGED <<needsIdr, rtpBroken>>
      BY <1>4 DEF AfterSendSamples, EnqueueFrame
    <2>2. FALSE \in BOOLEAN
      OBVIOUS
    <2>3. rtp' \in Seq(BOOLEAN) /\ Len(rtp') = Len(rtp) + 1
      BY <1>1, <2>1, <2>2, Appended, Zenon
    <2>4. Len(rtp') <= ChannelQueueSize
      <3>1. Len(rtp) \in Nat
        BY <1>1
      <3> QED
        BY <1>4, <2>3, <3>1, SizeAssumption
    <2>5. HasKey(rtp) => HasKey(rtp)'
      <3>1. HasKey(rtp) => HasKey(Append(rtp, FALSE))
        BY <1>1, <2>2, KeyQueued, Zenon
      <3> QED
        BY <2>1, <3>1, Zenon DEF HasKey
    <2> QED
      BY <1>1, <1>2, <1>4, <2>1, <2>3, <2>4, <2>5, Zenon DEF RtpInv
  <1>5. CASE ~unit.key /\ ~(Len(rtp) < ChannelQueueSize)
    <2>1. rtp' = <<>> /\ rtpBroken' = ~fecOnly /\ needsIdr' = TRUE
      BY <1>5 DEF AfterSendSamples, EnqueueFrame
    <2>2. rtp' \in Seq(BOOLEAN) /\ Len(rtp') <= ChannelQueueSize
      BY <2>1, SizeAssumption
    <2> QED
      BY <1>2, <2>1, <2>2, Zenon DEF RtpInv
  <1> QED
    BY <1>3, <1>4, <1>5

LEMMA SingleFrameStep ==
    ASSUME VideoInv, SendSingleFrame
    PROVE  VideoInv'
  <1>1. PICK s \in Tasks : s = task[handle] /\ CurFits(s)
    BY CurFacts, Zenon
  <1>2. /\ unit.pc = "rtp" /\ unit' = [Waiting EXCEPT !.pc = "idr"]
        /\ UNCHANGED <<mode, generation, handle, task, dropped, idrAsked, fecBroken, reported, silentUnits, ghost>>
    BY Zenon DEF SendSingleFrame
  <1>3. ~dropped /\ unit.pc # "setup" /\ unit.pc # "terminal" /\ unit.pc # "notify" /\ unit.pc \notin {"enqueue", "locked"}
    BY <1>2, CallbackFacts
  <1>4. unit' \in Units /\ unit'.pc = "idr" /\ unit'.key = FALSE
    <2>1. "idr" \in UnitPlaces
      BY DEF UnitPlaces
    <2>2. unit' = [pc |-> "idr", key |-> FALSE, carried |-> FALSE]
      BY <1>2 DEF Waiting
    <2> QED
      BY <2>1, <2>2, Zenon DEF Units
  <1>5. unit'.pc # "setup" /\ unit'.pc \notin {"enqueue", "locked", "notify"}
    BY <1>4
  <1>6. UnitInv'
    BY <1>2, <1>3, <1>4, <1>5, UnitMoves, Zenon
  <1>7. RtpInv' /\ rtpBroken' \in BOOLEAN /\ needsIdr' \in BOOLEAN /\ (needsIdr => needsIdr')
    <2>1. CASE SkipRtpTrack
      <3>1. UNCHANGED <<rtp, needsIdr, rtpBroken>>
        BY <2>1, Zenon DEF SendSingleFrame
      <3>2. fecOnly' = fecOnly /\ fecOnly
        BY <1>2, <2>1 DEF fecOnly, SkipRtpTrack
      <3>3. RtpInv'
        BY <3>1, <3>2, UnitFacts, Zenon DEF RtpInv
      <3> QED
        BY <3>1, <3>3, UnitFacts, Zenon DEF Flags
    <2>2. CASE ~SkipRtpTrack
      <3>1. AfterSendSamples(EnqueueFrame(rtp, unit.key))
        BY <2>2, Zenon DEF SendSingleFrame
      <3> QED
        BY <1>2, <2>2, <3>1, OfferedFrame, Zenon
    <2> QED
      BY <2>1, <2>2
  <1>8. Flags'
    BY <1>2, <1>7, UnitFacts, Zenon DEF Flags
  <1>9. CurFits(s)'
    <2>1. Heals(s) => Heals(s)'
      BY <1>2, <1>3, <1>7, Zenon DEF Heals
    <2> QED
      BY <1>1, <1>2, <1>3, <1>5, <2>1, Zenon DEF CurFits
  <1>10. CurFits(task[handle])'
    BY <1>1, <1>2, <1>9, Zenon
  <1> QED
    BY <1>2, <1>3, <1>6, <1>7, <1>8, <1>10, CurrentStays, Zenon

LEMMA ConsumeStep ==
    ASSUME VideoInv, ConsumeNeedsIdr
    PROVE  VideoInv'
  <1>1. PICK s \in Tasks : s = task[handle] /\ CurFits(s)
    BY CurFacts, Zenon
  <1>2. /\ unit.pc = "idr" /\ unit' = Waiting
        /\ UNCHANGED <<mode, generation, handle, task, dropped, rtp, fecBroken, rtpBroken, reported, silentUnits, ghost>>
        /\ (needsIdr' = FALSE /\ idrAsked' = TRUE) \/ UNCHANGED <<needsIdr, idrAsked>>
    BY Zenon DEF ConsumeNeedsIdr, history, flags
  <1>3. ~dropped /\ unit.pc # "setup" /\ unit.pc # "terminal" /\ unit.pc # "notify" /\ unit.pc \notin {"enqueue", "locked"} /\ ~unit.key
    BY <1>2, CallbackFacts, UnitFacts
  <1>4. unit' \in Units /\ unit'.pc = "idle" /\ unit'.key = FALSE
    BY <1>2, IdleUnit, Zenon
  <1>5. unit'.pc # "setup" /\ unit'.pc \notin {"enqueue", "locked", "notify"}
    BY <1>4
  <1>6. UnitInv'
    BY <1>2, <1>3, <1>4, <1>5, UnitMoves, Zenon
  <1>7. needsIdr \/ idrAsked => needsIdr' \/ idrAsked'
    BY <1>2, Zenon
  <1>8. RtpInv'
    BY <1>2, <1>3, <1>7, RtpStays, Zenon
  <1>9. Flags'
    BY <1>2, UnitFacts, Zenon DEF Flags
  <1>10. CurFits(s)'
    <2>1. Heals(s) => Heals(s)'
      BY <1>2, <1>3, <1>7, Zenon DEF Heals
    <2> QED
      BY <1>1, <1>2, <1>3, <1>5, <2>1, Zenon DEF CurFits
  <1>11. CurFits(task[handle])'
    BY <1>1, <1>2, <1>10, Zenon
  <1> QED
    BY <1>2, <1>3, <1>6, <1>8, <1>9, <1>11, CurrentStays, Zenon

LEMMA CallbackStep ==
    ASSUME VideoInv, DecodeThread
    PROVE  VideoInv'
  BY DecodeUnitStep, TerminalStep, RefuseStep, AdmitStep, LockedStep, NotifyStep, SingleFrameStep, ConsumeStep, Zenon
     DEF DecodeThread

\* -------------------------------------------- track, client, end of stream

LEMMA SampleStep ==
    ASSUME VideoInv, SampleSender
    PROVE  VideoInv'
  <1>1. PICK s \in Tasks : s = task[handle] /\ CurFits(s)
    BY CurFacts, Zenon
  <1>2. /\ rtp # <<>> /\ rtp' = Tail(rtp) /\ rtpBroken' = (rtpBroken /\ ~Head(rtp))
        /\ UNCHANGED <<mode, generation, handle, task, dropped, needsIdr, idrAsked, unit, fecBroken, reported, silentUnits, ghost>>
    BY Zenon DEF SampleSender, flags
  <1>3. UnitInv'
    BY <1>2, UnitFacts, Zenon DEF UnitInv
  <1>4. Flags'
    BY <1>2, UnitFacts, Zenon DEF Flags
  <1>5. RtpInv'
    <2>1. /\ rtp \in Seq(BOOLEAN) /\ (Len(rtp) <= ChannelQueueSize \/ Len(rtp) = 1)
          /\ (rtpBroken /\ ~dropped /\ ~fecOnly => needsIdr \/ idrAsked \/ unit.key \/ HasKey(rtp))
      BY UnitFacts, Zenon DEF RtpInv
    <2>2. fecOnly' = fecOnly
      BY <1>2 DEF fecOnly
    <2>3. rtp' \in Seq(BOOLEAN) /\ Len(rtp') = Len(rtp) - 1
      BY <1>2, <2>1, TakenFrom, Zenon
    <2>4. Len(rtp') <= ChannelQueueSize
      <3>1. Len(rtp) \in Nat
        BY <2>1
      <3> QED
        BY <2>1, <2>3, <3>1, SizeAssumption
    <2>5. HasKey(rtp) => Head(rtp) \/ HasKey(rtp)'
      <3>1. HasKey(rtp) => Head(rtp) = TRUE \/ HasKey(Tail(rtp))
        BY <1>2, <2>1, KeyTaken, Zenon
      <3> QED
        BY <1>2, <3>1, Zenon DEF HasKey
    <2> QED
      BY <1>2, <2>1, <2>2, <2>3, <2>4, <2>5, Zenon DEF RtpInv
  <1>6. CurFits(s)'
    BY <1>1, <1>2, Zenon DEF CurFits, Heals
  <1>7. CurFits(task[handle])'
    BY <1>1, <1>2, <1>6, Zenon
  <1> QED
    BY <1>2, <1>3, <1>4, <1>5, <1>7, CurrentStays, Zenon

LEMMA PictureLossStep ==
    ASSUME VideoInv, PictureLossIndication
    PROVE  VideoInv'
  <1>1. PICK s \in Tasks : s = task[handle] /\ CurFits(s)
    BY CurFacts, Zenon
  <1>2. /\ needsIdr' = TRUE
        /\ UNCHANGED <<mode, generation, handle, task, dropped, idrAsked, unit, rtp, fecBroken, rtpBroken, reported, silentUnits, ghost>>
    BY Zenon DEF PictureLossIndication, history
  <1>3. UnitInv'
    BY <1>2, UnitFacts, Zenon DEF UnitInv
  <1>4. Flags'
    BY <1>2, UnitFacts, Zenon DEF Flags
  <1>5. RtpInv'
    BY <1>2, RtpStays, Zenon
  <1>6. CurFits(s)'
    BY <1>1, <1>2, Zenon DEF CurFits, Heals
  <1>7. CurFits(task[handle])'
    BY <1>1, <1>2, <1>6, Zenon
  <1> QED
    BY <1>2, <1>3, <1>4, <1>5, <1>7, CurrentStays, Zenon

LEMMA DropStep ==
    ASSUME VideoInv, DropStream
    PROVE  VideoInv'
  <1>1. PICK s \in Tasks : s = task[handle] /\ CurFits(s)
    BY CurFacts, Zenon
  <1>2. /\ unit.pc = "idle" /\ dropped' = TRUE
        /\ UNCHANGED <<mode, generation, handle, task, needsIdr, idrAsked, unit, rtp, fecBroken, rtpBroken, reported, silentUnits, ghost>>
    BY Zenon DEF DropStream, history, flags
  <1>3. UnitInv'
    BY <1>2, UnitFacts, Zenon DEF UnitInv
  <1>4. Flags'
    BY <1>2, UnitFacts, Zenon DEF Flags
  <1>5. RtpInv'
    BY <1>2, RtpStays, Zenon
  <1>6. CurFits(s)'
    BY <1>1, <1>2, Zenon DEF CurFits
  <1>7. CurFits(task[handle])'
    BY <1>1, <1>2, <1>6, Zenon
  <1> QED
    BY <1>2, <1>3, <1>4, <1>5, <1>7, CurrentStays, Zenon

LEMMA ForwardStep ==
    ASSUME VideoInv, NEW cmd \in Commands, NEW epoch, ForwardControl(cmd, epoch)
    PROVE  VideoInv'
  <1>1. PICK s \in Tasks : s = cur /\ s = task[handle] /\ TaskOK(s) /\ TaskFits(handle, s) /\ CurFits(s)
    BY CurFacts, Zenon
  <1>2. /\ Running(s) /\ Len(s.acks) < AckCapacity /\ Becomes(handle, [s EXCEPT !.acks = Append(@, cmd)])
        /\ UNCHANGED <<mode, generation, handle, dropped, needsIdr, idrAsked, unit, rtp>>
        /\ UNCHANGED <<fecBroken, rtpBroken, reported, silentUnits, ghost>>
    BY <1>1, Zenon DEF ForwardControl, flags, history
  <1>3. s.acks \in Seq(Commands)
    BY Zenon DEF Tasks
  <1>4. PICK acks : acks = Append(s.acks, cmd)
    OBVIOUS
  <1>5. acks \in Seq(Commands) /\ Len(acks) <= AckCapacity
    BY <1>2, <1>3, <1>4, SizeAssumption
  <1>6. PICK t : t = [s EXCEPT !.acks = acks]
    OBVIOUS
  <1>7. /\ t \in Tasks /\ t.pc = s.pc /\ t.active = s.active /\ t.live = s.live /\ t.exit = s.exit /\ t.slot = s.slot
        /\ t.permit = s.permit /\ t.queue = s.queue /\ t.acks = acks /\ t.hand = s.hand
    BY <1>5, <1>6, Zenon DEF Tasks
  <1>8. TaskOK(t)
    BY <1>1, <1>5, <1>7, Zenon DEF TaskOK, Running
  <1>9. CurFits(t)'
    BY <1>1, <1>2, <1>7, Zenon DEF CurFits, Heals, Running
  <1>10. UnitInv'
    BY <1>2, UnitFacts, Zenon DEF UnitInv
  <1>11. Flags'
    BY <1>2, UnitFacts, Zenon DEF Flags
  <1>12. RtpInv'
    BY <1>2, RtpStays, Zenon
  <1>13. /\ reported' \in Seq(Nat) /\ Len(reported') = handle
         /\ \A h \in 1 .. handle : h # handle => reported'[h] = reported[h]
    BY <1>2, Zenon DEF VideoInv, Lists
  <1>14. reported'[handle] = Code(t)
    BY <1>1, <1>2, <1>7, Zenon DEF TaskFits, Code
  <1>15. /\ t.exit = cur.exit /\ t.pc = cur.pc /\ Becomes(handle, t)
         /\ (t.pc = "select" /\ t.queue # <<>> => t.permit \/ unit'.pc = "notify")
    BY <1>1, <1>2, <1>4, <1>6, <1>7, Zenon DEF TaskFits
  <1> QED
    BY <1>2, <1>7, <1>8, <1>9, <1>10, <1>11, <1>12, <1>13, <1>14, <1>15, CurrentChanges, Zenon

LEMMA ClientStep ==
    ASSUME VideoInv, Client
    PROVE  VideoInv'
  <1>1. PICK cmd \in Commands, epoch \in 1 .. handle : ForwardControl(cmd, epoch)
    BY DEF Client, Commands
  <1> QED
    BY <1>1, ForwardStep, Zenon

\* ------------------------------------------------------------ a new setup

LEMMA BumpStep ==
    ASSUME VideoInv, SetupBump
    PROVE  VideoInv'
  <1>1. PICK s \in Tasks : s = task[handle] /\ CurFits(s)
    BY CurFacts, Zenon
  <1>2. /\ ~dropped /\ unit.pc = "idle" /\ generation < MaxGenerations /\ generation' = generation + 1
        /\ unit' = [unit EXCEPT !.pc = "setup"]
        /\ UNCHANGED <<mode, handle, task, dropped, needsIdr, idrAsked, rtp, fecBroken, rtpBroken, reported, silentUnits, ghost>>
    BY Zenon DEF SetupBump, flags, history
  <1>3. unit \in Units /\ ~unit.key /\ handle = generation /\ generation \in 1 .. MaxGenerations
    BY <1>2, UnitFacts DEF UnitInv
  <1>4. unit' \in Units /\ unit'.pc = "setup" /\ unit'.key = unit.key
    <2>1. "setup" \in UnitPlaces
      BY DEF UnitPlaces
    <2>2. unit \in Units /\ unit' = [unit EXCEPT !.pc = "setup"]
      BY <1>2, <1>3
    <2> QED
      BY <2>1, <2>2, MovedTo, Zenon
  <1>5. UnitInv'
    <2>1. generation' \in 1 .. MaxGenerations /\ handle' = generation' - 1 /\ handle' \in 1 .. MaxGenerations
      BY <1>2, <1>3, SizeAssumption
    <2> QED
      BY <1>2, <1>3, <1>4, <2>1, Zenon DEF UnitInv, Units
  <1>6. Flags'
    BY <1>2, UnitFacts, Zenon DEF Flags
  <1>7. RtpInv'
    BY <1>2, <1>3, RtpStays, Zenon
  <1>8. unit'.pc \notin {"enqueue", "locked", "notify"} /\ unit.pc # "terminal" /\ unit.pc # "notify"
    BY <1>2, <1>4
  <1>9. CurFits(task[handle])'
    <2>1. CurFits(s)'
      BY <1>1, <1>2, <1>3, <1>4, <1>8, Zenon DEF CurFits, Heals
    <2> QED
      BY <1>1, <1>2, <2>1, Zenon
  <1>10. ASSUME NEW g \in 1 .. handle PROVE TaskFits(g, task[g])'
    <2>1. PICK t : t = task[g] /\ t = task'[g] /\ TaskFits(g, t)
      BY <1>2, TaskFacts, Zenon
    <2>2. g # generation'
      BY <1>2, <1>3
    <2>3. Code(t)' = Code(t) /\ TaskOK(t)'
      <3>1. Code(t)' = Code(t)
        BY <1>2, Zenon DEF Code, fecOnly
      <3>2. TaskOK(t)'
        BY <2>1 DEF TaskOK, TaskFits
      <3> QED
        BY <3>1, <3>2
    <2>4. TaskFits(g, t)'
      BY <1>2, <1>8, <2>1, <2>2, <2>3, Zenon DEF TaskFits
    <2> QED
      BY <2>1, <2>4, Zenon
  <1>11. Lists'
    BY <1>2, Zenon DEF VideoInv, Lists
  <1> QED
    BY <1>2, <1>5, <1>6, <1>7, <1>9, <1>10, <1>11, Zenon DEF VideoInv

LEMMA SpawnedFits == Spawned \in Tasks /\ TaskOK(Spawned) /\ Code(Spawned) = 0 /\ Spawned.pc = "select" /\ Spawned.queue = <<>>
                     /\ Spawned.exit = NoExit /\ Running(Spawned) /\ ~Spawned.active
  <1>1. /\ Spawned.pc = "select" /\ Spawned.queue = <<>> /\ Spawned.exit = NoExit /\ Spawned.active = FALSE /\ Spawned.live = TRUE
        /\ Spawned.slot = NoExit /\ Spawned.permit = FALSE /\ Spawned.acks = <<>> /\ Spawned.hand = NoFrame
    BY DEF Spawned
  <1>2. NoFrame \in Hands /\ NoFrame.left = 0 /\ NoFrame.key = FALSE
    BY DEF NoFrame, Hands
  <1>3. Spawned \in Tasks
    <2>1. "select" \in TaskPlaces /\ NoExit \in Ends /\ <<>> \in Seq(BOOLEAN) /\ <<>> \in Seq(Commands)
      BY DEF TaskPlaces, Ends
    <2> QED
      BY <1>2, <2>1, Zenon DEF Spawned, Tasks
  <1>4. TaskOK(Spawned)
    <2>1. Len(<<>>) <= QueueCapacity /\ Len(<<>>) <= AckCapacity /\ 0 <= MaxChunks
      BY SizeAssumption
    <2> QED
      BY <1>1, <1>2, <2>1 DEF TaskOK, Running
  <1>5. Code(Spawned) = 0
    BY <1>1, Zenon DEF Code
  <1>6. Running(Spawned)
    BY <1>1 DEF Running
  <1> QED
    BY <1>1, <1>3, <1>4, <1>5, <1>6, Zenon

LEMMA SpawnStep ==
    ASSUME VideoInv, SetupSpawn
    PROVE  VideoInv'
  <1>1. PICK s \in Tasks : s = task[handle] /\ TaskOK(s) /\ TaskFits(handle, s)
    BY CurFacts, Zenon
  <1>2. /\ unit.pc = "setup" /\ handle' = generation /\ task' = Append([task EXCEPT ![handle] = StaleTask(@)], Spawned)
        /\ reported' = Append(reported, 0) /\ ghost' = Append(ghost, 0)
        /\ idrAsked' = TRUE /\ fecBroken' = FALSE /\ silentUnits' = 0 /\ unit' = Waiting
        /\ UNCHANGED <<mode, generation, dropped, needsIdr, rtp, rtpBroken>>
    BY Zenon DEF SetupSpawn
  <1>3. ~dropped /\ handle' = handle + 1 /\ generation \in 1 .. MaxGenerations /\ handle \in 1 .. handle /\ unit.pc # "notify"
        /\ handle \in Nat
    BY <1>2, UnitFacts DEF UnitInv
  <1>4. /\ task \in Seq(Tasks) /\ reported \in Seq(Nat) /\ ghost \in Seq(Nat)
        /\ Len(task) = handle /\ Len(reported) = handle /\ Len(ghost) = handle
    BY DEF VideoInv, Lists
  <1>5. PICK old : old = StaleTask(s)
    OBVIOUS
  <1>6. /\ old \in Tasks /\ old.pc = s.pc /\ old.live = s.live /\ old.exit = s.exit /\ old.slot = s.slot
        /\ old.permit = s.permit /\ (old.queue = <<>> <=> s.queue = <<>>) /\ TaskOK(old)
    <2>1. s \in Tasks /\ TaskOK(s)
      BY <1>1
    <2>2. TaskOK(old)
      BY <1>5, <2>1, StaleOK, Zenon
    <2> QED
      BY <1>5, <2>1, <2>2, StaleSame, Zenon
  <1>7. PICK mid : mid = [task EXCEPT ![handle] = old]
    OBVIOUS
  <1>8. /\ mid \in Seq(Tasks) /\ Len(mid) = handle /\ mid[handle] = old
        /\ \A j \in 1 .. handle : j # handle => mid[j] = task[j]
    BY <1>3, <1>4, <1>6, <1>7
  <1>9. task' = Append(mid, Spawned)
    BY <1>1, <1>2, <1>5, <1>7, Zenon
  <1>10. /\ task' \in Seq(Tasks) /\ Len(task') = handle + 1 /\ task'[handle + 1] = Spawned
         /\ \A i \in 1 .. handle : task'[i] = mid[i]
    <2>1. Spawned \in Tasks
      BY SpawnedFits
    <2>2. /\ task' \in Seq(Tasks) /\ Len(task') = Len(mid) + 1 /\ task'[Len(mid) + 1] = Spawned
          /\ \A i \in 1 .. Len(mid) : task'[i] = mid[i]
      BY <1>8, <1>9, <2>1
    <2> QED
      BY <1>8, <2>2, Zenon
  <1>11. /\ reported' \in Seq(Nat) /\ Len(reported') = handle + 1 /\ reported'[handle + 1] = 0
         /\ \A i \in 1 .. handle : reported'[i] = reported[i]
    BY <1>2, <1>4
  <1>12. /\ ghost' \in Seq(Nat) /\ Len(ghost') = handle + 1 /\ ghost'[handle + 1] = 0
         /\ \A i \in 1 .. handle : ghost'[i] = ghost[i]
    BY <1>2, <1>4
  <1>13. Lists'
    BY <1>3, <1>10, <1>11, <1>12, Zenon DEF Lists
  <1>14. unit' \in Units /\ unit'.pc = "idle" /\ unit'.key = FALSE
    BY <1>2, IdleUnit, Zenon
  <1>15. UnitInv'
    <2>1. handle' = generation' /\ handle' \in 1 .. MaxGenerations /\ unit'.pc # "setup"
      BY <1>2, <1>3, <1>14
    <2> QED
      BY <1>2, <1>3, <1>14, <2>1, Zenon DEF UnitInv, Units
  <1>16. RtpInv'
    BY <1>2, RtpStays, Zenon
  <1>17. Flags'
    <2>1. silentUnits' \in Nat
      BY <1>2
    <2> QED
      BY <1>2, <2>1, UnitFacts, Zenon DEF Flags
  <1>18. CurFits(task[handle])'
    <2>1. PICK c : c = task'[handle']
      OBVIOUS
    <2>2. c = Spawned
      BY <1>3, <1>10, <2>1, Zenon
    <2>3. ~c.active
      BY <2>2, SpawnedFits
    <2>4. CurFits(c)'
      <3>1. unit'.pc \notin {"enqueue", "locked", "notify"} /\ ~(silentUnits' > 0)
        BY <1>2, <1>14
      <3> QED
        BY <1>2, <2>3, <3>1, Zenon DEF CurFits
    <2> QED
      BY <2>1, <2>4, Zenon
  <1>19. ASSUME NEW g \in 1 .. handle PROVE TaskFits(g, task[g])'
    <2>1. PICK t : t = task'[g]
      OBVIOUS
    <2>2. PICK r \in Tasks : r = task[g] /\ TaskFits(g, r) /\ TaskOK(r)
      BY TaskFacts, Zenon
    <2>3. /\ t \in Tasks /\ TaskOK(t) /\ t.pc = r.pc /\ t.live = r.live /\ t.exit = r.exit /\ t.slot = r.slot
          /\ t.permit = r.permit /\ (t.queue = <<>> <=> r.queue = <<>>)
      <3>1. CASE g = handle
        BY <1>1, <1>6, <1>8, <1>10, <2>1, <2>2, <3>1, Zenon
      <3>2. CASE g # handle
        <4>1. t = r
          BY <1>8, <1>10, <2>1, <2>2, <3>2, Zenon
        <4> QED
          BY <2>2, <4>1, Zenon
      <3> QED
        BY <3>1, <3>2
    <2>4. Code(t)' = Code(r)
      <3>1. fecOnly' = fecOnly
        BY <1>2 DEF fecOnly
      <3> QED
        BY <2>3, <3>1, Zenon DEF Code
    <2>5. reported'[g] = reported[g] /\ ghost'[g] = ghost[g] /\ g # generation'
      <3>1. g # handle'
        BY <1>3
      <3> QED
        BY <1>2, <1>11, <1>12, <3>1, Zenon
    <2>6. t.exit # "AckChannelClosed"
      BY <1>3, <2>2, <2>3, Zenon DEF TaskFits
    <2>7. TaskOK(t)'
      BY <2>3 DEF TaskOK
    <2>8. TaskFits(g, t)'
      <3>1. t.pc = "select" /\ t.queue # <<>> => t.permit
        BY <1>3, <2>2, <2>3, Zenon DEF TaskFits
      <3> QED
        BY <2>2, <2>3, <2>4, <2>5, <2>6, <2>7, <3>1, Zenon DEF TaskFits
    <2> QED
      BY <2>1, <2>8, Zenon
  <1>20. ASSUME NEW n, n = handle' PROVE TaskFits(n, task[n])'
    <2>1. PICK t : t = task'[n] /\ t = Spawned
      BY <1>3, <1>10, <1>20, Zenon
    <2>2. /\ t \in Tasks /\ TaskOK(t) /\ t.queue = <<>> /\ t.exit = NoExit
      BY <2>1, SpawnedFits, Zenon
    <2>3. Code(t)' = 0
      <3>1. t.live = TRUE
        BY <2>1 DEF Spawned
      <3> QED
        BY <3>1, Zenon DEF Code
    <2>4. TaskOK(t)'
      BY <2>2 DEF TaskOK
    <2>5. reported'[n] = 0 /\ ghost'[n] = 0 /\ 0 \in 0 .. 1 /\ t.exit # "AckChannelClosed"
      BY <1>3, <1>11, <1>12, <1>20, <2>2 DEF NoExit
    <2>6. TaskFits(n, t)'
      BY <2>2, <2>3, <2>4, <2>5, Zenon DEF TaskFits
    <2> QED
      BY <2>1, <2>6, Zenon
  <1>21. \A n \in 1 .. handle' : n \in 1 .. handle \/ n = handle'
    BY <1>3
  <1>22. \A n \in 1 .. handle' : TaskFits(n, task[n])'
    BY <1>19, <1>20, <1>21, Zenon
  <1> QED
    BY <1>13, <1>15, <1>16, <1>17, <1>18, <1>22, Zenon DEF VideoInv

LEMMA VideoStarts ==
    ASSUME HostVideoInit
    PROVE  VideoInv
  <1>1. /\ generation = 1 /\ handle = 1 /\ task = <<Spawned>> /\ dropped = FALSE /\ needsIdr = FALSE /\ idrAsked = TRUE
        /\ unit = Waiting /\ rtp = <<>> /\ fecBroken = FALSE /\ rtpBroken = FALSE
        /\ reported = <<0>> /\ silentUnits = 0 /\ ghost = <<0>>
    BY DEF HostVideoInit
  <1>2. Flags
    <2>1. silentUnits \in Nat
      BY <1>1
    <2> QED
      BY <1>1, <2>1, Zenon DEF Flags
  <1>3. task \in Seq(Tasks) /\ Len(task) = 1 /\ task[1] = Spawned
    <2>1. Spawned \in Tasks
      BY SpawnedFits
    <2> QED
      BY <1>1, <2>1
  <1>4. Lists
    <2>1. reported \in Seq(Nat) /\ ghost \in Seq(Nat) /\ Len(reported) = 1 /\ Len(ghost) = 1
      BY <1>1
    <2> QED
      BY <1>1, <1>3, <2>1, Zenon DEF Lists
  <1>5. UnitInv
    <2>1. unit \in Units /\ unit.pc = "idle" /\ unit.key = FALSE
      BY <1>1, IdleUnit, Zenon
    <2>2. 1 \in 1 .. MaxGenerations /\ unit.pc # "setup"
      BY <2>1, SizeAssumption
    <2> QED
      BY <1>1, <2>1, <2>2, Zenon DEF UnitInv, Units
  <1>6. RtpInv
    <2>1. rtp \in Seq(BOOLEAN) /\ Len(rtp) <= ChannelQueueSize
      BY <1>1, SizeAssumption
    <2> QED
      BY <1>1, <2>1, Zenon DEF RtpInv
  <1>7. CurFits(task[handle])
    <2>1. unit.pc \notin {"enqueue", "locked", "notify"} /\ ~(silentUnits > 0)
      BY <1>1, IdleUnit
    <2>2. ~task[handle].active
      BY <1>1, <1>3, SpawnedFits, Zenon
    <2> QED
      BY <1>1, <2>1, <2>2, Zenon DEF CurFits
  <1>8. TaskFits(1, task[1])
    <2>1. reported[1] = 0 /\ ghost[1] = 0 /\ 0 \in 0 .. 1
      BY <1>1
    <2>2. Spawned.exit # "AckChannelClosed"
      BY SpawnedFits DEF NoExit
    <2>3. TaskFits(1, Spawned)
      BY <2>1, <2>2, SpawnedFits, Zenon DEF TaskFits
    <2> QED
      BY <1>3, <2>3, Zenon
  <1>9. \A g \in 1 .. handle : g = 1
    BY <1>1
  <1> QED
    BY <1>2, <1>4, <1>5, <1>6, <1>7, <1>8, <1>9, Zenon DEF VideoInv

LEMMA VideoStep ==
    ASSUME VideoInv, [HostVideoNext]_hostVideoVars
    PROVE  VideoInv'
  <1>1. CASE HostVideoNext
    BY <1>1, BumpStep, SpawnStep, DropStep, CallbackStep, SampleStep, PictureLossStep, ClientStep, TaskStep, Zenon
       DEF HostVideoNext
  <1>2. CASE UNCHANGED hostVideoVars
    <2>1. /\ UNCHANGED <<mode, generation, handle, task, dropped, needsIdr, idrAsked, unit, rtp>>
          /\ UNCHANGED <<fecBroken, rtpBroken, reported, silentUnits, ghost>>
      BY <1>2, Zenon DEF hostVideoVars, flags, history
    <2>2. PICK s \in Tasks : s = task[handle] /\ CurFits(s)
      BY CurFacts, Zenon
    <2>3. UnitInv'
      BY <2>1, UnitFacts, Zenon DEF UnitInv
    <2>4. Flags'
      BY <2>1, UnitFacts, Zenon DEF Flags
    <2>5. RtpInv'
      BY <2>1, RtpStays, Zenon
    <2>6. CurFits(s)'
      BY <2>1, <2>2, Zenon DEF CurFits, Heals
    <2>7. CurFits(task[handle])'
      BY <2>1, <2>2, <2>6, Zenon
    <2> QED
      BY <2>1, <2>3, <2>4, <2>5, <2>7, CurrentStays, Zenon
  <1> QED
    BY <1>1, <1>2

LEMMA VideoGives ==
    ASSUME VideoInv
    PROVE  HostVideoSound
  <1>1. ASSUME NEW g \in 1 .. handle
        PROVE  /\ Len(task[g].queue) <= QueueCapacity /\ Len(task[g].acks) <= AckCapacity
               /\ task[g].exit \in Reasons \union {NoExit} /\ task[g].slot \in {NoExit, task[g].exit}
               /\ task[g].hand.left \in 0 .. MaxChunks
    <2>1. PICK t \in Tasks : t = task[g] /\ TaskOK(t)
      BY TaskFacts, Zenon
    <2>2. t.pc \in TaskPlaces /\ t.exit \in Ends /\ t.hand.left \in Nat
      BY Zenon DEF Tasks, Hands
    <2>3. t.slot \in {NoExit, t.exit}
      BY <2>1, <2>2 DEF TaskOK, Running, TaskPlaces
    <2>4. Len(t.queue) <= QueueCapacity /\ Len(t.acks) <= AckCapacity /\ t.hand.left <= MaxChunks
      BY <2>1, Zenon DEF TaskOK
    <2>5. t.hand.left \in 0 .. MaxChunks
      BY <2>2, <2>4, SizeAssumption
    <2> QED
      BY <2>1, <2>2, <2>3, <2>4, <2>5, Zenon DEF Ends
  <1>2. HostVideoTypeOK
    <2>1. /\ generation \in Generations /\ handle \in {generation - 1, generation}
      BY UnitFacts DEF UnitInv, Generations
    <2>2. unit.pc \in {"idle", "enqueue", "terminal", "locked", "notify", "rtp", "idr", "setup"}
      BY UnitFacts DEF UnitPlaces
    <2>3. Len(task) = handle /\ (Len(rtp) <= ChannelQueueSize \/ Len(rtp) = 1)
      BY Zenon DEF VideoInv, Lists, RtpInv
    <2> QED
      BY <1>1, <2>1, <2>2, <2>3, Zenon DEF HostVideoTypeOK
  <1>3. FecChainHeals
    <2>1. SUFFICES ASSUME fecBroken, cur.active, ~dropped
                   PROVE  \/ Repairing \/ cur.pc \in {"deactivate", "flag"} \/ (cur.hand.key /\ cur.hand.whole)
                          \/ \E i \in 1 .. Len(cur.queue) : cur.queue[i]
      BY Zenon DEF FecChainHeals
    <2>2. Heals(cur)
      BY <2>1, CurFacts, Zenon DEF CurFits
    <2>3. cur.pc = "deactivate" => cur.pc \in {"deactivate", "flag"}
      OBVIOUS
    <2> QED
      BY <2>2, <2>3, Zenon DEF Heals, Repairing, HasKey
  <1>4. RtpChainHeals
    BY UnitFacts, Zenon DEF RtpChainHeals, RtpInv, Repairing, HasKey
  <1>5. TerminalExactlyOnce
    <2>1. SUFFICES ASSUME NEW g \in 1 .. handle
                   PROVE  /\ reported[g] <= 1
                          /\ reported[g] = 1 => fecOnly /\ task[g].exit \notin {NoExit, "Superseded"}
                          /\ (fecOnly /\ g = handle /\ unit.pc = "idle" /\ ErrorCode(task[g].exit) /\ silentUnits > 0)
                               => reported[g] = 1
      BY Zenon DEF TerminalExactlyOnce
    <2>2. PICK t : t = task[g] /\ reported[g] = Code(t) /\ (g = handle => CurFits(t))
      BY TaskFacts, Zenon DEF TaskFits
    <2>3. reported[g] \in {0, 1} /\ (reported[g] = 1 => fecOnly /\ ErrorCode(t.exit))
      BY <2>2 DEF Code
    <2>4. (fecOnly /\ g = handle /\ unit.pc = "idle" /\ ErrorCode(t.exit) /\ silentUnits > 0) => reported[g] = 1
      <3>1. SUFFICES ASSUME fecOnly, g = handle, unit.pc = "idle", ErrorCode(t.exit), silentUnits > 0 PROVE reported[g] = 1
        BY Zenon
      <3>2. unit.pc # "terminal"
        BY <3>1
      <3>3. ~t.live /\ t.slot = NoExit
        BY <2>2, <3>1, <3>2, Zenon DEF CurFits
      <3> QED
        BY <2>2, <3>1, <3>3, Zenon DEF Code
    <2>5. reported[g] <= 1
      BY <2>3
    <2> QED
      BY <2>2, <2>3, <2>4, <2>5, Zenon DEF ErrorCode
  <1>6. NoStrandedFrame
    BY TaskFacts, Zenon DEF NoStrandedFrame, TaskFits, TaskOK
  <1>7. GhostIsolation
    <2>1. ASSUME NEW g \in 1 .. handle PROVE ghost[g] <= 1
      <3>1. ghost[g] \in 0 .. 1
        BY TaskFacts, Zenon DEF TaskFits
      <3> QED
        BY <3>1
    <2> QED
      BY <2>1, Zenon DEF GhostIsolation
  <1>8. RetiredQuietly
    <2>1. ASSUME NEW g \in 1 .. handle - 1 PROVE task[g].exit # "AckChannelClosed"
      <3>1. g \in 1 .. handle /\ g # handle
        BY UnitFacts
      <3> QED
        BY <3>1, TaskFacts, Zenon DEF TaskFits
    <2> QED
      BY <2>1, Zenon DEF RetiredQuietly
  <1> QED
    BY <1>2, <1>3, <1>4, <1>5, <1>6, <1>7, <1>8, Zenon DEF HostVideoSound, ChainHeals, TasksEndOnce

\* Whatever is lost on either path, a key frame that repairs it is asked for,
\* queued or being sent; every accepted frame and every sender task comes to one
\* end, and a superseded task sends at most one more symbol and raises no
\* request: for every queue size, every number of setups and every mix of
\* errors, late frames and feedback (video.rs send_decode_unit, fec_sender.rs).
THEOREM VideoHeals == HostVideoSpec => []HostVideoSound
  <1>1. HostVideoInit => VideoInv
    BY VideoStarts
  <1>2. VideoInv /\ [HostVideoNext]_hostVideoVars => VideoInv'
    BY VideoStep
  <1>3. VideoInv => HostVideoSound
    BY VideoGives
  <1> QED
    BY <1>1, <1>2, <1>3, PTL DEF HostVideoSpec

=============================================================================
