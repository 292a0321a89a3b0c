----------------------------- MODULE ClientProofs -----------------------------
(***************************************************************************)
(* The client behind the receiver core, for every value of the constants:  *)
(* what the present thread puts on the screen (PresentThread), what the C  *)
(* interface promises a shell (ReceiverApi), what is played                *)
(* (AudioPlayout), what it agrees with the host about cursor, display and  *)
(* files (DesktopControl), how a browser tab recovers its session          *)
(* (BrowserSession), and what ends the native client's (ClientSession).    *)
(***************************************************************************)
EXTENDS ReceiverApi, PresentThread, AudioPlayout, DesktopControl, BrowserSession, ClientSession,
        TLAPS

(***************************************************************************)
(* The present thread.  Pictures go forward only because their numbers are *)
(* bounded by the newest one stored, and because a surface is created for  *)
(* the first thread alone; at most two GPU pictures are skipped because    *)
(* none is decoded any more once the raw path has failed.                  *)
(***************************************************************************)

Pictures == [n : Nat \ {0}, form : Forms, size : Dims]
Places == {"none", "wait", "draw", "recreate", "redraw", "handback", "done"}
Renderers == [up : BOOLEAN, size : Nat, upload : Nat, srv : Nat, deep : BOOLEAN]

PresentTypes ==
    /\ frame \in Pictures \cup {NoPicture}
    /\ decoding \in Forms \cup {"none", "stored"}
    /\ generation \in Nat
    /\ raw_failed \in BOOLEAN /\ present_stop \in BOOLEAN /\ surface_failed \in BOOLEAN
    /\ pt \in [at : Places, pic : Pictures \cup {NoPicture}]
    /\ rend \in Renderers
    /\ attempts \in Nat /\ tex \in BOOLEAN /\ shown \in Nat /\ gpuSkipped \in Nat

\* The number of the newest picture stored.
Newest == IF decoding = "stored" THEN generation + 1 ELSE generation

NumbersInv ==
    /\ frame.n <= Newest /\ pt.pic.n <= Newest /\ shown <= Newest
    /\ surface = "dropping" => surface_failed
    /\ (surface = "none" /\ ~surface_failed) => pt.at = "none"
    /\ pt.at = "none" => shown = 0

\* GPU pictures the fallback may still meet or has skipped.
GpuInFlight ==
    gpuSkipped + (IF frame.form = "gpu" THEN 1 ELSE 0) + (IF decoding = "gpu" THEN 1 ELSE 0)

HandInv ==
    /\ IF raw_failed THEN GpuInFlight <= 2 ELSE gpuSkipped = 0
    /\ pt.at = "wait" => pt.pic = NoPicture
    /\ pt.at = "handback" => pt.pic.form = "rgba"
    /\ (pt.at = "done" /\ pt.pic.form = "rgba" /\ ~present_stop)
          => (frame # NoPicture \/ tex \/ gpuSkipped > 0)

PresentInv ==
    PresentTypes /\ NumbersInv /\ HandInv /\ ForwardOnly /\ ViewsCurrent /\ LadderEnds

\* What the leaves below look into: the shape of the data and its measures.
USE DEF Pictures, Places, Renderers, Forms, Dims, NoPicture, Picture, NoRenderer, NewRenderer,
        Newest, GpuInFlight

\* The decoder thread keeps the invariant.
LEMMA DecoderStep ==
    ASSUME PresentInv,
           StartDecode \/ DecodeFails \/ DecodesNothing \/ StorePicture \/ BumpGeneration \/ Demote
    PROVE  PresentInv'
  <1>1. CASE StartDecode
    BY <1>1 DEF StartDecode, PresentInv,
       PresentTypes, NumbersInv, HandInv, ForwardOnly, ViewsCurrent, LadderEnds
  <1>2. CASE DecodeFails
    BY <1>2 DEF DecodeFails, PresentInv,
       PresentTypes, NumbersInv, HandInv, ForwardOnly, ViewsCurrent, LadderEnds
  <1>3. CASE DecodesNothing
    BY <1>3 DEF DecodesNothing, PresentInv,
       PresentTypes, NumbersInv, HandInv, ForwardOnly, ViewsCurrent, LadderEnds
  <1>4. CASE StorePicture
    BY <1>4 DEF StorePicture, DecodeOutput, PresentInv,
       PresentTypes, NumbersInv, HandInv, ForwardOnly, ViewsCurrent, LadderEnds
  <1>5. CASE BumpGeneration
    BY <1>5 DEF BumpGeneration, PresentInv,
       PresentTypes, NumbersInv, HandInv, ForwardOnly, ViewsCurrent, LadderEnds
  <1>6. CASE Demote
    BY <1>6 DEF Demote, PresentInv,
       PresentTypes, NumbersInv, HandInv, ForwardOnly, ViewsCurrent, LadderEnds
  <1> QED
    BY <1>1, <1>2, <1>3, <1>4, <1>5, <1>6

\* The UI thread keeps it where it neither creates a surface nor paints.
LEMMA QuietUiStep ==
    ASSUME PresentInv,
           \/ SurfaceFine \/ DropSurface \/ Disconnect \/ Joined
           \/ RelayStall \/ Toggle \/ EguiIdle \/ RemoveDevice
    PROVE  PresentInv'
  <1>1. CASE SurfaceFine
    BY <1>1 DEF SurfaceFine, UiLeaves, PresentInv,
       PresentTypes, NumbersInv, HandInv, ForwardOnly, ViewsCurrent, LadderEnds
  <1>2. CASE DropSurface
    BY <1>2 DEF DropSurface, UiLeaves, PresentInv,
       PresentTypes, NumbersInv, HandInv, ForwardOnly, ViewsCurrent, LadderEnds
  <1>3. CASE Disconnect
    BY <1>3 DEF Disconnect, UiLeaves, PresentInv,
       PresentTypes, NumbersInv, HandInv, ForwardOnly, ViewsCurrent, LadderEnds
  <1>4. CASE Joined
    BY <1>4 DEF Joined, UiLeaves, PresentInv,
       PresentTypes, NumbersInv, HandInv, ForwardOnly, ViewsCurrent, LadderEnds
  <1>5. CASE RelayStall
    BY <1>5 DEF RelayStall, PresentInv,
       PresentTypes, NumbersInv, HandInv, ForwardOnly, ViewsCurrent, LadderEnds
  <1>6. CASE Toggle
    BY <1>6 DEF Toggle, UiLeaves, PresentInv,
       PresentTypes, NumbersInv, HandInv, ForwardOnly, ViewsCurrent, LadderEnds
  <1>7. CASE EguiIdle
    BY <1>7 DEF EguiIdle, UiLeaves, PresentInv,
       PresentTypes, NumbersInv, HandInv, ForwardOnly, ViewsCurrent, LadderEnds
  <1>8. CASE RemoveDevice
    BY <1>8 DEF RemoveDevice, PresentInv,
       PresentTypes, NumbersInv, HandInv, ForwardOnly, ViewsCurrent, LadderEnds
  <1> QED
    BY <1>1, <1>2, <1>3, <1>4, <1>5, <1>6, <1>7, <1>8

\* The present thread keeps it where it draws nothing.
LEMMA QuietThreadStep ==
    ASSUME PresentInv, SeeStop \/ TakePicture \/ PresentStopped \/ HandBack
    PROVE  PresentInv'
  <1>1. CASE SeeStop
    BY <1>1 DEF SeeStop, SharedByThread, PresentInv,
       PresentTypes, NumbersInv, HandInv, ForwardOnly, ViewsCurrent, LadderEnds
  <1>2. CASE TakePicture
    BY <1>2 DEF TakePicture, SharedByThread, PresentInv,
       PresentTypes, NumbersInv, HandInv, ForwardOnly, ViewsCurrent, LadderEnds
  <1>3. CASE PresentStopped
    BY <1>3 DEF PresentStopped, SharedByThread, PresentInv,
       PresentTypes, NumbersInv, HandInv, ForwardOnly, ViewsCurrent, LadderEnds
  <1>4. CASE HandBack
    BY <1>4 DEF HandBack, SharedByThread, PresentInv,
       PresentTypes, NumbersInv, HandInv, ForwardOnly, ViewsCurrent, LadderEnds
  <1> QED
    BY <1>1, <1>2, <1>3, <1>4

\* A failed raw path leaves at most the two GPU pictures in flight.
LEMMA TwoInFlight ==
    ASSUME PresentTypes, HandInv
    PROVE  GpuInFlight <= 2
  BY DEF PresentTypes, HandInv

\* A stall on a thread that waits: a fresh device or the end of the ladder.
LEMMA SeeStallStep ==
    ASSUME PresentInv, SeeStall
    PROVE  PresentInv'
  <1>1. MaxRecreates \in Nat
    BY PresentAssumption
  <1>2. /\ pt.at = "wait" /\ pt.pic = NoPicture /\ attempts <= MaxRecreates
        /\ attempts' = attempts + 1 /\ rend' = NoRenderer
        /\ UNCHANGED <<frame, decoding, generation, present_stop, surface, surface_failed, tex,
                       shown, gpuSkipped>>
    BY <1>1 DEF SeeStall, SharedByThread, PresentInv, PresentTypes, HandInv, LadderEnds
  <1>3. GpuInFlight <= 2
    BY TwoInFlight DEF PresentInv
  <1>4. CASE attempts + 1 > MaxRecreates
    <2>1. raw_failed' /\ pt' = [pt EXCEPT !.at = "done"]
      BY <1>4 DEF SeeStall
    <2>2. pt'.at = "done" /\ pt'.pic = NoPicture /\ pt' \in [at : Places, pic : Pictures \cup {NoPicture}]
      BY <1>2, <2>1 DEF PresentInv, PresentTypes
    <2>3. PresentTypes'
      BY <1>2, <2>1, <2>2 DEF PresentInv, PresentTypes
    <2> QED
      BY <1>1, <1>2, <1>3, <1>4, <2>1, <2>2, <2>3
      DEF PresentInv, PresentTypes, NumbersInv, HandInv, ForwardOnly, ViewsCurrent, LadderEnds
  <1>5. CASE ~(attempts + 1 > MaxRecreates)
    <2>1. UNCHANGED <<raw_failed, pt>>
      BY <1>5 DEF SeeStall
    <2> QED
      BY <1>1, <1>2, <1>5, <2>1
      DEF PresentInv, PresentTypes, NumbersInv, HandInv, ForwardOnly, ViewsCurrent, LadderEnds
  <1> QED
    BY <1>4, <1>5

\* A surface is created before any picture was shown, or never.
LEMMA CreateSurfaceStep ==
    ASSUME PresentInv, CreateSurface
    PROVE  PresentInv'
  <1>1. /\ pt.at = "none" /\ shown = 0 /\ surface = "none" /\ ~surface_failed
        /\ UNCHANGED <<frame, decoding, generation, present_stop, rend, attempts, tex, shown,
                       gpuSkipped>>
    BY DEF CreateSurface, PresentInv, NumbersInv
  <1>2. GpuInFlight <= 2
    BY TwoInFlight DEF PresentInv
  <1>3. attempts <= MaxRecreates /\ MaxRecreates \in Nat
    BY <1>1, PresentAssumption DEF PresentInv, PresentTypes, LadderEnds
  <1>4. CASE /\ surface' = "up" /\ UNCHANGED <<raw_failed, surface_failed>>
             /\ pt' = [at |-> "wait", pic |-> NoPicture]
    BY <1>1, <1>3, <1>4
    DEF PresentInv, PresentTypes, NumbersInv, HandInv, ForwardOnly, ViewsCurrent, LadderEnds
  <1>5. CASE raw_failed' = TRUE /\ surface_failed' = TRUE /\ UNCHANGED <<surface, pt>>
    BY <1>1, <1>2, <1>3, <1>5
    DEF PresentInv, PresentTypes, NumbersInv, HandInv, ForwardOnly, ViewsCurrent, LadderEnds
  <1> QED
    BY <1>4, <1>5 DEF CreateSurface

\* The fallback paints: the picture leaves the slot for the texture, or is skipped.
LEMMA EguiPaintStep ==
    ASSUME PresentInv, EguiPaint
    PROVE  PresentInv'
  <1>1. /\ raw_failed /\ frame \in Pictures /\ frame' = NoPicture
        /\ surface' \in {surface, "up"}
        /\ surface' # "none" \/ surface' = surface
        /\ UNCHANGED <<decoding, generation, raw_failed, present_stop, surface_failed, pt, rend,
                       attempts, shown>>
    BY DEF EguiPaint, UiLeaves, PresentInv, PresentTypes
  <1>2. CASE frame.form = "rgba"
    <2>1. tex' = TRUE /\ gpuSkipped' = gpuSkipped
      BY <1>2 DEF EguiPaint
    <2> QED
      BY <1>1, <1>2, <2>1
      DEF PresentInv, PresentTypes, NumbersInv, HandInv, ForwardOnly, ViewsCurrent, LadderEnds
  <1>3. CASE frame.form = "gpu"
    <2>1. tex' = tex /\ gpuSkipped' = gpuSkipped + 1
      BY <1>3 DEF EguiPaint, PresentInv, PresentTypes
    <2> QED
      BY <1>1, <1>3, <2>1
      DEF PresentInv, PresentTypes, NumbersInv, HandInv, ForwardOnly, ViewsCurrent, LadderEnds
  <1> QED
    BY <1>1, <1>2, <1>3

\* Drawing keeps the views current, over every resize.
LEMMA DrawCurrent ==
    ASSUME NEW r \in Renderers, NEW size \in Dims, NEW sharp,
           r.srv # 0 => r.srv = r.upload, r.upload # 0 => r.upload = r.size,
           NEW d, d \in {Draw(r, size, sharp), DrawGpu(r, size)}
    PROVE  /\ d \in Renderers
           /\ d.srv # 0 => d.srv = d.upload
           /\ d.upload # 0 => d.upload = d.size
  <1> DEFINE e == EnsureSize(r, size)
             u == Upload(e)
  <1>1. e \in Renderers /\ (e.srv # 0 => e.srv = e.upload) /\ (e.upload # 0 => e.upload = e.size)
    BY DEF EnsureSize
  <1> HIDE DEF e
  <1>2. u \in Renderers /\ (u.srv # 0 => u.srv = u.upload) /\ (u.upload # 0 => u.upload = u.size)
    BY <1>1 DEF Upload
  <1> HIDE DEF u
  <1>3. /\ DrawSharpen(u) \in Renderers
        /\ DrawSharpen(u).srv # 0 => DrawSharpen(u).srv = DrawSharpen(u).upload
        /\ DrawSharpen(u).upload # 0 => DrawSharpen(u).upload = DrawSharpen(u).size
    BY <1>2 DEF DrawSharpen
  <1>4. Draw(r, size, sharp) \in {u, DrawSharpen(u)} /\ DrawGpu(r, size) = e
    BY DEF Draw, DrawGpu, e, u
  <1> QED
    BY <1>1, <1>2, <1>3, <1>4

\* A picture is presented.
LEMMA PresentWorksStep ==
    ASSUME PresentInv, NEW at \in {"draw", "redraw"}, PresentWorks(at)
    PROVE  PresentInv'
  <1>1. /\ pt.at \in {"draw", "redraw"} /\ shown' = pt.pic.n /\ attempts' = 0
        /\ pt' = [at |-> "wait", pic |-> NoPicture]
        /\ UNCHANGED <<frame, decoding, generation, raw_failed, present_stop, surface,
                       surface_failed, tex, gpuSkipped>>
    BY DEF PresentWorks, SharedByThread
  <1>2. pt.pic \in Pictures
    BY <1>1 DEF PresentInv, PresentTypes, ForwardOnly
  <1>3. \E sharp : rend' \in {Draw(rend, pt.pic.size, sharp), DrawGpu(rend, pt.pic.size)}
    BY DEF PresentWorks
  <1>4. PICK sharp : rend' \in {Draw(rend, pt.pic.size, sharp), DrawGpu(rend, pt.pic.size)}
    BY <1>3
  <1>5. rend \in Renderers /\ pt.pic.size \in Dims
    BY <1>2 DEF PresentInv, PresentTypes
  <1>6. (rend.srv # 0 => rend.srv = rend.upload) /\ (rend.upload # 0 => rend.upload = rend.size)
    BY DEF PresentInv, ViewsCurrent
  <1>7. rend' \in Renderers /\ ViewsCurrent'
    BY <1>4, <1>5, <1>6, DrawCurrent DEF ViewsCurrent
  <1>8. MaxRecreates \in Nat
    BY PresentAssumption
  <1> QED
    BY <1>1, <1>2, <1>7, <1>8
    DEF PresentInv, PresentTypes, NumbersInv, HandInv, ForwardOnly, LadderEnds

\* The thread gives up on the picture it holds.
LEMMA GiveUpStep ==
    ASSUME PresentInv, pt.at \in {"draw", "recreate", "redraw"}, GiveUp,
           UNCHANGED SharedByThread
    PROVE  PresentInv'
  <1>1. /\ raw_failed' = TRUE /\ rend' = NoRenderer
        /\ pt' = [pt EXCEPT !.at = IF pt.pic.form = "rgba" THEN "handback" ELSE "done"]
        /\ UNCHANGED <<frame, decoding, generation, present_stop, attempts, surface,
                       surface_failed, tex, shown, gpuSkipped>>
    BY DEF GiveUp, SharedByThread
  <1>2. /\ pt'.at = IF pt.pic.form = "rgba" THEN "handback" ELSE "done"
        /\ pt'.pic = pt.pic /\ pt' \in [at : Places, pic : Pictures \cup {NoPicture}]
    BY <1>1 DEF PresentInv, PresentTypes
  <1>3. GpuInFlight <= 2
    BY TwoInFlight DEF PresentInv
  <1>4. attempts <= MaxRecreates /\ MaxRecreates \in Nat
    BY PresentAssumption DEF PresentInv, PresentTypes, LadderEnds
  <1>5. PresentTypes'
    BY <1>1, <1>2 DEF PresentInv, PresentTypes
  <1> QED
    BY <1>1, <1>2, <1>3, <1>4, <1>5
    DEF PresentInv, PresentTypes, NumbersInv, HandInv, ForwardOnly, ViewsCurrent, LadderEnds

\* The thread gets a renderer, asks for another, or goes on with none.
LEMMA NewPlaceStep ==
    ASSUME PresentInv, pt.at \in {"draw", "recreate"}, NEW at \in {"draw", "recreate", "redraw"},
           pt' = [pt EXCEPT !.at = at],
           rend' = NoRenderer \/ \E deep \in BOOLEAN : rend' = NewRenderer(pt.pic.size, deep),
           UNCHANGED <<frame, raw_failed, attempts, shown, SharedByThread>>
    PROVE  PresentInv'
  <1>1. pt'.at = at /\ pt'.pic = pt.pic /\ pt' \in [at : Places, pic : Pictures \cup {NoPicture}]
    BY DEF PresentInv, PresentTypes
  <1>2. pt.pic \in Pictures
    BY DEF PresentInv, PresentTypes, ForwardOnly
  <1>3. rend' \in Renderers /\ rend'.srv = 0 /\ rend'.upload = 0
    <2>1. CASE rend' = NoRenderer
      BY <2>1
    <2>2. CASE \E deep \in BOOLEAN : rend' = NewRenderer(pt.pic.size, deep)
      <3>1. PICK deep \in BOOLEAN : rend' = NewRenderer(pt.pic.size, deep)
        BY <2>2
      <3>2. pt.pic.size \in Nat
        BY <1>2
      <3> QED
        BY <3>1, <3>2
    <2> QED
      BY <2>1, <2>2
  <1>4. attempts <= MaxRecreates /\ MaxRecreates \in Nat
    BY PresentAssumption DEF PresentInv, PresentTypes, LadderEnds
  <1> QED
    BY <1>1, <1>3, <1>4
    DEF SharedByThread, PresentInv, PresentTypes, NumbersInv, HandInv, ForwardOnly, ViewsCurrent,
        LadderEnds

\* The drawing steps that do not present are of the two kinds above.
LEMMA DrawingStep ==
    ASSUME PresentInv, InitRenderer \/ PresentFails \/ Recreate \/ RetryFails
    PROVE  PresentInv'
  <1>0. pt = [pt EXCEPT !.at = pt.at]
    BY DEF PresentInv, PresentTypes
  <1>1. CASE InitRenderer
    <2>1. CASE GiveUp
      BY <1>1, <2>1, GiveUpStep DEF InitRenderer
    <2>2. CASE /\ \E deep \in BOOLEAN : rend' = NewRenderer(pt.pic.size, deep)
               /\ UNCHANGED <<frame, raw_failed, device_removed, stall_pending, attempts, shown, pt>>
      BY <1>0, <1>1, <2>2, NewPlaceStep DEF InitRenderer
    <2> QED
      BY <1>1, <2>1, <2>2 DEF InitRenderer, NewInner
  <1>2. CASE PresentFails
    <2>1. CASE GiveUp
      BY <1>2, <2>1, GiveUpStep DEF PresentFails
    <2>2. CASE /\ rend' = NoRenderer /\ pt' = [pt EXCEPT !.at = "recreate"]
               /\ UNCHANGED <<frame, nv12, raw_failed, stall_pending, attempts, shown>>
      BY <1>2, <2>2, NewPlaceStep DEF PresentFails
    <2> QED
      BY <1>2, <2>1, <2>2 DEF PresentFails
  <1>3. CASE Recreate
    <2>1. CASE GiveUp
      BY <1>3, <2>1, GiveUpStep DEF Recreate
    <2>2. CASE /\ \E deep \in BOOLEAN : rend' = NewRenderer(pt.pic.size, deep)
               /\ pt' = [pt EXCEPT !.at = "redraw"]
               /\ UNCHANGED <<frame, raw_failed, device_removed, stall_pending, attempts, shown>>
      BY <1>3, <2>2, NewPlaceStep DEF Recreate
    <2> QED
      BY <1>3, <2>1, <2>2 DEF Recreate
  <1>4. CASE RetryFails
    BY <1>4, GiveUpStep DEF RetryFails
  <1> QED
    BY <1>1, <1>2, <1>3, <1>4

\* Every step keeps the invariant.
LEMMA PresentStep ==
    ASSUME PresentInv, [PresentNext]_presentVars
    PROVE  PresentInv'
  <1>1. CASE UNCHANGED presentVars
    BY <1>1 DEF presentVars, PresentInv, PresentTypes, NumbersInv, HandInv, ForwardOnly,
       ViewsCurrent, LadderEnds
  <1>2. CASE ThreadStep
    BY <1>2, QuietThreadStep, SeeStallStep, PresentWorksStep, DrawingStep DEF ThreadStep
  <1>3. CASE PresentNext /\ ~ThreadStep
    BY <1>3, DecoderStep, QuietUiStep, CreateSurfaceStep, EguiPaintStep DEF PresentNext
  <1> QED
    BY <1>1, <1>2, <1>3

\* Pictures go forward, views are current, the fallback is fed and the ladder
\* ends (render_loop, Renderer, App::update), for every number of pictures,
\* failures, stalls and fresh devices.
THEOREM PicturesSound == PresentSpec => []PresentSound
  <1>1. PresentInit => PresentInv
    <2> SUFFICES ASSUME PresentInit PROVE PresentInv
      OBVIOUS
    <2>1. PresentTypes
      BY DEF PresentInit, PresentTypes
    <2>2. NumbersInv /\ HandInv
      BY DEF PresentInit, NumbersInv, HandInv
    <2>3. ForwardOnly /\ ViewsCurrent /\ LadderEnds
      BY PresentAssumption DEF PresentInit, ForwardOnly, ViewsCurrent, LadderEnds
    <2> QED
      BY <2>1, <2>2, <2>3 DEF PresentInv
  <1>2. PresentInv => PresentSound
    <2>1. ASSUME PresentInv PROVE gpuSkipped <= 2
      BY <2>1, TwoInFlight DEF PresentInv, PresentTypes
    <2> QED
      BY <2>1 DEF PresentInv, HandInv, PresentSound, FallbackFed
  <1> QED
    BY <1>1, <1>2, PresentStep, PTL DEF PresentSpec

HIDE DEF Pictures, Places, Renderers, Forms, Dims, NoPicture, Picture, NoRenderer, NewRenderer,
        Newest, GpuInFlight

(***************************************************************************)
(* The C interface.  A latched value is handed out once because every      *)
(* serial is bounded by the newest, and what waits when a session runs is  *)
(* newer than the session.  An acknowledgement closes only what was shown  *)
(* because the resets in the queue, in the decoder's hand and behind it    *)
(* are in the order of their generations.                                  *)
(***************************************************************************)

Threads == {"none", "leased", "connecting", "streaming", "Failed", "Stopped", "ended"}
Pairs == [gen : Nat, epoch : Nat]

ApiTypes ==
    /\ q \in Seq(FQ!Event) /\ gens \in Nat /\ rec \in Pairs
    /\ thr \in Threads
    /\ pend \in [Latches -> Nat] /\ cTook \in [Latches -> Nat] /\ sTook \in [Latches -> Nat]
    /\ made \in Nat /\ base \in Nat
    /\ hand \in FQ!Event \cup {NoHandle} /\ kept \in Pairs /\ flushed \in Nat /\ ended \in Nat

LifeInv ==
    /\ lease = "never" => thr = "none"
    /\ TerminalStateLast

LatchInv ==
    /\ \A l \in Latches : pend[l] <= made /\ cTook[l] <= made /\ sTook[l] <= made
    /\ base <= made
    /\ IF thr \in {"none", "leased"} THEN \A l \in Latches : sTook[l] = 0
       ELSE \A l \in Latches : pend[l] = 0 \/ pend[l] > base
    /\ LatchesHandedOnce

\* The resets behind the generation g in the queue, oldest first.
ResetsBehind(g, pulled) ==
    /\ \A i \in 1..Len(pulled) : pulled[i].kind = "disc" => g < pulled[i].gen /\ pulled[i].gen <= gens
    /\ \A i, j \in 1..Len(pulled) :
          (i < j /\ pulled[i].kind = "disc" /\ pulled[j].kind = "disc") => pulled[i].gen < pulled[j].gen

PullInv ==
    /\ kept.gen <= flushed /\ flushed <= gens /\ ended <= flushed
    /\ hand.kind = "disc" => flushed < hand.gen /\ hand.gen <= gens
    /\ ResetsBehind(IF hand.kind = "disc" THEN hand.gen ELSE flushed, q)
    /\ rec # FQ!NoRecovery => rec.gen = gens /\ ended < rec.gen

ApiInv == ApiTypes /\ LifeInv /\ LatchInv /\ PullInv

\* What a step that leaves a part of the state alone keeps.
LEMMA LifeKept ==
    ASSUME LifeInv, shut => shut', UNCHANGED <<lease, thr, state, reconnect>>
    PROVE  LifeInv'
  BY DEF LifeInv, TerminalStateLast, Readback

LEMMA LatchKept ==
    ASSUME LatchInv, UNCHANGED <<pend, made, base, cTook, sTook, lease, thr>>
    PROVE  LatchInv'
  BY DEF LatchInv, LatchesHandedOnce

LEMMA PullKept ==
    ASSUME PullInv, UNCHANGED <<q, gens, rec, hand, kept, flushed, ended>>
    PROVE  PullInv'
  BY DEF PullInv, ResetsBehind

\* A value enters latches while nobody's life changes.
LEMMA Latched ==
    ASSUME ApiTypes, LatchInv, NEW ls, Latch(ls), UNCHANGED <<lease, thr>>
    PROVE  /\ LatchInv' /\ pend' \in [Latches -> Nat] /\ made' \in Nat
           /\ UNCHANGED <<base, cTook, sTook>>
  <1>1. /\ made' = made + 1 /\ UNCHANGED <<base, cTook, sTook>>
        /\ pend' = [l \in Latches |-> IF l \in ls THEN made + 1 ELSE pend[l]]
    BY DEF Latch
  <1>2. \A l \in Latches : pend'[l] \in {made + 1, pend[l]}
    BY <1>1
  <1>3. pend' \in [Latches -> Nat] /\ made' \in Nat
    BY <1>1 DEF ApiTypes
  <1> QED
    BY <1>1, <1>2, <1>3 DEF ApiTypes, LatchInv, LatchesHandedOnce

\* A reset gets its generation.
LEMMA Stamped ==
    ASSUME NEW d \in FQ!Event, NEW g \in Nat
    PROVE  [d EXCEPT !.gen = g] \in FQ!Event /\ [d EXCEPT !.gen = g].gen = g
           /\ [d EXCEPT !.gen = g].kind = d.kind
  BY DEF FQ!Event

\* A reset or a frame enters the queue.
LEMMA Pushed ==
    ASSUME ApiTypes, PullInv, UNCHANGED apiPull,
           NEW e \in ApiEpochs, NEW key \in BOOLEAN,
           \/ FQ!PushFrame(FQ!FrameEvent(0, key, e, 0, "session"))
           \/ FQ!PushDiscontinuity(FQ!DiscEvent(0, e, 0, "session"))
    PROVE  PullInv' /\ q' \in Seq(FQ!Event) /\ gens' \in Nat /\ rec' \in Pairs /\ shut' = shut
  <1> DEFINE f == FQ!FrameEvent(0, key, e, 0, "session")
             d == FQ!DiscEvent(0, e, 0, "session")
             r == [d EXCEPT !.gen = gens + 1]
             o == FQ!DiscEvent(gens + 1, e, 0, "queue")
  <1>1. e \in Nat /\ gens \in Nat /\ q \in Seq(FQ!Event)
    BY ApiAssumption DEF ApiTypes
  <1>2. f \in FQ!Event /\ f.kind = "frame" /\ f.epoch = e
    BY <1>1 DEF FQ!FrameEvent, FQ!Event, FQ!Sources
  <1>3. o \in FQ!Event /\ o.kind = "disc" /\ o.gen = gens + 1
    BY <1>1 DEF FQ!DiscEvent, FQ!Event, FQ!Sources
  <1>4. d \in FQ!Event /\ d.kind = "disc" /\ d.epoch = e
    BY <1>1 DEF FQ!DiscEvent, FQ!Event, FQ!Sources
  <1> HIDE DEF f, d, o
  <1>5. r \in FQ!Event /\ r.kind = "disc" /\ r.gen = gens + 1
    BY <1>1, <1>4, Stamped
  <1>6. \/ UNCHANGED <<q, gens, rec, shut>>
        \/ q' = Append(q, f) /\ UNCHANGED <<gens, rec, shut>>
        \/ /\ q' \in {<<o, f>>, <<r>>, Append(q, r)} /\ UNCHANGED shut
           /\ gens' = gens + 1 /\ rec' = [gen |-> gens + 1, epoch |-> e]
    BY <1>2, <1>4
    DEF FQ!PushFrame, FQ!PushDiscontinuity, FQ!OpenRecoveryLocked, FQ!queueVars, f, d, o
  <1> HIDE DEF r
  <1>7. PICK g \in Nat : /\ g = (IF hand.kind = "disc" THEN hand.gen ELSE flushed)
                         /\ g <= gens
    BY DEF ApiTypes, PullInv, FQ!Event, NoHandle
  <1>8. CASE UNCHANGED <<q, gens, rec, shut>>
    BY <1>8, PullKept DEF ApiTypes, apiPull
  <1>9. CASE q' = Append(q, f) /\ UNCHANGED <<gens, rec, shut>>
    <2>1. q' \in Seq(FQ!Event) /\ Len(q') = Len(q) + 1
          /\ \A i \in 1..Len(q') : q'[i] = IF i <= Len(q) THEN q[i] ELSE f
      BY <1>1, <1>2, <1>9
    <2>2. ResetsBehind(g, q)
      BY <1>7 DEF PullInv
    <2>3. ResetsBehind(g, q)'
      BY <1>1, <1>2, <1>9, <2>1, <2>2 DEF ResetsBehind
    <2> QED
      BY <1>7, <1>9, <2>1, <2>3 DEF ApiTypes, PullInv, apiPull
  <1>10. CASE /\ q' \in {<<o, f>>, <<r>>, Append(q, r)} /\ UNCHANGED shut
              /\ gens' = gens + 1 /\ rec' = [gen |-> gens + 1, epoch |-> e]
    <2>1. ResetsBehind(g, q)
      BY <1>7 DEF PullInv
    <2>2. q' \in Seq(FQ!Event) /\ ResetsBehind(g, q)'
      <3>1. CASE q' = <<o, f>>
        <4>1. q' \in Seq(FQ!Event) /\ Len(q') = 2 /\ q'[1] = o /\ q'[2] = f
          BY <1>2, <1>3, <3>1
        <4> QED
          BY <1>1, <1>2, <1>3, <1>7, <1>10, <4>1 DEF ResetsBehind
      <3>2. CASE q' = <<r>>
        <4>1. q' \in Seq(FQ!Event) /\ Len(q') = 1 /\ q'[1] = r
          BY <1>5, <3>2
        <4> QED
          BY <1>1, <1>5, <1>7, <1>10, <4>1 DEF ResetsBehind
      <3>3. CASE q' = Append(q, r)
        <4>1. q' \in Seq(FQ!Event) /\ Len(q') = Len(q) + 1
              /\ \A i \in 1..Len(q') : q'[i] = IF i <= Len(q) THEN q[i] ELSE r
          BY <1>1, <1>5, <3>3
        <4>2. \A i \in 1..Len(q) : q[i] \in FQ!Event
          BY <1>1
        <4>3. \A i \in 1..Len(q) : q[i].gen \in Nat
          BY <4>2 DEF FQ!Event
        <4>4. Len(q) \in Nat /\ gens' = gens + 1 /\ r.kind = "disc" /\ r.gen = gens + 1 /\ g <= gens
          BY <1>1, <1>5, <1>7, <1>10
        <4>5. \A i \in 1..Len(q') : i \in 1..Len(q) \/ (i = Len(q) + 1 /\ q'[i] = r)
          BY <4>1, <4>4
        <4>6. \A i \in 1..Len(q) : q'[i] = q[i]
          BY <4>1, <4>4
        <4>7. ASSUME NEW i \in 1..Len(q'), q'[i].kind = "disc"
              PROVE  g < q'[i].gen /\ q'[i].gen <= gens'
          <5>1. CASE i \in 1..Len(q)
            BY <1>1, <2>1, <4>3, <4>4, <4>6, <4>7, <5>1 DEF ResetsBehind
          <5>2. CASE i = Len(q) + 1 /\ q'[i] = r
            BY <1>1, <4>4, <5>2
          <5> QED
            BY <4>5, <5>1, <5>2
        <4>8. ASSUME NEW i \in 1..Len(q'), NEW j \in 1..Len(q'), i < j, q'[i].kind = "disc",
                     q'[j].kind = "disc"
              PROVE  q'[i].gen < q'[j].gen
          <5>1. i \in 1..Len(q)
            BY <4>1, <4>4, <4>8
          <5>2. q'[i] = q[i] /\ q[i].gen <= gens /\ q[i].gen \in Nat
            BY <2>1, <4>3, <4>6, <4>8, <5>1 DEF ResetsBehind
          <5>3. CASE j \in 1..Len(q)
            BY <2>1, <4>6, <4>8, <5>1, <5>3 DEF ResetsBehind
          <5>4. CASE j = Len(q) + 1 /\ q'[j] = r
            BY <1>1, <4>4, <5>2, <5>4
          <5> QED
            BY <4>5, <5>3, <5>4
        <4> QED
          BY <4>1, <4>7, <4>8 DEF ResetsBehind
      <3> QED
        BY <1>10, <3>1, <3>2, <3>3
    <2>3. rec' \in Pairs /\ rec'.gen = gens + 1
      BY <1>1, <1>10 DEF Pairs
    <2> QED
      BY <1>1, <1>7, <1>10, <2>2, <2>3 DEF ApiTypes, PullInv, apiPull
  <1> QED
    BY <1>6, <1>8, <1>9, <1>10

\* What a message or a tick leaves behind, whoever fed it in.
LEMMA IngestStep ==
    ASSUME ApiInv, Ingest
    PROVE  ApiInv'
  <1>1. UNCHANGED <<lease, thr, state, reconnect, hand, kept, flushed, ended>> /\ UNCHANGED apiPull
    BY DEF Ingest, apiLife, apiDog, apiPull
  <1>2. /\ PullInv' /\ q' \in Seq(FQ!Event) /\ gens' \in Nat /\ rec' \in Pairs /\ shut' = shut
    <2>1. CASE UNCHANGED <<q, shut, ov, gens, rec>>
      BY <1>1, <2>1, PullKept DEF ApiInv, ApiTypes
    <2>2. CASE \E e \in ApiEpochs, key \in BOOLEAN :
                  \/ FQ!PushFrame(FQ!FrameEvent(0, key, e, 0, "session"))
                  \/ FQ!PushDiscontinuity(FQ!DiscEvent(0, e, 0, "session"))
      BY <1>1, <2>2, Pushed DEF ApiInv
    <2> QED
      BY <2>1, <2>2 DEF Ingest, FrameArrives, DiscontinuityArrives, AckArrives, apiQueue
  <1>3. /\ LatchInv' /\ pend' \in [Latches -> Nat] /\ made' \in Nat
        /\ UNCHANGED <<base, cTook, sTook>>
    <2>1. CASE UNCHANGED apiLatch
      BY <1>1, <2>1, LatchKept DEF ApiInv, ApiTypes, apiLatch
    <2>2. CASE Latch({"disc", "idr"}) \/ Latch({"ack"})
      BY <1>1, <2>2, Latched DEF ApiInv
    <2> QED
      BY <2>1, <2>2 DEF Ingest, FrameArrives, DiscontinuityArrives, AckArrives
  <1>4. LifeInv'
    BY <1>1, <1>2, LifeKept DEF ApiInv
  <1>5. ApiTypes'
    BY <1>1, <1>2, <1>3 DEF ApiInv, ApiTypes
  <1> QED
    BY <1>2, <1>3, <1>4, <1>5 DEF ApiInv

\* A handle is closed or freed: neither latches nor the pull loop notice.
LEMMA HandleStep ==
    ASSUME ApiInv, ReceiverClose \/ ReceiverFree \/ CleanupClose \/ CtStop
    PROVE  ApiInv'
  <1>1. /\ UNCHANGED <<q, gens, rec, lease, thr, state, pend, made, base, cTook, sTook, reconnect,
                       hand, kept, flushed, ended>>
        /\ shut => shut'
    BY DEF ReceiverClose, ReceiverFree, CleanupClose, CtStop, FQ!CloseQueue, apiQueue, apiLife,
       apiLatch, apiDog, apiPull
  <1>2. ApiTypes'
    BY <1>1 DEF ApiInv, ApiTypes
  <1> QED
    BY <1>1, <1>2, LifeKept, LatchKept, PullKept DEF ApiInv

\* The session's thread moves on, and the receiver's lease with it.
LEMMA ThreadMoves ==
    ASSUME ApiInv,
           \/ CtStart \/ Streams \/ CleanupRelease \/ CleanupExpose \/ LadderExhausted
           \/ \E how \in {"Failed", "Stopped"} : ThreadLeaves(how)
    PROVE  ApiInv'
  <1>1. UNCHANGED <<q, shut, gens, rec, pend, made, base, cTook, sTook, hand, kept, flushed, ended>>
    BY DEF CtStart, Streams, CleanupRelease, CleanupExpose, LadderExhausted, ThreadLeaves,
       apiQueue, apiLatch, apiPull
  <1>2. thr' \in Threads
    BY DEF ApiInv, ApiTypes, CtStart, Streams, CleanupRelease, CleanupExpose, LadderExhausted,
       ThreadLeaves, Threads
  <1>3. ApiTypes' /\ PullInv'
    BY <1>1, <1>2, PullKept DEF ApiInv, ApiTypes
  <1>4. LifeInv'
    <2>1. CASE CtStart
      BY <2>1 DEF ApiInv, LifeInv, TerminalStateLast, Readback, CtStart, apiQueue, apiDog
    <2>2. CASE Streams
      BY <2>2 DEF ApiInv, LifeInv, TerminalStateLast, Readback, Streams, apiQueue, apiDog
    <2>3. CASE CleanupRelease
      BY <2>3 DEF ApiInv, LifeInv, TerminalStateLast, Readback, CleanupRelease, apiQueue, apiDog
    <2>4. CASE CleanupExpose
      BY <2>4 DEF ApiInv, LifeInv, TerminalStateLast, Readback, CleanupExpose, apiQueue, apiDog
    <2>5. CASE LadderExhausted
      BY <2>5 DEF ApiInv, LifeInv, TerminalStateLast, Readback, LadderExhausted, apiQueue
    <2>6. CASE \E how \in {"Failed", "Stopped"} : ThreadLeaves(how)
      BY <2>6 DEF ApiInv, LifeInv, TerminalStateLast, Readback, ThreadLeaves, apiQueue, apiDog
    <2> QED
      BY <2>1, <2>2, <2>3, <2>4, <2>5, <2>6
  <1>5. /\ thr \in {"none", "leased"} <=> thr' \in {"none", "leased"}
        /\ (lease' = "active" /\ thr' # "leased") => (lease = "active" /\ thr # "leased")
    BY DEF ApiInv, LifeInv, CtStart, Streams, CleanupRelease, CleanupExpose, LadderExhausted,
       ThreadLeaves
  <1>6. LatchInv'
    BY <1>1, <1>5 DEF ApiInv, LatchInv, LatchesHandedOnce
  <1> QED
    BY <1>3, <1>4, <1>6 DEF ApiInv

\* begin_fec_negotiation drops what the standalone ingress left.
LEMMA BeginSessionStep ==
    ASSUME ApiInv, BeginSession
    PROVE  ApiInv'
  <1>1. /\ thr = "leased" /\ q' = << >> /\ rec' = FQ!NoRecovery /\ base' = made
        /\ pend' = [l \in Latches |-> 0]
        /\ UNCHANGED <<gens, made, cTook, sTook, reconnect, hand, kept, flushed, ended>>
    BY DEF BeginSession, apiDog, apiPull
  <1>2. \/ thr' = "connecting" /\ UNCHANGED <<shut, lease, state>>
        \/ thr' = "ended" /\ shut' = TRUE /\ lease' = "over" /\ state' = "Failed"
    BY DEF BeginSession
  <1>3. rec' \in Pairs /\ q' \in Seq(FQ!Event) /\ Len(q') = 0
    BY <1>1 DEF FQ!NoRecovery, Pairs
  <1>4. pend' \in [Latches -> Nat] /\ \A l \in Latches : pend'[l] = 0
    BY <1>1
  <1>5. ApiTypes'
    BY <1>1, <1>2, <1>3, <1>4 DEF ApiInv, ApiTypes, Threads
  <1>6. LifeInv'
    BY <1>1, <1>2 DEF ApiInv, LifeInv, TerminalStateLast, Readback
  <1>7. LatchInv'
    <2>1. \A l \in Latches : sTook'[l] = 0 /\ cTook'[l] <= base'
      BY <1>1 DEF ApiInv, LatchInv
    <2>2. made' \in Nat /\ base' = made' /\ cTook' = cTook /\ thr' \notin {"none", "leased"}
      BY <1>1, <1>2 DEF ApiInv, ApiTypes
    <2>3. {"ack", "idr", "disc"} \subseteq Latches
      BY DEF Latches
    <2> QED
      BY <1>4, <2>1, <2>2, <2>3 DEF LatchInv, LatchesHandedOnce
  <1>8. PullInv'
    BY <1>1, <1>3 DEF ApiInv, PullInv, ResetsBehind
  <1> QED
    BY <1>5, <1>6, <1>7, <1>8 DEF ApiInv

\* A value is taken from its latch, by the caller or by the session.
LEMMA TakenOnce ==
    ASSUME ApiTypes, LatchInv, NEW l \in Latches, Take(l), UNCHANGED <<made, base, lease, thr>>,
           \/ /\ UNCHANGED sTook
              /\ cTook' \in {cTook, [cTook EXCEPT ![l] = pend[l]]}
              /\ lease = "active" => l \in Stages
           \/ /\ UNCHANGED cTook
              /\ thr = "streaming"
              /\ sTook' \in {sTook, [sTook EXCEPT ![l] = pend[l]]}
    PROVE  /\ LatchInv'
           /\ pend' \in [Latches -> Nat] /\ cTook' \in [Latches -> Nat] /\ sTook' \in [Latches -> Nat]
  <1>1. /\ pend' \in [Latches -> Nat]
        /\ \A k \in Latches : pend'[k] = IF k = l THEN 0 ELSE pend[k]
    BY DEF Take, ApiTypes
  <1>2. /\ cTook' \in [Latches -> Nat] /\ sTook' \in [Latches -> Nat]
        /\ \A k \in Latches : k # l => cTook'[k] = cTook[k] /\ sTook'[k] = sTook[k]
        /\ cTook'[l] \in {cTook[l], pend[l]} /\ sTook'[l] \in {sTook[l], pend[l]}
        /\ cTook' = cTook \/ sTook' = sTook
    BY DEF ApiTypes
  <1>3. /\ cTook'[l] # cTook[l] /\ lease = "active" => l \in Stages
        /\ sTook'[l] # sTook[l] => thr = "streaming"
    BY <1>2
  <1>4. pend[l] \in Nat /\ cTook[l] \in Nat /\ sTook[l] \in Nat /\ made \in Nat /\ base \in Nat
    BY DEF ApiTypes
  <1>5. /\ pend[l] <= made /\ cTook[l] <= made /\ sTook[l] <= made
        /\ thr = "streaming" => pend[l] = 0 \/ pend[l] > base
        /\ pend[l] = 0 \/ (pend[l] > cTook[l] /\ pend[l] > sTook[l])
        /\ sTook[l] = 0 \/ (sTook[l] > base /\ sTook[l] # cTook[l])
    BY DEF LatchInv, LatchesHandedOnce
  <1>6. /\ pend'[l] = 0 /\ cTook'[l] <= made' /\ sTook'[l] <= made'
        /\ sTook'[l] = 0 \/ (sTook'[l] > base' /\ sTook'[l] # cTook'[l])
        /\ thr \in {"none", "leased"} => sTook'[l] = sTook[l]
    BY <1>1, <1>2, <1>3, <1>4, <1>5
  <1>7. \A k \in Latches : k # l => pend'[k] = pend[k] /\ cTook'[k] = cTook[k] /\ sTook'[k] = sTook[k]
    BY <1>1, <1>2
  <1>8. (lease = "active" /\ l \in {"ack", "idr", "disc"}) => cTook'[l] = cTook[l]
    BY <1>3 DEF Stages
  <1>9. {"ack", "idr", "disc"} \subseteq Latches
    BY DEF Latches
  <1>10. /\ \A k \in Latches : pend'[k] <= made' /\ cTook'[k] <= made' /\ sTook'[k] <= made'
         /\ base' <= made'
         /\ IF thr' \in {"none", "leased"} THEN \A k \in Latches : sTook'[k] = 0
            ELSE \A k \in Latches : pend'[k] = 0 \/ pend'[k] > base'
    BY <1>4, <1>6, <1>7 DEF LatchInv
  <1>11. LatchesHandedOnce'
    BY <1>4, <1>6, <1>7, <1>8, <1>9 DEF LatchInv, LatchesHandedOnce
  <1> QED
    BY <1>1, <1>2, <1>10, <1>11 DEF LatchInv

\* The polls of the caller and of the session, and the watchdog's.
LEMMA PollStep ==
    ASSUME ApiInv,
           \/ \E l \in {"ack", "idr", "disc"} : PollStandalone(l)
           \/ \E l \in {"ack", "idr"} : PollSession(l)
           \/ PollWatchdogAction
    PROVE  ApiInv'
  <1>1. UNCHANGED <<q, shut, gens, rec, lease, thr, state, made, base, reconnect, hand, kept, flushed,
                    ended>>
    BY DEF PollStandalone, PollSession, PollWatchdogAction, apiQueue, apiLife, apiDog, apiPull
  <1>2. \E l \in Latches :
           /\ Take(l)
           /\ \/ /\ UNCHANGED sTook
                 /\ cTook' \in {cTook, [cTook EXCEPT ![l] = pend[l]]}
                 /\ lease = "active" => l \in Stages
              \/ /\ UNCHANGED cTook
                 /\ thr = "streaming"
                 /\ sTook' \in {sTook, [sTook EXCEPT ![l] = pend[l]]}
    <2>1. CASE \E l \in {"ack", "idr", "disc"} : PollStandalone(l)
      <3>1. PICK l \in {"ack", "idr", "disc"} : PollStandalone(l)
        BY <2>1
      <3>2. cTook' \in {cTook, [cTook EXCEPT ![l] = pend[l]]}
        BY <3>1 DEF PollStandalone, ApiInv, ApiTypes, Latches
      <3> QED
        BY <3>1, <3>2 DEF PollStandalone, Latches
    <2>2. CASE \E l \in {"ack", "idr"} : PollSession(l)
      <3>1. PICK l \in {"ack", "idr"} : PollSession(l)
        BY <2>2
      <3>2. sTook' \in {sTook, [sTook EXCEPT ![l] = pend[l]]}
        BY <3>1 DEF PollSession, ApiInv, ApiTypes, Latches
      <3> QED
        BY <3>1, <3>2 DEF PollSession, Latches
    <2>3. CASE PollWatchdogAction
      BY <2>3 DEF PollWatchdogAction, Latches, Stages
    <2> QED
      BY <2>1, <2>2, <2>3
  <1>3. /\ LatchInv'
        /\ pend' \in [Latches -> Nat] /\ cTook' \in [Latches -> Nat] /\ sTook' \in [Latches -> Nat]
    BY <1>1, <1>2, TakenOnce DEF ApiInv
  <1>4. ApiTypes'
    BY <1>1, <1>3 DEF ApiInv, ApiTypes
  <1> QED
    BY <1>1, <1>3, <1>4, LifeKept, PullKept DEF ApiInv

\* A watchdog stage acts.
LEMMA StageStep ==
    ASSUME ApiInv, NEW l \in Stages, StageActs(l)
    PROVE  ApiInv'
  <1>1. UNCHANGED <<q, shut, gens, rec, lease, thr, state, reconnect, hand, kept, flushed, ended>>
    BY DEF StageActs, apiQueue, apiLife, apiPull
  <1>2. /\ LatchInv' /\ pend' \in [Latches -> Nat] /\ made' \in Nat
        /\ UNCHANGED <<base, cTook, sTook>>
    BY <1>1, Latched DEF ApiInv, StageActs
  <1>3. ApiTypes'
    BY <1>1, <1>2 DEF ApiInv, ApiTypes
  <1> QED
    BY <1>1, <1>2, <1>3, LifeKept, PullKept DEF ApiInv

\* A part of the queue from some place on is as ordered as the whole.
LEMMA RestBehind ==
    ASSUME ApiTypes, NEW g \in Nat, ResetsBehind(g, q), NEW k \in 1..Len(q),
           NEW rest \in Seq(FQ!Event), Len(rest) = Len(q) - k,
           \A i \in 1..Len(rest) : rest[i] = q[k + i]
    PROVE  /\ ResetsBehind(g, rest)
           /\ q[k].kind = "disc" => ResetsBehind(q[k].gen, rest)
  <1>1. Len(q) \in Nat /\ Len(rest) \in Nat
    BY DEF ApiTypes
  <1>2. \A i \in 1..Len(rest) : k + i \in 1..Len(q) /\ k < k + i
    BY <1>1
  <1>3. \A i \in 1..Len(rest) :
           rest[i].kind = "disc" => g < rest[i].gen /\ rest[i].gen <= gens
    BY <1>2 DEF ResetsBehind
  <1>4. \A i, j \in 1..Len(rest) :
           (i < j /\ rest[i].kind = "disc" /\ rest[j].kind = "disc") => rest[i].gen < rest[j].gen
    <2> SUFFICES ASSUME NEW i \in 1..Len(rest), NEW j \in 1..Len(rest), i < j,
                        rest[i].kind = "disc", rest[j].kind = "disc"
                 PROVE  rest[i].gen < rest[j].gen
      OBVIOUS
    <2>1. k + i \in 1..Len(q) /\ k + j \in 1..Len(q) /\ k + i < k + j
      BY <1>1, <1>2
    <2> QED
      BY <2>1 DEF ResetsBehind
  <1>5. ASSUME q[k].kind = "disc"
        PROVE  \A i \in 1..Len(rest) : rest[i].kind = "disc" => q[k].gen < rest[i].gen
    BY <1>2, <1>5 DEF ResetsBehind
  <1> QED
    BY <1>3, <1>4, <1>5 DEF ResetsBehind

\* The decoder thread pops an event, or a frame with the resets in front of it.
LEMMA PopStep ==
    ASSUME ApiInv, PullEvent \/ PullFrame
    PROVE  ApiInv'
  <1>1. /\ hand = NoHandle /\ flushed \in Nat
        /\ UNCHANGED <<shut, gens, rec, lease, thr, state, pend, made, base, cTook, sTook, reconnect,
                       kept, flushed, ended>>
    BY DEF PullEvent, PullFrame, FQ!PopEvent, apiLife, apiLatch, apiDog, ApiInv, ApiTypes
  <1>2. q \in Seq(FQ!Event) /\ ResetsBehind(flushed, q)
    BY <1>1 DEF ApiInv, ApiTypes, PullInv, NoHandle
  <1>3. PICK k \in 1..Len(q) :
           /\ q' = SubSeq(q, k + 1, Len(q))
           /\ hand' = q[k] \/ hand' = NoHandle
    <2>1. CASE PullEvent
      <3>1. q # << >> /\ q' = Tail(q) /\ hand' = Head(q)
        BY <2>1 DEF PullEvent, FQ!PopEvent
      <3>2. 1 \in 1..Len(q) /\ Tail(q) = SubSeq(q, 1 + 1, Len(q)) /\ Head(q) = q[1]
        BY <1>2, <3>1
      <3> QED
        BY <3>1, <3>2
    <2>2. CASE PullFrame
      BY <2>2 DEF PullFrame
    <2> QED
      BY <2>1, <2>2
  <1>4. /\ q' \in Seq(FQ!Event) /\ Len(q') = Len(q) - k
        /\ \A i \in 1..Len(q') : q'[i] = q[k + i]
    BY <1>2, <1>3
  <1>5. q[k] \in FQ!Event
    BY <1>2
  <1>6. ResetsBehind(flushed, q') /\ (q[k].kind = "disc" => ResetsBehind(q[k].gen, q'))
    BY <1>1, <1>2, <1>4, RestBehind DEF ApiInv
  <1>7. q[k].kind = "disc" => flushed < q[k].gen /\ q[k].gen <= gens
    BY <1>2 DEF ResetsBehind
  <1>8. ApiTypes'
    BY <1>1, <1>3, <1>4, <1>5 DEF ApiInv, ApiTypes
  <1>9. PullInv'
    BY <1>1, <1>3, <1>6, <1>7 DEF ApiInv, PullInv, ResetsBehind, NoHandle
  <1> QED
    BY <1>1, <1>8, <1>9, LifeKept, LatchKept DEF ApiInv

\* The decoder thread lets go of what it holds.
LEMMA HandStep ==
    ASSUME ApiInv, RetainReset \/ DecodeKey \/ DropHandle
    PROVE  ApiInv'
  <1>1. /\ hand' = NoHandle /\ hand \in FQ!Event
        /\ UNCHANGED <<q, shut, gens, lease, thr, state, pend, made, base, cTook, sTook, reconnect>>
    BY DEF RetainReset, DecodeKey, DropHandle, FQ!AcknowledgeRecovery, apiQueue, apiLife, apiLatch,
       apiDog, ApiInv, ApiTypes, NoHandle
  <1>2. CASE RetainReset
    <2>1. /\ hand.kind = "disc" /\ kept' = [gen |-> hand.gen, epoch |-> hand.epoch]
          /\ flushed' = hand.gen /\ UNCHANGED <<rec, ended>>
      BY <1>2 DEF RetainReset, apiQueue
    <2>2. hand.gen \in Nat /\ hand.epoch \in Nat
      BY <1>1 DEF FQ!Event
    <2>3. ApiTypes'
      BY <1>1, <2>1, <2>2 DEF ApiInv, ApiTypes, Pairs
    <2>4. kept'.gen <= flushed' /\ flushed' <= gens' /\ ended' <= flushed'
      BY <1>1, <2>1, <2>2 DEF ApiInv, ApiTypes, PullInv
    <2>5. ResetsBehind(hand.gen, q)
      BY <2>1 DEF ApiInv, PullInv
    <2>6. ResetsBehind(flushed, q)'
      BY <1>1, <2>1, <2>5 DEF ResetsBehind
    <2>7. rec' # FQ!NoRecovery => rec'.gen = gens' /\ ended' < rec'.gen
      BY <1>1, <2>1 DEF ApiInv, PullInv
    <2>8. PullInv'
      <3>1. hand'.kind # "disc"
        BY <1>1 DEF NoHandle
      <3> QED
        BY <2>4, <2>6, <2>7, <3>1 DEF PullInv
    <2> QED
      BY <1>1, <2>3, <2>8, LifeKept, LatchKept DEF ApiInv
  <1>3. CASE DecodeKey
    <2>1. /\ hand.kind = "frame" /\ UNCHANGED <<kept, flushed>>
          /\ rec' = IF rec = [gen |-> kept.gen, epoch |-> kept.epoch] THEN FQ!NoRecovery ELSE rec
          /\ ended' = IF rec' # rec THEN rec.gen ELSE ended
      BY <1>3 DEF DecodeKey, FQ!AcknowledgeRecovery
    <2>2. rec' \in Pairs /\ ended' \in Nat
      BY <2>1 DEF ApiInv, ApiTypes, Pairs, FQ!NoRecovery
    <2>3. ApiTypes'
      BY <1>1, <2>1, <2>2 DEF ApiInv, ApiTypes
    <2>4. ended' <= flushed /\ (rec' # FQ!NoRecovery => rec'.gen = gens /\ ended' < rec'.gen)
      BY <2>1 DEF ApiInv, ApiTypes, PullInv, Pairs
    <2>5. PullInv'
      BY <1>1, <2>1, <2>4 DEF ApiInv, PullInv, ResetsBehind, NoHandle
    <2> QED
      BY <1>1, <2>3, <2>5, LifeKept, LatchKept DEF ApiInv
  <1>4. CASE DropHandle
    <2>1. hand.kind = "frame" /\ UNCHANGED <<rec, kept, flushed, ended>>
      BY <1>4 DEF DropHandle, apiQueue
    <2>2. ApiTypes' /\ PullInv'
      BY <1>1, <2>1 DEF ApiInv, ApiTypes, PullInv, ResetsBehind, NoHandle
    <2> QED
      BY <1>1, <2>2, LifeKept, LatchKept DEF ApiInv
  <1> QED
    BY <1>2, <1>3, <1>4

\* Every step keeps the invariant.
LEMMA ApiStep ==
    ASSUME ApiInv, [ApiNext]_apiVars
    PROVE  ApiInv'
  <1>1. CASE UNCHANGED apiVars
    <2>1. /\ UNCHANGED <<q, shut, gens, rec, lease, thr, state, pend, made, base, cTook, sTook>>
          /\ UNCHANGED <<reconnect, hand, kept, flushed, ended>>
      BY <1>1 DEF apiVars, apiQueue, apiLife, apiLatch, apiDog, apiPull
    <2>2. ApiTypes'
      BY <2>1 DEF ApiInv, ApiTypes
    <2> QED
      BY <2>1, <2>2, LifeKept, LatchKept, PullKept DEF ApiInv
  <1>2. CASE ApiNext
    BY <1>2, IngestStep, HandleStep, ThreadMoves, BeginSessionStep, PollStep, StageStep, PopStep,
       HandStep
    DEF ApiNext, OnStandalone, OnSession
  <1> QED
    BY <1>1, <1>2

\* A latched value is handed out once and only within its session, a terminal
\* state is shown last, and an acknowledgement closes only a recovery whose
\* reset the decoder was shown (capi.rs, SessionCleanup), for every queue
\* capacity, set of epochs and number of values.
THEOREM ApiPromises == ApiSpec => []ApiSound
  <1>1. ApiInit => ApiInv
    <2> SUFFICES ASSUME ApiInit PROVE ApiInv
      OBVIOUS
    <2>1. /\ q = << >> /\ gens = 0 /\ rec = FQ!NoRecovery
          /\ lease = "never" /\ thr = "none" /\ state = "Connecting" /\ reconnect = FALSE
          /\ pend = [l \in Latches |-> 0] /\ cTook = [l \in Latches |-> 0]
          /\ sTook = [l \in Latches |-> 0] /\ made = 0 /\ base = 0
          /\ hand = NoHandle /\ kept = FQ!NoRecovery /\ flushed = 0 /\ ended = 0
      BY DEF ApiInit, FQ!QueueInit
    <2>2. rec \in Pairs /\ rec.gen = 0
      BY <2>1 DEF FQ!NoRecovery, Pairs
    <2>3. ApiTypes
      BY <2>1, <2>2 DEF ApiTypes, Threads
    <2>4. LifeInv
      BY <2>1 DEF LifeInv, TerminalStateLast, Readback
    <2>5. LatchInv
      BY <2>1 DEF LatchInv, LatchesHandedOnce
    <2>6. PullInv
      BY <2>1, <2>2 DEF PullInv, ResetsBehind, NoHandle
    <2> QED
      BY <2>3, <2>4, <2>5, <2>6 DEF ApiInv
  <1>2. ApiInv => ApiSound
    BY DEF ApiInv, LifeInv, LatchInv, PullInv, ApiSound, AckOnlyWhatWasShown
  <1> QED
    BY <1>1, <1>2, ApiStep, PTL DEF ApiSpec

(***************************************************************************)
(* The audio path.  The samples between decoder and device stay whole      *)
(* frames because every length in it is a multiple of the channel count of *)
(* the open sink; the indicator is true because the render thread reports  *)
(* its failure and the loss of its sink in one step.                       *)
(***************************************************************************)

Whole(n, c) == \E k \in Nat : n = k * c

\* Multiples of the channel count: sums, what is left of a smaller multiple,
\* and the remainder the property looks at.
LEMMA WholeSum ==
    ASSUME NEW c \in Nat, NEW m \in Nat, NEW n \in Nat, Whole(m, c), Whole(n, c)
    PROVE  Whole(m + n, c)
  <1>1. PICK j \in Nat : m = j * c
    BY DEF Whole
  <1>2. PICK k \in Nat : n = k * c
    BY DEF Whole
  <1>3. j + k \in Nat /\ m + n = (j + k) * c
    BY <1>1, <1>2
  <1> QED
    BY <1>3 DEF Whole

LEMMA WholeRest ==
    ASSUME NEW c \in Nat, NEW n \in Nat, NEW k \in Nat, Whole(n, c), k * c <= n
    PROVE  Whole(n - k * c, c)
  <1>1. PICK j \in Nat : n = j * c
    BY DEF Whole
  <1>2. CASE k <= j
    <2>1. j - k \in Nat /\ n - k * c = (j - k) * c
      BY <1>1, <1>2
    <2> QED
      BY <2>1 DEF Whole
  <1>3. CASE j < k
    <2>1. PICK d \in Nat : k = j + d
      <3>1. k - j \in Nat /\ k = j + (k - j)
        BY <1>3
      <3> QED
        BY <3>1
    <2>2. d * c \in Nat /\ k * c = j * c + d * c /\ j * c \in Nat
      BY <2>1
    <2>3. n - k * c = 0 * c
      BY <1>1, <2>2
    <2> QED
      BY <2>3 DEF Whole
  <1> QED
    BY <1>2, <1>3

LEMMA WholeRemainder ==
    ASSUME NEW c \in Nat \ {0}, NEW n \in Nat, Whole(n, c)
    PROVE  n % c = 0
  <1>1. PICK k \in Nat : n = k * c
    BY DEF Whole
  <1>2. PICK whole \in Int, r \in Int : n = c * whole + r /\ 0 <= r /\ r < c /\ r = n % c
    <2>1. n = c * (n \div c) + (n % c) /\ 0 <= n % c /\ n % c < c /\ n \div c \in Int /\ n % c \in Int
      OBVIOUS
    <2> QED
      BY <2>1
  <1>3. PICK d \in Int : d = k - whole
    OBVIOUS
  <1>4. c * d = r
    BY <1>1, <1>2, <1>3
  <1>5. CASE d >= 1
    <2>1. c * d >= c
      BY <1>5
    <2> QED
      BY <2>1, <1>4, <1>2
  <1>6. CASE d <= 0 - 1
    <2>1. c * d <= 0 - c
      BY <1>6
    <2> QED
      BY <2>1, <1>4, <1>2
  <1>7. CASE d = 0
    BY <1>7, <1>4, <1>2
  <1> QED
    BY <1>5, <1>6, <1>7

Decoders == {0, 1, 2, 6}

AudioTypes ==
    /\ dec \in Decoders /\ negotiated \in Decoders /\ fifo \in Nat /\ packets \in Nat
    /\ format \in [rate : Nat, ch : Nat]
    /\ sink \in {"none", "live", "dead"} /\ delayed \in BOOLEAN /\ retryDue \in BOOLEAN
    /\ born \in BOOLEAN /\ renderFailed \in BOOLEAN /\ quit \in BOOLEAN

SamplesInv == sink # "none" => format.ch # 0 /\ Whole(fifo, format.ch)

ThreadsInv ==
    /\ audioMode \in {"start", "shared", "exclusive", "done"}
    /\ audioMode = "start" => render = "none" /\ ~renderFailed
    /\ render = "running" => audioMode = "exclusive" /\ ~renderFailed
    /\ audioMode = "exclusive" =>
          IF renderFailed THEN uiState = "failed" /\ sink = "none"
          ELSE uiState = "running" /\ sink # "none"
    /\ audioMode = "shared" =>
          /\ uiState = "running" => sink # "none"
          /\ uiState = "failed" /\ born => sink = "none"
    /\ audioMode # "start" /\ born => dec # 0

AudioInv == AudioTypes /\ SamplesInv /\ ThreadsInv

\* Every packet becomes whole frames of the sink, at every pair of channel
\* counts and at every rate, and every limit is a whole number of them.
LEMMA MappedChannels ==
    ASSUME NEW s \in Decoders \ {0}, NEW c \in Nat \ {0}
    PROVE  MapChannels(s, c) = c
  <1> USE DEF Decoders
  <1>1. CASE s = c
    BY <1>1 DEF MapChannels
  <1>2. CASE s # c /\ s = 1
    BY <1>2 DEF MapChannels
  <1>3. CASE s # c /\ s = 2
    BY <1>3 DEF MapChannels
  <1>4. CASE s # c /\ s = 6
    BY <1>4 DEF MapChannels
  <1> QED
    BY <1>1, <1>2, <1>3, <1>4

LEMMA ConvertedWhole ==
    ASSUME NEW s \in Decoders \ {0}, NEW f \in [rate : Nat, ch : Nat \ {0}]
    PROVE  ConvertedLength(s, f) \in Nat /\ Whole(ConvertedLength(s, f), f.ch)
  <1>1. MapChannels(s, f.ch) = f.ch
    BY MappedChannels
  <1>2. SourceRate \in Nat \ {0} /\ PacketFrames \in Nat
    BY AudioAssumption
  <1>3. PICK n \in Nat : n = IF f.rate = SourceRate THEN PacketFrames
                             ELSE (PacketFrames * f.rate) \div SourceRate
    <2>1. PacketFrames * f.rate \in Nat
      BY <1>2
    <2>2. (PacketFrames * f.rate) \div SourceRate \in Nat
      BY <2>1, <1>2
    <2> QED
      BY <2>2, <1>2
  <1>4. ConvertedLength(s, f) = n * f.ch
    BY <1>1, <1>3 DEF ConvertedLength
  <1> QED
    BY <1>4 DEF Whole

LEMMA LimitsWhole ==
    ASSUME AudioTypes, NEW f \in [rate : Nat, ch : Nat]
    PROVE  /\ DebugDelaySamples(f) \in Nat /\ Whole(DebugDelaySamples(f), f.ch)
           /\ SharedCap(f) \in Nat /\ Whole(SharedCap(f), f.ch)
           /\ ExclusiveCap(f) \in Nat /\ Whole(ExclusiveCap(f), f.ch)
  <1>1. PICK a \in Nat : a = f.rate \div 4
    OBVIOUS
  <1>2. PICK b \in Nat : b = f.rate \div 8
    OBVIOUS
  <1>3. a * f.ch \in Nat /\ b * f.ch \in Nat /\ Whole(a * f.ch, f.ch) /\ Whole(b * f.ch, f.ch)
    BY DEF Whole
  <1>4. 0 \in Nat /\ Whole(0, f.ch)
    BY DEF Whole
  <1>5. DebugDelaySamples(f) \in Nat /\ Whole(DebugDelaySamples(f), f.ch)
    BY <1>1, <1>3, <1>4 DEF DebugDelaySamples
  <1>6. SharedCap(f) = a * f.ch + DebugDelaySamples(f)
    BY <1>1 DEF SharedCap
  <1>7. ExclusiveCap(f) = b * f.ch + DebugDelaySamples(f)
    BY <1>2 DEF ExclusiveCap
  <1>8. f.ch \in Nat
    OBVIOUS
  <1>9. Whole(SharedCap(f), f.ch)
    BY <1>3, <1>5, <1>6, <1>8, WholeSum
  <1>10. Whole(ExclusiveCap(f), f.ch)
    BY <1>3, <1>5, <1>7, <1>8, WholeSum
  <1> QED
    BY <1>3, <1>5, <1>6, <1>7, <1>9, <1>10

\* A packet leaves whole frames behind, and never takes a decoder away.
LEMMA PacketWhole ==
    ASSUME AudioInv, NEW cap \in Nat, Whole(cap, format.ch), NEW n, NEW d,
           DecodePacket(cap, n, d) \/ NoPacket(n, d)
    PROVE  /\ n \in Nat /\ d \in Decoders /\ packets' \in Nat
           /\ sink # "none" => Whole(n, format.ch)
           /\ dec # 0 => d # 0
           /\ sink = "none" => n = fifo
  <1> USE DEF Decoders
  <1>1. /\ d \in Decoders /\ (dec # 0 => d # 0) /\ packets' \in Nat
        /\ n = fifo \/ (d # 0 /\ sink # "none" /\ n = DropOldest(fifo + ConvertedLength(d, format), cap))
    BY DEF AudioInv, AudioTypes, DecodePacket, NoPacket, MaybeReopenDecoder, OpenDecoder
  <1>2. fifo \in Nat /\ format \in [rate : Nat, ch : Nat] /\ format.ch \in Nat
    BY DEF AudioInv, AudioTypes
  <1>3. sink # "none" => format \in [rate : Nat, ch : Nat \ {0}] /\ Whole(fifo, format.ch)
    BY <1>2 DEF AudioInv, SamplesInv
  <1>4. CASE n = fifo
    BY <1>1, <1>2, <1>3, <1>4
  <1>5. CASE d # 0 /\ sink # "none" /\ n = DropOldest(fifo + ConvertedLength(d, format), cap)
    <2>1. d \in Decoders \ {0} /\ format \in [rate : Nat, ch : Nat \ {0}] /\ Whole(fifo, format.ch)
      BY <1>1, <1>3, <1>5
    <2>2. ConvertedLength(d, format) \in Nat /\ Whole(ConvertedLength(d, format), format.ch)
      BY <2>1, ConvertedWhole
    <2>3. Whole(fifo + ConvertedLength(d, format), format.ch)
      BY <1>2, <2>1, <2>2, WholeSum
    <2>4. n \in {fifo + ConvertedLength(d, format), cap}
      BY <1>5 DEF DropOldest
    <2> QED
      BY <1>1, <1>2, <1>5, <2>2, <2>3, <2>4
  <1> QED
    BY <1>1, <1>4, <1>5

\* A sink that comes up starts with whole frames, one that goes has none.
LEMMA SinkUpStep ==
    ASSUME AudioTypes, NEW f \in [rate : DeviceRates, ch : Nat \ {0}], SinkUp(f)
    PROVE  /\ sink' = "live" /\ format' \in [rate : Nat, ch : Nat] /\ fifo' \in Nat
           /\ SamplesInv'
  <1>1. f \in [rate : Nat, ch : Nat] /\ f.ch # 0
    BY AudioAssumption
  <1>2. DebugDelaySamples(f) \in Nat /\ Whole(DebugDelaySamples(f), f.ch)
    BY <1>1, LimitsWhole
  <1> QED
    BY <1>1, <1>2 DEF SinkUp, SamplesInv

LEMMA SinkDownStep ==
    ASSUME NEW n \in Nat, SinkDown(n)
    PROVE  /\ sink' = "none" /\ format' \in [rate : Nat, ch : Nat] /\ fifo' \in Nat
           /\ SamplesInv'
  BY DEF SinkDown, NoFormat, SamplesInv

LEMMA EnterSharedStep ==
    ASSUME AudioTypes, NEW d \in Decoders, EnterShared(d)
    PROVE  /\ audioMode' = "shared" /\ retryDue' = TRUE
           /\ sink' \in {"none", "live"} /\ format' \in [rate : Nat, ch : Nat] /\ fifo' \in Nat
           /\ SamplesInv'
           /\ uiState' = "running" => sink' # "none"
           /\ uiState' = "failed" /\ d # 0 => sink' = "none"
  <1>1. CASE (\E f \in Formats : SinkUp(f)) /\ uiState' = IF d # 0 THEN "running" ELSE "failed"
    <2>1. PICK f \in Formats : SinkUp(f)
      BY <1>1
    <2>2. f \in [rate : DeviceRates, ch : Nat \ {0}]
      BY AudioAssumption DEF Formats
    <2>3. /\ sink' = "live" /\ format' \in [rate : Nat, ch : Nat] /\ fifo' \in Nat
          /\ SamplesInv'
      BY <2>1, <2>2, SinkUpStep
    <2> QED
      BY <1>1, <2>3 DEF EnterShared
  <1>2. CASE SinkDown(0) /\ uiState' = "failed"
    <2>1. /\ sink' = "none" /\ format' \in [rate : Nat, ch : Nat] /\ fifo' \in Nat
          /\ SamplesInv'
      BY <1>2, SinkDownStep
    <2> QED
      BY <1>2, <2>1 DEF EnterShared
  <1> QED
    BY <1>1, <1>2 DEF EnterShared

LEMMA RunStep ==
    ASSUME AudioInv, Run
    PROVE  AudioInv'
  <1>1. dec' \in Decoders /\ (born' <=> dec' # 0) /\ born' \in BOOLEAN /\ audioMode = "start"
    BY DEF Run, OpenDecoder, AudioInv, AudioTypes, Decoders
  <1>2. /\ UNCHANGED <<renderFailed, packets, audioClosed, quit, negotiated, endpoint, delayed>>
        /\ render = "none" /\ ~renderFailed /\ AudioTypes
    BY <1>1 DEF Run, AudioInv, ThreadsInv
  <1>3. CASE EnterShared(dec') /\ UNCHANGED render
    <2>1. /\ audioMode' = "shared" /\ retryDue' = TRUE
          /\ sink' \in {"none", "live"} /\ format' \in [rate : Nat, ch : Nat] /\ fifo' \in Nat
          /\ SamplesInv'
          /\ uiState' = "running" => sink' # "none"
          /\ uiState' = "failed" /\ dec' # 0 => sink' = "none"
      BY <1>1, <1>2, <1>3, EnterSharedStep
    <2> QED
      BY <1>1, <1>2, <1>3, <2>1 DEF AudioInv, AudioTypes, ThreadsInv
  <1>4. CASE /\ audioMode' = "exclusive"
             /\ \E r \in DeviceRates : SinkUp([rate |-> r, ch |-> 2])
             /\ uiState' = "running" /\ render' = "running"
             /\ UNCHANGED retryDue
    <2>1. PICK r \in DeviceRates : SinkUp([rate |-> r, ch |-> 2])
      BY <1>4
    <2>2. [rate |-> r, ch |-> 2] \in [rate : DeviceRates, ch : Nat \ {0}]
      OBVIOUS
    <2>3. /\ sink' = "live" /\ format' \in [rate : Nat, ch : Nat] /\ fifo' \in Nat
          /\ SamplesInv'
      BY <1>2, <2>1, <2>2, SinkUpStep
    <2> QED
      BY <1>1, <1>2, <1>4, <2>3 DEF AudioInv, AudioTypes, ThreadsInv
  <1> QED
    BY <1>3, <1>4 DEF Run

\* One pass of the shared loop: the fill takes whole frames.
LEMMA SharedPass ==
    ASSUME AudioInv, SharedIteration
    PROVE  AudioInv'
  <1>1. PICK d \in {0, 1, 2, 6},
             n \in 0 .. fifo + (IF sink = "none" THEN 0 ELSE ConvertedLength(6, format)) :
          /\ DecodePacket(SharedCap(format), n, d) \/ NoPacket(n, d)
          /\ dec' = d /\ FillAndRebuild(n, d)
    BY DEF SharedIteration
  <1>2. /\ AudioTypes /\ audioMode = "shared" /\ format \in [rate : Nat, ch : Nat]
        /\ render # "running"
        /\ UNCHANGED <<audioMode, render, renderFailed, audioClosed, quit, negotiated, endpoint,
                       delayed, deviceEvents, born>>
    BY DEF AudioInv, AudioTypes, ThreadsInv, SharedIteration
  <1>3. SharedCap(format) \in Nat /\ Whole(SharedCap(format), format.ch)
    BY <1>2, LimitsWhole
  <1>4. /\ n \in Nat /\ d \in Decoders /\ packets' \in Nat
        /\ sink # "none" => Whole(n, format.ch)
        /\ dec # 0 => d # 0
    BY <1>1, <1>3, PacketWhole
  <1>5. CASE /\ sink = "live"
             /\ \E k \in 0 .. n \div format.ch : fifo' = n - k * format.ch
             /\ UNCHANGED <<sink, format, retryDue, uiState>>
    <2>1. format.ch \in Nat \ {0} /\ Whole(n, format.ch)
      BY <1>2, <1>4, <1>5 DEF AudioInv, SamplesInv
    <2>2. PICK k \in 0 .. n \div format.ch : fifo' = n - k * format.ch
      BY <1>5
    <2>3. k \in Nat /\ k * format.ch <= n
      <3>1. PICK whole \in Nat, c \in Nat : c = format.ch /\ whole = n \div c /\ whole * c <= n
        <4>1. n \div format.ch \in Nat /\ (n \div format.ch) * format.ch <= n
          BY <2>1, <1>4
        <4> QED
          BY <2>1, <4>1
      <3>2. k \in Nat /\ k <= whole
        BY <2>2, <3>1
      <3>3. k * c <= whole * c
        BY <3>1, <3>2
      <3> QED
        BY <3>1, <3>2, <3>3, <1>4
    <2>4. Whole(n - k * format.ch, format.ch)
      BY <1>4, <2>1, <2>3, WholeRest
    <2>5. fifo' \in Nat
      <3>1. k * format.ch \in Nat
        BY <2>1, <2>3
      <3> QED
        BY <1>4, <2>2, <2>3, <3>1
    <2>6. SamplesInv'
      BY <1>5, <2>1, <2>2, <2>4 DEF SamplesInv
    <2> QED
      BY <1>1, <1>2, <1>4, <1>5, <2>5, <2>6 DEF AudioInv, AudioTypes, ThreadsInv
  <1>6. CASE sink = "dead" /\ SinkDown(0) /\ uiState' = "failed" /\ retryDue' = FALSE
    <2>1. sink' = "none" /\ format' \in [rate : Nat, ch : Nat] /\ fifo' \in Nat /\ SamplesInv'
      BY <1>6, SinkDownStep
    <2> QED
      BY <1>1, <1>2, <1>4, <1>6, <2>1 DEF AudioInv, AudioTypes, ThreadsInv
  <1>7. CASE /\ sink = "none" /\ d # 0 /\ retryDue
             /\ (\E f \in Formats : SinkUp(f)) /\ uiState' = "running" /\ UNCHANGED retryDue
    <2>1. PICK f \in Formats : SinkUp(f)
      BY <1>7
    <2>2. f \in [rate : DeviceRates, ch : Nat \ {0}]
      BY AudioAssumption DEF Formats
    <2>3. sink' = "live" /\ format' \in [rate : Nat, ch : Nat] /\ fifo' \in Nat /\ SamplesInv'
      BY <1>2, <2>1, <2>2, SinkUpStep
    <2> QED
      BY <1>1, <1>2, <1>4, <1>7, <2>3 DEF AudioInv, AudioTypes, ThreadsInv
  <1>8. CASE /\ sink = "none" /\ SinkDown(n) /\ UNCHANGED uiState
             /\ retryDue' = FALSE \/ UNCHANGED retryDue
    <2>1. sink' = "none" /\ format' \in [rate : Nat, ch : Nat] /\ fifo' \in Nat /\ SamplesInv'
      BY <1>4, <1>8, SinkDownStep
    <2> QED
      BY <1>1, <1>2, <1>4, <1>8, <2>1 DEF AudioInv, AudioTypes, ThreadsInv
  <1> QED
    BY <1>1, <1>5, <1>6, <1>7, <1>8 DEF FillAndRebuild

\* The exclusive producer, its fallback and its end.
LEMMA ExclusiveSteps ==
    ASSUME AudioInv, ExclusiveIteration \/ ExclusiveFallback \/ ExclusiveStop \/ SharedStop
    PROVE  AudioInv'
  <1>1. CASE ExclusiveIteration
    <2>1. PICK d \in {0, 1, 2, 6}, n \in 0 .. fifo + ConvertedLength(6, format) :
             /\ DecodePacket(ExclusiveCap(format), n, d) \/ NoPacket(n, d)
             /\ dec' = d /\ fifo' = n
      BY <1>1 DEF ExclusiveIteration
    <2>2. /\ AudioTypes /\ format \in [rate : Nat, ch : Nat]
          /\ UNCHANGED <<audioMode, sink, format, retryDue, uiState, render, renderFailed,
                         audioClosed, quit, negotiated, endpoint, delayed, deviceEvents, born>>
      BY <1>1 DEF AudioInv, AudioTypes, ExclusiveIteration
    <2>3. ExclusiveCap(format) \in Nat /\ Whole(ExclusiveCap(format), format.ch)
      BY <2>2, LimitsWhole
    <2>4. /\ n \in Nat /\ d \in Decoders /\ packets' \in Nat
          /\ sink # "none" => Whole(n, format.ch)
          /\ dec # 0 => d # 0
      BY <2>1, <2>3, PacketWhole
    <2> QED
      BY <2>1, <2>2, <2>4 DEF AudioInv, AudioTypes, SamplesInv, ThreadsInv
  <1>2. CASE ExclusiveFallback
    <2>1. AudioTypes /\ dec \in Decoders /\ EnterShared(dec)
      BY <1>2 DEF ExclusiveFallback, AudioInv, AudioTypes
    <2>2. /\ audioMode' = "shared" /\ retryDue' = TRUE
          /\ sink' \in {"none", "live"} /\ format' \in [rate : Nat, ch : Nat] /\ fifo' \in Nat
          /\ SamplesInv'
          /\ uiState' = "running" => sink' # "none"
          /\ uiState' = "failed" /\ dec # 0 => sink' = "none"
      BY <2>1, EnterSharedStep
    <2> QED
      BY <1>2, <2>2 DEF ExclusiveFallback, AudioInv, AudioTypes, ThreadsInv
  <1>3. CASE ExclusiveStop \/ SharedStop
    <2>1. /\ audioMode' = "done" /\ SinkDown(0) /\ render # "running"
          /\ UNCHANGED <<dec, retryDue, uiState, packets, render, renderFailed, quit, negotiated,
                         delayed, born>>
          /\ audioMode # "start"
      BY <1>3 DEF ExclusiveStop, SharedStop, Leave, AudioInv, ThreadsInv
    <2>2. sink' = "none" /\ format' \in [rate : Nat, ch : Nat] /\ fifo' \in Nat /\ SamplesInv'
      BY <2>1, SinkDownStep
    <2> QED
      BY <2>1, <2>2 DEF AudioInv, AudioTypes, ThreadsInv
  <1> QED
    BY <1>1, <1>2, <1>3

\* The render thread takes whole frames, and its failure is seen by the UI.
LEMMA RenderSteps ==
    ASSUME AudioInv, RenderFill \/ RenderFails \/ RenderStops
    PROVE  AudioInv'
  <1>1. CASE RenderFill
    <2>1. /\ format.ch \in Nat /\ fifo \in Nat /\ Whole(fifo, format.ch)
      BY <1>1 DEF RenderFill, AudioInv, AudioTypes, SamplesInv
    <2>2. PICK k \in 1 .. 2 : fifo' = IF fifo > k * format.ch THEN fifo - k * format.ch ELSE 0
      BY <1>1 DEF RenderFill
    <2>3. fifo' \in Nat /\ Whole(fifo', format.ch)
      <3>1. CASE fifo > k * format.ch
        <4>1. k \in Nat /\ k * format.ch \in Nat /\ k * format.ch <= fifo
          BY <2>1, <3>1
        <4>2. Whole(fifo - k * format.ch, format.ch)
          BY <2>1, <4>1, WholeRest
        <4> QED
          BY <2>1, <2>2, <3>1, <4>1, <4>2
      <3>2. CASE ~(fifo > k * format.ch)
        <4>1. fifo' = 0 /\ 0 = 0 * format.ch
          BY <2>1, <2>2, <3>2
        <4> QED
          BY <4>1 DEF Whole
      <3> QED
        BY <3>1, <3>2
    <2> QED
      BY <1>1, <2>3 DEF RenderFill, AudioInv, AudioTypes, SamplesInv, ThreadsInv
  <1>2. CASE RenderFails
    <2>1. sink' = "none" /\ format' \in [rate : Nat, ch : Nat] /\ fifo' \in Nat /\ SamplesInv'
      BY <1>2, SinkDownStep DEF RenderFails, AudioInv, AudioTypes
    <2> QED
      BY <1>2, <2>1 DEF RenderFails, AudioInv, AudioTypes, ThreadsInv
  <1>3. CASE RenderStops
    BY <1>3 DEF RenderStops, AudioInv, AudioTypes, SamplesInv, ThreadsInv
  <1> QED
    BY <1>1, <1>2, <1>3

\* The queue, the shell, the clock and the device.
LEMMA AroundSteps ==
    ASSUME AudioInv,
           Push \/ SetAudioChannels \/ SetStopped \/ CloseCore \/ RetryElapses \/ DeviceChanges
    PROVE  AudioInv'
  <1>1. CASE Push
    BY <1>1, AudioAssumption DEF Push, AudioInv, AudioTypes, SamplesInv, ThreadsInv
  <1>2. CASE SetAudioChannels
    BY <1>2 DEF SetAudioChannels, AudioInv, AudioTypes, SamplesInv, ThreadsInv, Decoders
  <1>3. CASE SetStopped
    BY <1>3 DEF SetStopped, AudioInv, AudioTypes, SamplesInv, ThreadsInv
  <1>4. CASE CloseCore
    BY <1>4 DEF CloseCore, AudioInv, AudioTypes, SamplesInv, ThreadsInv
  <1>5. CASE RetryElapses
    BY <1>5 DEF RetryElapses, AudioInv, AudioTypes, SamplesInv, ThreadsInv
  <1>6. CASE DeviceChanges
    BY <1>6 DEF DeviceChanges, AudioInv, AudioTypes, SamplesInv, ThreadsInv
  <1> QED
    BY <1>1, <1>2, <1>3, <1>4, <1>5, <1>6

LEMMA AudioStart == AudioInit => AudioInv
  <1> SUFFICES ASSUME AudioInit PROVE AudioInv
    OBVIOUS
  <1>1. /\ dec \in Decoders /\ negotiated \in Decoders /\ fifo \in Nat /\ packets \in Nat
        /\ format \in [rate : Nat, ch : Nat] /\ sink \in {"none", "live", "dead"}
    BY DEF AudioInit, Decoders, NoFormat
  <1>2. /\ delayed \in BOOLEAN /\ retryDue \in BOOLEAN /\ born \in BOOLEAN
        /\ renderFailed \in BOOLEAN /\ quit \in BOOLEAN
    BY Zenon DEF AudioInit
  <1>3. SamplesInv /\ ThreadsInv
    BY DEF AudioInit, SamplesInv, ThreadsInv
  <1> QED
    BY <1>1, <1>2, <1>3 DEF AudioInv, AudioTypes

\* Samples stay whole frames of the open device and the indicator tells the
\* truth, through lost devices, fallbacks and reopened decoders (audio.rs),
\* for every packet length, source rate and set of device formats.
THEOREM HonestPlayout == AudioSpec => []PlayoutHonest
  <1>1. AudioInv => PlayoutHonest
    <2> SUFFICES ASSUME AudioInv PROVE PlayoutHonest
      OBVIOUS
    <2>1. InterleaveKept
      <3> SUFFICES ASSUME sink # "none" PROVE fifo % format.ch = 0
        BY DEF InterleaveKept
      <3>1. format.ch \in Nat \ {0} /\ fifo \in Nat /\ Whole(fifo, format.ch)
        BY DEF AudioInv, AudioTypes, SamplesInv
      <3> QED
        BY <3>1, WholeRemainder
    <2>2. UiTellsTheTruth
      BY DEF UiTellsTheTruth, AudioInv, ThreadsInv
    <2> QED
      BY <2>1, <2>2 DEF PlayoutHonest
  <1>2. AudioInv /\ [AudioNext]_audioVars => AudioInv'
    <2> SUFFICES ASSUME AudioInv, [AudioNext]_audioVars PROVE AudioInv'
      OBVIOUS
    <2>1. CASE AudioNext
      BY <2>1, RunStep, SharedPass, ExclusiveSteps, RenderSteps, AroundSteps DEF AudioNext
    <2>2. CASE UNCHANGED audioVars
      BY <2>2 DEF audioVars, AudioInv, AudioTypes, SamplesInv, ThreadsInv
    <2> QED
      BY <2>1, <2>2
  <1> QED
    BY <1>1, <1>2, AudioStart, PTL DEF AudioSpec

(***************************************************************************)
(* Desktop control.  That the newest claim wins needs how far the claims   *)
(* in flight and the one that was heard may lag (less than half the ring), *)
(* which makes the comparison on the ring the order of the claims.  That   *)
(* the client ends up with the host's mode needs the states in between:    *)
(* there is a way from the applied mode to the one the host drives, one    *)
(* step for each answer on its way.                                        *)
(***************************************************************************)

Half == GenMod \div 2
Pointers == [lease : Int, owner : {"host", "client"}, latest : Nat, applied : Nat, drawn : Nat]
DeskModes == [out : Int, size : {"none", "full", "keep", "lower"}]
Selections == [applied : DeskModes, pending : DeskModes]
Replies == [kind : {"result", "removed"}, mode : DeskModes, status : {"applied", "downgraded", "rejected"}]
Phases == {"none", "offered", "accepted", "complete", "cancelled"}

CursorTypes ==
    /\ claims \in Seq({"host", "client"}) /\ envelopes \subseteq Nat /\ heard \in Nat
    /\ pointer \in [native : Pointers, browser : Pointers]

DisplayTypes ==
    /\ display \in [plugged : SUBSET DeskOutputs, mode : DeskModes]
    /\ selection \in [native : Selections, browser : Selections]
    /\ asked \in Seq(Modes) /\ answered \in Seq(Replies) /\ moves \in Nat

FileTypes ==
    /\ transfer \in [phase : Phases, total : Nat, received : Nat]
    /\ disk \in Seq(Int) /\ consent \in BOOLEAN

\* Claims on their way and the one heard are less than half the ring behind,
\* and the lease is the generation of the one heard.
ClaimsInv ==
    /\ heard <= Len(claims) /\ (heard # 0 => Len(claims) - heard < Half)
    /\ \A n \in envelopes : n \in 1 .. Len(claims) /\ Len(claims) - n < Half
    /\ pointer.native.lease = IF heard = 0 THEN NoGen ELSE heard % GenMod
    /\ pointer.native.owner = IF heard = 0 THEN "host" ELSE claims[heard]
    /\ pointer.native.applied # 0 => pointer.native.drawn = pointer.native.applied
    /\ pointer.native = pointer.browser

\* What an answer makes of the mode the client takes for applied.
Heard(m, a) ==
    IF a.kind = "result" THEN IF a.status = "rejected" THEN m ELSE a.mode
    ELSE IF m.out = a.mode.out THEN NoMode ELSE m

\* A mode on an output that is gone has its notice still to come.
Noticed(m, k) ==
    m # NoMode /\ m.out \notin display.plugged \cup {0} =>
        \E j \in (k + 1) .. Len(answered) : answered[j].kind = "removed" /\ answered[j].mode.out = m.out

Leads(way) ==
    /\ way[0] = selection.native.applied /\ way[Len(answered)] = display.mode
    /\ \A k \in 0 .. Len(answered) - 1 : way[k + 1] = Heard(way[k], answered[k + 1])
    /\ \A k \in 0 .. Len(answered) : Noticed(way[k], k)

\* A notice names an output; a request that is pending is on its way, or its answer is.
ReplyFacts ==
    /\ \A k \in 1 .. Len(answered) : answered[k].kind = "removed" => answered[k].mode.out \in DeskOutputs
    /\ \/ selection.native.pending = NoMode \/ asked # <<>>
       \/ \E k \in 1 .. Len(answered) : answered[k].kind = "result"

AnswersInv ==
    /\ \E way \in [Nat -> DeskModes] : Leads(way)
    /\ ReplyFacts /\ selection.native = selection.browser

FileInv ==
    /\ Len(disk) = transfer.received /\ transfer.received <= transfer.total
    /\ transfer.phase \in {"offered", "accepted"} => transfer.total <= Quota
    /\ transfer.received # 0 => transfer.total <= Quota
    /\ transfer.phase = "none" => transfer.received = 0
    /\ transfer.phase \in {"accepted", "complete"} => consent
    /\ transfer.phase = "complete" => disk = WholeFile

DesktopInv ==
    /\ lane \in {"cursor", "display", "file"}
    /\ CursorTypes /\ ClaimsInv /\ DisplayTypes /\ AnswersInv /\ FileTypes /\ FileInv

USE DEF Pointers, Selections, Replies, Phases, NoGen, NoMode, Mode, DeskModes

LEMMA CursorTypesKept == ASSUME CursorTypes, UNCHANGED cursorLane PROVE CursorTypes'
  <1> HIDE DEF Pointers
  <1> QED
    BY Zenon DEF CursorTypes, cursorLane

LEMMA DisplayTypesKept == ASSUME DisplayTypes, UNCHANGED displayLane PROVE DisplayTypes'
  <1> HIDE DEF DeskModes, Selections, Replies
  <1> QED
    BY Zenon DEF DisplayTypes, displayLane

LEMMA FileTypesKept == ASSUME FileTypes, UNCHANGED fileLane PROVE FileTypes'
  BY Zenon DEF FileTypes, fileLane

LEMMA ClaimsKept == ASSUME ClaimsInv, UNCHANGED cursorLane PROVE ClaimsInv'
  BY DEF ClaimsInv, cursorLane

LEMMA AnswersKept == ASSUME AnswersInv, UNCHANGED displayLane PROVE AnswersInv'
  <1>1. \A way : Leads(way) => Leads(way)'
    BY DEF Leads, Noticed, Heard, displayLane
  <1> QED
    BY <1>1 DEF AnswersInv, ReplyFacts, displayLane

LEMMA FileKept == ASSUME FileInv, UNCHANGED fileLane PROVE FileInv'
  BY DEF FileInv, fileLane, WholeFile

\* ------------------------------------------------------------ the ring

\* A remainder is the only one.
LEMMA OneRemainder ==
    ASSUME NEW g \in Nat \ {0}, NEW n \in Int, NEW k \in Int, NEW r \in Int,
           n = g * k + r, 0 <= r, r < g
    PROVE  n % g = r
  <1>1. PICK whole \in Int, rest \in Int : n = g * whole + rest /\ 0 <= rest /\ rest < g /\ rest = n % g
    <2>1. n = g * (n \div g) + (n % g) /\ 0 <= n % g /\ n % g < g /\ n \div g \in Int /\ n % g \in Int
      OBVIOUS
    <2> QED
      BY <2>1
  <1>2. PICK d \in Int : d = whole - k
    OBVIOUS
  <1>3. g * d = r - rest
    BY <1>1, <1>2
  <1>4. CASE d >= 1
    <2>1. g * d >= g
      BY <1>4
    <2> QED
      BY <2>1, <1>3, <1>1
  <1>5. CASE d <= 0 - 1
    <2>1. g * d <= 0 - g
      BY <1>5
    <2> QED
      BY <2>1, <1>3, <1>1
  <1>6. CASE d = 0
    <2>1. g * d = 0
      BY <1>6
    <2>2. rest = r
      BY <2>1, <1>3
    <2>3. rest = n % g
      BY <1>1
    <2> QED
      BY <2>2, <2>3, Zenon
  <1> QED
    BY <1>4, <1>5, <1>6

\* Two numbers less than g apart: what is left of their difference on the ring.
LEMMA RingDifference ==
    ASSUME NEW g \in Nat \ {0}, NEW a \in Nat, NEW b \in Nat, b <= a, a - b < g
    PROVE  /\ ((a % g) - (b % g)) % g = a - b
           /\ a # b => ((b % g) - (a % g)) % g = g - (a - b)
           /\ (a % g = b % g) => a = b
  <1>1. PICK i \in Int, x \in Int : a = g * i + x /\ 0 <= x /\ x < g /\ x = a % g
    <2>1. a = g * (a \div g) + (a % g) /\ 0 <= a % g /\ a % g < g /\ a \div g \in Int /\ a % g \in Int
      OBVIOUS
    <2> QED
      BY <2>1
  <1>2. PICK j \in Int, y \in Int : b = g * j + y /\ 0 <= y /\ y < g /\ y = b % g
    <2>1. b = g * (b \div g) + (b % g) /\ 0 <= b % g /\ b % g < g /\ b \div g \in Int /\ b % g \in Int
      OBVIOUS
    <2> QED
      BY <2>1
  <1>3. PICK k \in Int : k = j - i
    OBVIOUS
  <1>4. x - y = g * k + (a - b)
    <2>1. PICK gi \in Int, gj \in Int, gk \in Int : gi = g * i /\ gj = g * j /\ gk = g * k
      OBVIOUS
    <2>2. gk = gj - gi
      <3>1. g * k = g * j - g * i
        BY <1>3
      <3> QED
        BY <3>1, <2>1
    <2>3. a = gi + x /\ b = gj + y
      BY <1>1, <1>2, <2>1
    <2>4. x - y = gk + (a - b)
      BY <2>2, <2>3
    <2> QED
      BY <2>1, <2>4
  <1>5. (x - y) % g = a - b
    <2>1. x - y \in Int /\ a - b \in Int /\ 0 <= a - b
      OBVIOUS
    <2> QED
      BY <1>4, <2>1, OneRemainder
  <1>6. ASSUME a # b PROVE (y - x) % g = g - (a - b)
    <2>1. PICK m \in Int : m = 0 - k - 1
      OBVIOUS
    <2>2. y - x = g * m + (g - (a - b))
      <3>1. g * m = 0 - (g * k) - g
        BY <2>1
      <3> QED
        BY <3>1, <1>4
    <2>3. y - x \in Int /\ g - (a - b) \in Int /\ 0 <= g - (a - b) /\ g - (a - b) < g
      BY <1>6
    <2> QED
      BY <2>2, <2>3, OneRemainder
  <1>7. ASSUME x = y PROVE a = b
    <2>1. (0 % g) = 0
      <3>1. 0 = g * 0 + 0
        OBVIOUS
      <3> QED
        BY <3>1, OneRemainder
    <2> QED
      BY <1>5, <1>7, <2>1
  <1> QED
    BY <1>1, <1>2, <1>5, <1>6, <1>7

LEMMA RingFacts == GenMod \in Nat \ {0} /\ Half \in Nat \ {0} /\ GenMod = 2 * Half
  BY DesktopAssumption DEF Half

\* On the ring the newer of two claims supersedes the older one, never the reverse.
LEMMA RingOrder ==
    ASSUME NEW a \in Nat, NEW b \in Nat, b <= a, a - b < Half
    PROVE  /\ a # b => Supersedes(a % GenMod, b % GenMod)
           /\ ~Supersedes(b % GenMod, a % GenMod)
           /\ (a % GenMod = b % GenMod) => a = b
  <1>1. a - b < GenMod
    BY RingFacts
  <1>2. /\ ((a % GenMod) - (b % GenMod)) % GenMod = a - b
        /\ a # b => ((b % GenMod) - (a % GenMod)) % GenMod = GenMod - (a - b)
        /\ (a % GenMod = b % GenMod) => a = b
    <2>1. GenMod \in Nat \ {0}
      BY RingFacts
    <2> QED
      BY <1>1, <2>1, RingDifference, ZenonT(40)
  <1>3. a # b => ~(GenMod - (a - b) < Half)
    BY RingFacts
  <1>4. a # b => ((a % GenMod) - (b % GenMod)) % GenMod < Half /\ ~(((b % GenMod) - (a % GenMod)) % GenMod < Half)
    BY <1>2, <1>3, Zenon
  <1> QED
    BY <1>2, <1>4, Zenon DEF Supersedes, Half

\* ------------------------------------------------------- cursor authority

LEMMA SameAdmission ==
    ASSUME NEW held \in Int, NEW gen \in Int
    PROVE  Admits(held, gen) <=> MirrorAdmits(held, gen)
  <1>1. PICK apart \in Int, half \in Int : apart = (gen - held) % GenMod /\ half = GenMod \div 2
    <2>1. gen - held \in Int /\ GenMod \in Nat \ {0} /\ GenMod \div 2 \in Int
      BY RingFacts DEF Half
    <2>2. (gen - held) % GenMod \in Int
      BY <2>1
    <2> QED
      BY <2>1, <2>2
  <1>2. apart < half <=> ~(apart >= half)
    OBVIOUS
  <1>3. Supersedes(gen, held) <=> generationSupersedes(gen, held)
    BY <1>1, <1>2 DEF Supersedes, generationSupersedes
  <1> QED
    BY <1>3 DEF Admits, MirrorAdmits

Leased(p, gen, owner) == IF Admits(p.lease, gen) THEN [p EXCEPT !.lease = gen, !.owner = owner] ELSE p

\* Both receivers take an envelope of this version and owner by its generation alone ...
LEMMA HearsClaim ==
    ASSUME NEW p \in Pointers, NEW gen \in Int, NEW owner \in {"host", "client"}, NEW e,
           e = Envelope(CONTROL_VERSION, gen, CodeOf(owner))
    PROVE  ApplyAuthority(p, e) = Leased(p, gen, owner) /\ applyAuthority(p, e) = Leased(p, gen, owner)
  <1>1. /\ e.version = CONTROL_VERSION /\ e.gen = gen /\ e.code = CodeOf(owner)
        /\ decode_envelope(e) # {} /\ decodeEnvelope(e) # {}
    BY DEF Envelope, decode_envelope, decodeEnvelope
  <1>2. decode_authority(e.code) = owner /\ owner # Nobody
    BY <1>1 DEF decode_authority, CodeOf, Nobody
  <1>3. decodeCursorAuthority(e.code) = owner
    BY <1>1 DEF decodeCursorAuthority, CodeOf, CURSOR_OWNER_NAMES
  <1>4. Admits(p.lease, gen) <=> MirrorAdmits(p.lease, gen)
    BY SameAdmission
  <1> QED
    BY <1>1, <1>2, <1>3, <1>4 DEF ApplyAuthority, applyAuthority, Leased

\* ... and neither takes another one.
LEMMA HearsForeign ==
    ASSUME NEW p, NEW gen, NEW e \in {Envelope(2, gen, 1), Envelope(CONTROL_VERSION, gen, 2)}
    PROVE  ApplyAuthority(p, e) = p /\ applyAuthority(p, e) = p
  <1>1. CASE e = Envelope(2, gen, 1)
    <2>1. decode_envelope(e) = {} /\ decodeEnvelope(e) = {}
      BY <1>1 DEF Envelope, decode_envelope, decodeEnvelope, CONTROL_VERSION
    <2> QED
      BY <2>1 DEF ApplyAuthority, applyAuthority
  <1>2. CASE e = Envelope(CONTROL_VERSION, gen, 2)
    <2>1. decode_authority(e.code) = Nobody /\ decodeCursorAuthority(e.code) = Nobody
      BY <1>2 DEF Envelope, decode_authority, decodeCursorAuthority, CURSOR_OWNER_NAMES
    <2> QED
      BY <2>1 DEF ApplyAuthority, applyAuthority
  <1> QED
    BY <1>1, <1>2

LEMMA ClaimStep ==
    ASSUME CursorTypes, ClaimsInv, NEW owner \in {"host", "client"}, HostClaims(owner)
    PROVE  CursorTypes' /\ ClaimsInv'
  <1>1. /\ claims' = Append(claims, owner) /\ claims' \in Seq({"host", "client"})
        /\ Len(claims') = Len(claims) + 1 /\ Len(claims) \in Nat
        /\ \A n \in 1 .. Len(claims) : claims'[n] = claims[n]
        /\ UNCHANGED <<pointer, heard>> /\ (heard = 0 \/ Len(claims) + 1 - heard < Half)
    BY DEF HostClaims, CursorTypes, Half
  <1>2. envelopes' = {n \in envelopes : Len(claims) + 1 - n < Half} \cup {Len(claims) + 1}
    BY DEF HostClaims, Half
  <1>3. envelopes' \subseteq Nat
    <2>1. Len(claims) + 1 \in Nat /\ envelopes \subseteq Nat
      BY <1>1 DEF CursorTypes
    <2> QED
      BY <1>2, <2>1, Zenon
  <1>4. \A n \in envelopes' : n \in 1 .. Len(claims') /\ Len(claims') - n < Half
    BY <1>1, <1>2, RingFacts DEF CursorTypes, ClaimsInv
  <1>5. heard # 0 => heard \in 1 .. Len(claims)
    BY <1>1 DEF CursorTypes, ClaimsInv
  <1> QED
    BY <1>1, <1>3, <1>4, <1>5 DEF CursorTypes, ClaimsInv

\* What the invariant says of the next state, when both receivers hold the same pointer.
LEMMA PointerKept ==
    ASSUME NEW p \in Pointers, pointer' = [native |-> p, browser |-> p],
           claims' \in Seq({"host", "client"}), envelopes' \subseteq Nat, heard' \in Nat,
           heard' <= Len(claims'), heard' # 0 => Len(claims') - heard' < Half,
           \A n \in envelopes' : n \in 1 .. Len(claims') /\ Len(claims') - n < Half,
           p.lease = IF heard' = 0 THEN NoGen ELSE heard' % GenMod,
           p.owner = IF heard' = 0 THEN "host" ELSE claims'[heard'],
           p.applied # 0 => p.drawn = p.applied
    PROVE  CursorTypes' /\ ClaimsInv'
  <1>1. pointer' \in [native : Pointers, browser : Pointers] /\ pointer'.native = p /\ pointer'.browser = p
    BY Zenon
  <1> QED
    BY <1>1, Zenon DEF CursorTypes, ClaimsInv

LEMMA ClaimTaken ==
    ASSUME NEW p \in Pointers, NEW gen \in Nat, NEW owner \in {"host", "client"}
    PROVE  LET taken == [p EXCEPT !.lease = gen, !.owner = owner]
           IN  /\ taken \in Pointers /\ taken.lease = gen /\ taken.owner = owner
               /\ taken.applied = p.applied /\ taken.drawn = p.drawn
  <1>1. gen \in Int
    OBVIOUS
  <1> QED
    BY <1>1, Zenon

LEMMA ArrivalStep ==
    ASSUME CursorTypes, ClaimsInv, NEW n \in Nat, AuthorityArrives(n)
    PROVE  CursorTypes' /\ ClaimsInv'
  <1>1. /\ n \in 1 .. Len(claims) /\ Len(claims) - n < Half /\ claims[n] \in {"host", "client"}
        /\ pointer.native \in Pointers /\ pointer.browser = pointer.native /\ Len(claims) \in Nat
        /\ heard' = (IF n > heard THEN n ELSE heard) /\ UNCHANGED <<claims, envelopes>>
    BY RingFacts DEF AuthorityArrives, CursorTypes, ClaimsInv
  <1>2. PICK gen \in Nat : gen = n % GenMod
    BY RingFacts
  <1>3. PICK p \in Pointers : p = pointer.native
    BY <1>1
  <1>4. PICK owner \in {"host", "client"} : owner = claims[n]
    BY <1>1
  <1>5. PICK taken : taken = [p EXCEPT !.lease = gen, !.owner = owner]
    OBVIOUS
  <1>6. /\ taken \in Pointers /\ taken.lease = gen /\ taken.owner = owner
        /\ taken.applied = p.applied /\ taken.drawn = p.drawn
    BY <1>5, ClaimTaken
  <1>7. PICK e : e = Envelope(CONTROL_VERSION, gen, CodeOf(owner))
    OBVIOUS
  <1>8. /\ ApplyAuthority(p, e) = IF Admits(p.lease, gen) THEN taken ELSE p
        /\ applyAuthority(p, e) = ApplyAuthority(p, e)
    <2> HIDE DEF Pointers
    <2>1. gen \in Int
      OBVIOUS
    <2>2. ApplyAuthority(p, e) = Leased(p, gen, owner) /\ applyAuthority(p, e) = Leased(p, gen, owner)
      BY <1>7, <2>1, HearsClaim, Zenon
    <2> QED
      BY <1>5, <2>2, Zenon DEF Leased
  <1>9. pointer' = [native |-> ApplyAuthority(p, e), browser |-> applyAuthority(p, e)]
    BY <1>1, <1>2, <1>3, <1>4, <1>7, Zenon DEF AuthorityArrives, Receivers
  <1>10. /\ claims' \in Seq({"host", "client"}) /\ envelopes' \subseteq Nat /\ heard' \in Nat
         /\ \A m \in envelopes' : m \in 1 .. Len(claims') /\ Len(claims') - m < Half
         /\ heard' <= Len(claims') /\ (heard' # 0 => Len(claims') - heard' < Half)
    BY <1>1 DEF CursorTypes, ClaimsInv
  <1>11. p.applied # 0 => p.drawn = p.applied
    BY <1>3 DEF ClaimsInv
  <1>12. CASE heard = 0 \/ n > heard
    <2>1. heard' = n /\ heard' # 0
      BY <1>1, <1>12
    <2>2. Admits(p.lease, gen)
      <3>1. CASE heard = 0
        BY <1>3, <3>1 DEF Admits, ClaimsInv
      <3>2. CASE heard # 0
        <4>1. heard \in Nat /\ heard <= n /\ n - heard < Half /\ n # heard
          BY <1>1, <1>12, <3>2, RingFacts DEF CursorTypes, ClaimsInv
        <4>2. Supersedes(n % GenMod, heard % GenMod)
          BY <4>1, RingOrder, Zenon
        <4>3. p.lease = heard % GenMod
          BY <1>3, <3>2 DEF ClaimsInv
        <4> QED
          BY <1>2, <4>2, <4>3, Zenon DEF Admits
      <3> QED
        BY <3>1, <3>2
    <2>3. pointer' = [native |-> taken, browser |-> taken]
      BY <1>8, <1>9, <2>2, Zenon
    <2>4. taken.lease = heard' % GenMod /\ taken.owner = claims'[heard']
      BY <1>1, <1>2, <1>4, <1>6, <2>1, Zenon
    <2>5. taken.applied # 0 => taken.drawn = taken.applied
      BY <1>6, <1>11
    <2> QED
      BY <1>6, <1>10, <2>1, <2>3, <2>4, <2>5, PointerKept, Zenon
  <1>13. CASE heard # 0 /\ ~(n > heard)
    <2>1. heard' = heard /\ UNCHANGED claims /\ heard \in Nat /\ n <= heard /\ heard - n < Half
      BY <1>1, <1>13, RingFacts DEF CursorTypes, ClaimsInv
    <2>2. p.lease = heard' % GenMod /\ p.owner = claims'[heard']
      BY <1>3, <1>13, <2>1, Zenon DEF ClaimsInv
    <2>3. ApplyAuthority(p, e) = p
      <3>1. CASE n = heard
        <4>1. p.lease = gen /\ p.owner = owner
          BY <1>2, <1>4, <2>1, <2>2, <3>1, Zenon
        <4>2. taken = p
          BY <1>5, <4>1
        <4> QED
          BY <1>8, <4>2
      <3>2. CASE n # heard
        <4>1. ~Supersedes(n % GenMod, heard % GenMod) /\ n % GenMod # heard % GenMod
          BY <2>1, <3>2, RingOrder, Zenon
        <4>2. heard % GenMod \in Nat
          BY <2>1, RingFacts
        <4>3. p.lease # NoGen
          BY <2>1, <2>2, <4>2
        <4>4. ~Admits(p.lease, gen)
          BY <1>2, <2>1, <2>2, <4>1, <4>3, Zenon DEF Admits
        <4> QED
          BY <1>8, <4>4
      <3> QED
        BY <3>1, <3>2
    <2>4. pointer' = [native |-> p, browser |-> p]
      BY <1>8, <1>9, <2>3, Zenon
    <2>5. heard' # 0
      BY <1>13, <2>1
    <2> QED
      BY <1>10, <1>11, <2>2, <2>4, <2>5, PointerKept, Zenon
  <1> QED
    BY <1>12, <1>13

\* The steps that treat the two receivers alike.
LEMMA PointerStep ==
    ASSUME CursorTypes, ClaimsInv,
           \/ \E gen \in 0 .. GenMod - 1 : ForeignArrives(gen)
           \/ \E id \in CursorShapes \cup {0} : NoteShape(id)
           \/ DrawShape \/ CursorReconnects
    PROVE  CursorTypes' /\ ClaimsInv'
  <1>0. DOMAIN pointer = {"native", "browser"} /\ pointer.native \in Pointers /\ pointer.browser = pointer.native
    BY DEF CursorTypes, ClaimsInv
  <1>1. CASE \E gen \in 0 .. GenMod - 1 : ForeignArrives(gen)
    <2>1. PICK gen \in 0 .. GenMod - 1 : ForeignArrives(gen)
      BY <1>1
    <2>2. PICK e \in {Envelope(2, gen, 1), Envelope(CONTROL_VERSION, gen, 2)} : pointer' = Receivers(e)
      BY <2>1 DEF ForeignArrives
    <2>3. /\ ApplyAuthority(pointer.native, e) = pointer.native
          /\ applyAuthority(pointer.browser, e) = pointer.browser
      BY HearsForeign
    <2>4. pointer' = [native |-> pointer.native, browser |-> pointer.browser] /\ UNCHANGED <<claims, envelopes, heard>>
      BY <2>1, <2>2, <2>3 DEF Receivers, ForeignArrives
    <2> QED
      BY <1>0, <2>4 DEF CursorTypes, ClaimsInv
  <1>2. CASE \E id \in CursorShapes \cup {0} : NoteShape(id)
    <2>1. PICK id \in Nat : NoteShape(id)
      BY <1>2, DesktopAssumption
    <2>2. /\ pointer' = [i \in {"native", "browser"} |-> [pointer[i] EXCEPT !.latest = id]]
          /\ UNCHANGED <<claims, envelopes, heard>>
      BY <1>0, <2>1 DEF NoteShape
    <2> QED
      BY <1>0, <2>2 DEF CursorTypes, ClaimsInv
  <1>3. CASE DrawShape
    <2>1. /\ pointer' = [i \in {"native", "browser"} |-> TakeShape(pointer[i])]
          /\ UNCHANGED <<claims, envelopes, heard>>
      BY <1>0, <1>3 DEF DrawShape
    <2>2. PICK p \in Pointers : p = pointer.native
      BY <1>0
    <2>3. PICK drawing : drawing = TakeShape(p)
      OBVIOUS
    <2>4. /\ drawing \in Pointers /\ drawing.lease = p.lease /\ drawing.owner = p.owner
          /\ p.applied # 0 => p.drawn = p.applied
          /\ drawing.applied # 0 => drawing.drawn = drawing.applied
      <3>1. p.applied # 0 => p.drawn = p.applied
        BY <2>2 DEF ClaimsInv
      <3>2. CASE TakesShape(p)
        <4>1. drawing = [p EXCEPT !.applied = p.latest, !.drawn = p.latest]
          BY <2>3, <3>2, Zenon DEF TakeShape
        <4> QED
          BY <3>1, <4>1, Zenon
      <3>3. CASE ~TakesShape(p)
        BY <2>3, <3>1, <3>3, Zenon DEF TakeShape
      <3> QED
        BY <3>2, <3>3
    <2>5. pointer' = [native |-> drawing, browser |-> drawing]
      BY <1>0, <2>1, <2>2, <2>3
    <2>6. /\ claims' \in Seq({"host", "client"}) /\ envelopes' \subseteq Nat /\ heard' \in Nat
          /\ heard' <= Len(claims') /\ (heard' # 0 => Len(claims') - heard' < Half)
          /\ \A n \in envelopes' : n \in 1 .. Len(claims') /\ Len(claims') - n < Half
      BY <2>1, Zenon DEF CursorTypes, ClaimsInv
    <2>7. /\ drawing.lease = IF heard' = 0 THEN NoGen ELSE heard' % GenMod
          /\ drawing.owner = IF heard' = 0 THEN "host" ELSE claims'[heard']
      BY <2>1, <2>2, <2>4, Zenon DEF ClaimsInv
    <2> QED
      BY <2>4, <2>5, <2>6, <2>7, PointerKept, Zenon
  <1>4. CASE CursorReconnects
    <2>1. /\ pointer' = [i \in {"native", "browser"} |-> OnReconnect(pointer[i])]
          /\ heard' = 0 /\ UNCHANGED <<claims, envelopes>>
      BY <1>0, <1>4 DEF CursorReconnects
    <2>2. PICK fresh : fresh = OnReconnect(pointer.native)
      OBVIOUS
    <2>3. fresh \in Pointers /\ fresh.lease = NoGen /\ fresh.owner = "host" /\ fresh.applied = 0 /\ fresh.drawn = 0
      <3>1. NoGen \in Int /\ 0 \in Nat
        OBVIOUS
      <3> QED
        BY <1>0, <2>2, <3>1, Zenon DEF OnReconnect
    <2>4. pointer' = [native |-> fresh, browser |-> fresh]
      BY <1>0, <2>1, <2>2
    <2>5. claims' \in Seq({"host", "client"}) /\ Len(claims') \in Nat
      BY <2>1 DEF CursorTypes
    <2>6. /\ envelopes' \subseteq Nat /\ heard' \in Nat /\ heard' = 0 /\ heard' <= Len(claims')
          /\ \A n \in envelopes' : n \in 1 .. Len(claims') /\ Len(claims') - n < Half
      BY <2>1, <2>5 DEF CursorTypes, ClaimsInv
    <2> QED
      BY <2>3, <2>4, <2>5, <2>6, PointerKept, Zenon
  <1> QED
    BY <1>1, <1>2, <1>3, <1>4

\* ------------------------------------------------------ output selection

LEMMA ModeFacts ==
    /\ Modes \subseteq DeskModes /\ Fallback \in Modes /\ NoMode \in DeskModes
    /\ \A req \in Modes : req.out \in DeskOutputs \cup {0}
  BY DesktopAssumption DEF Modes, Fallback

\* An answer added to those on their way: the client will get from the host's
\* mode to its next one when it hears it.
LEMMA WayExtended ==
    ASSUME DisplayTypes, DisplayTypes', NEW way \in [Nat -> DeskModes], Leads(way), NEW r \in Replies,
           answered' = Append(answered, r), selection'.native.applied = selection.native.applied,
           display'.mode = Heard(display.mode, r), display'.plugged \subseteq display.plugged,
           \A out \in display.plugged \ display'.plugged : r.kind = "removed" /\ r.mode.out = out,
           display'.mode = NoMode \/ display'.mode.out \in display'.plugged \cup {0}
    PROVE  \E next \in [Nat -> DeskModes] : Leads(next)'
  <1> HIDE DEF Replies, Selections, NoMode, DeskModes
  <1>1. PICK len \in Nat : len = Len(answered)
    BY DEF DisplayTypes
  <1>2. Len(answered') = len + 1 /\ answered'[len + 1] = r /\ \A k \in 1 .. len : answered'[k] = answered[k]
    BY <1>1 DEF DisplayTypes
  <1>0. PICK last \in DeskModes : last = display'.mode
    BY DEF DisplayTypes
  <1> DEFINE longer == [k \in Nat |-> IF k <= len THEN way[k] ELSE last]
  <1>a. PICK next \in [Nat -> DeskModes] : next = longer
    OBVIOUS
  <1>3. /\ next[len + 1] = display'.mode /\ next[len] = display.mode
        /\ \A k \in 0 .. len : next[k] = way[k]
    <2>1. way[len] = display.mode
      BY <1>1 DEF Leads
    <2> QED
      BY <1>0, <1>a, <2>1
  <1> HIDE DEF longer
  <1>4. next[0] = selection'.native.applied /\ next[Len(answered')] = display'.mode
    BY <1>2, <1>3 DEF Leads
  <1>5. ASSUME NEW k \in 0 .. Len(answered') - 1 PROVE next[k + 1] = Heard(next[k], answered'[k + 1])
    <2>1. CASE k = len
      BY <1>2, <1>3, <2>1, Zenon
    <2>2. CASE k # len
      <3>1. k \in 0 .. len - 1 /\ k \in 0 .. len /\ k + 1 \in 0 .. len /\ k + 1 \in 1 .. len
        <4>1. k \in Nat /\ k <= len
          BY <1>2
        <4> QED
          BY <2>2, <4>1
      <3> QED
        BY <1>1, <1>2, <1>3, <3>1 DEF Leads
    <2> QED
      BY <2>1, <2>2
  <1>6. ASSUME NEW k \in 0 .. Len(answered') PROVE Noticed(next[k], k)'
    <2>1. CASE k = len + 1
      BY <1>3, <2>1 DEF Noticed
    <2>2. CASE k # len + 1
      <3>0. k \in 0 .. len /\ k \in 0 .. Len(answered)
        BY <1>1, <1>2, <2>2
      <3>1. k \in 0 .. len /\ next[k] = way[k] /\ Noticed(way[k], k)
        BY <1>3, <3>0, Zenon DEF Leads
      <3>2. SUFFICES ASSUME way[k] # NoMode, way[k].out \notin display'.plugged \cup {0}
                     PROVE  \E j \in (k + 1) .. Len(answered') : answered'[j].kind = "removed" /\ answered'[j].mode.out = way[k].out
        BY <3>1 DEF Noticed
      <3>3. CASE way[k].out \in display.plugged
        <4>1. r.kind = "removed" /\ r.mode.out = way[k].out
          BY <3>2, <3>3
        <4>2. len + 1 \in (k + 1) .. Len(answered')
          BY <1>2, <3>1
        <4> QED
          BY <1>2, <4>1, <4>2
      <3>4. CASE way[k].out \notin display.plugged
        <4>1. PICK j \in (k + 1) .. len : answered[j].kind = "removed" /\ answered[j].mode.out = way[k].out
          BY <1>1, <3>1, <3>2, <3>4 DEF Noticed
        <4>2. j \in 1 .. len /\ j \in (k + 1) .. Len(answered')
          BY <1>2, <3>1
        <4> QED
          BY <1>2, <4>1, <4>2
      <3> QED
        BY <3>3, <3>4
    <2> QED
      BY <2>1, <2>2
  <1> QED
    BY <1>3, <1>4, <1>5, <1>6, Zenon DEF Leads

\* The answer at the head heard: the way begins one step later.
LEMMA WayShortened ==
    ASSUME DisplayTypes, NEW way \in [Nat -> DeskModes], Leads(way), answered # <<>>,
           answered' = Tail(answered), UNCHANGED display,
           selection'.native.applied = Heard(selection.native.applied, Head(answered))
    PROVE  \E next \in [Nat -> DeskModes] : Leads(next)'
  <1>1. PICK len \in Nat : Len(answered) = len + 1
    <2>1. Len(answered) \in Nat /\ Len(answered) # 0
      BY DEF DisplayTypes
    <2>2. Len(answered) - 1 \in Nat /\ Len(answered) = (Len(answered) - 1) + 1
      BY <2>1
    <2> QED
      BY <2>2
  <1>2. Len(answered') = len /\ \A k \in 1 .. len : answered'[k] = answered[k + 1]
    BY <1>1 DEF DisplayTypes
  <1>3. Head(answered) = answered[1]
    BY <1>1 DEF DisplayTypes
  <1>4. PICK next \in [Nat -> DeskModes] : \A k \in Nat : next[k] = way[k + 1]
    <2> HIDE DEF DeskModes
    <2>1. [k \in Nat |-> way[k + 1]] \in [Nat -> DeskModes]
      OBVIOUS
    <2> QED
      BY <2>1
  <1>5. next[0] = selection'.native.applied
    <2>1. 0 \in 0 .. Len(answered) - 1 /\ 0 \in Nat
      BY <1>1
    <2>0. way[0 + 1] = Heard(way[0], answered[0 + 1]) /\ next[0] = way[0 + 1]
      BY <1>4, <2>1, Zenon DEF Leads
    <2>2. 0 + 1 = 1
      OBVIOUS
    <2> QED
      BY <1>3, <2>0, <2>2, Zenon DEF Leads
  <1>6. next[Len(answered')] = display'.mode
    BY <1>1, <1>2, <1>4 DEF Leads
  <1>7. ASSUME NEW k \in 0 .. Len(answered') - 1 PROVE next[k + 1] = Heard(next[k], answered'[k + 1])
    <2>1. /\ k + 1 \in 0 .. Len(answered) - 1 /\ k \in Nat /\ k + 1 \in Nat /\ k + 1 \in 1 .. len
      BY <1>1, <1>2
    <2>2. way[(k + 1) + 1] = Heard(way[k + 1], answered[(k + 1) + 1])
      BY <2>1, Zenon DEF Leads
    <2> QED
      BY <1>2, <1>4, <2>1, <2>2, Zenon
  <1>8. ASSUME NEW k \in 0 .. Len(answered') PROVE Noticed(next[k], k)'
    <2>0. k \in Nat /\ k + 1 \in 0 .. Len(answered)
      BY <1>1, <1>2
    <2>1. k \in Nat /\ k + 1 \in 0 .. Len(answered) /\ next[k] = way[k + 1]
      BY <1>4, <2>0, Zenon
    <2>2. SUFFICES ASSUME way[k + 1] # NoMode, way[k + 1].out \notin display.plugged \cup {0}
                   PROVE  \E j \in (k + 1) .. Len(answered') : answered'[j].kind = "removed" /\ answered'[j].mode.out = way[k + 1].out
      BY <2>1 DEF Noticed
    <2>3. PICK j \in (k + 1) + 1 .. Len(answered) : answered[j].kind = "removed" /\ answered[j].mode.out = way[k + 1].out
      BY <2>1, <2>2, Zenon DEF Leads, Noticed
    <2>4. j - 1 \in (k + 1) .. Len(answered') /\ j - 1 \in 1 .. len /\ (j - 1) + 1 = j
      BY <1>1, <1>2, <2>1
    <2>5. answered'[j - 1] = answered[j]
      BY <1>2, <2>4
    <2> QED
      BY <2>3, <2>4, <2>5, Zenon
  <1> QED
    BY <1>4, <1>5, <1>6, <1>7, <1>8, Zenon DEF Leads

LEMMA RequestStep ==
    ASSUME DisplayTypes, AnswersInv, NEW req \in Modes, RequestMode(req)
    PROVE  DisplayTypes' /\ AnswersInv'
  <1>1. PICK s \in Selections : s = selection.native /\ s = selection.browser
    BY DEF DisplayTypes, AnswersInv
  <1>2. PICK t : t = [s EXCEPT !.pending = req]
    OBVIOUS
  <1>3. t \in Selections /\ t.applied = s.applied
    <2>1. req \in DeskModes
      BY ModeFacts
    <2> HIDE DEF DeskModes
    <2> QED
      BY <1>2, <2>1, Zenon
  <1>4. selection' = [i \in {"native", "browser"} |-> t]
    <2>1. DOMAIN selection = {"native", "browser"}
      BY DEF DisplayTypes
    <2>2. selection' = [i \in {"native", "browser"} |-> [selection[i] EXCEPT !.pending = req]]
      BY <2>1, Zenon DEF RequestMode
    <2>3. \A i \in {"native", "browser"} : [selection[i] EXCEPT !.pending = req] = t
      BY <1>1, <1>2, Zenon
    <2> QED
      BY <2>2, <2>3, Zenon
  <1>5. /\ selection' \in [native : Selections, browser : Selections]
        /\ selection'.native = t /\ selection'.browser = t
    <2> HIDE DEF Selections
    <2> QED
      BY <1>3, <1>4
  <1>6. asked' = Append(asked, req) /\ asked' \in Seq(Modes) /\ asked' # <<>> /\ UNCHANGED <<display, answered>> /\ moves' \in Nat
    <2>1. asked' = Append(asked, req) /\ UNCHANGED <<display, answered>> /\ moves' = moves + 1
      BY Zenon DEF RequestMode, Moving
    <2>2. asked \in Seq(Modes) /\ moves \in Nat
      BY DEF DisplayTypes
    <2>3. asked' \in Seq(Modes) /\ asked' # <<>>
      BY <2>1, <2>2
    <2> QED
      BY <2>1, <2>2, <2>3
  <1>7. DisplayTypes'
    BY <1>5, <1>6, Zenon DEF DisplayTypes
  <1>8. \A way : Leads(way) => Leads(way)'
    <2>1. selection'.native.applied = selection.native.applied /\ UNCHANGED <<display, answered>>
      BY <1>1, <1>3, <1>5, <1>6, Zenon
    <2> HIDE DEF NoMode
    <2> QED
      BY <2>1, Zenon DEF Leads, Noticed
  <1> QED
    BY <1>5, <1>6, <1>7, <1>8, Zenon DEF AnswersInv, ReplyFacts

\* The host's answer and the notice of an unplug.
LEMMA HostStep ==
    ASSUME DisplayTypes, AnswersInv,
           \/ \E reply \in {"applied", "downgraded", "rejected"} : HostAnswers(reply)
           \/ \E out \in DeskOutputs : Unplug(out)
    PROVE  DisplayTypes' /\ AnswersInv'
  <1>0. PICK way \in [Nat -> DeskModes] : Leads(way)
    BY DEF AnswersInv
  <1>a. display.mode = NoMode \/ display.mode.out \in display.plugged \cup {0}
    <2>1. PICK len \in Nat : len = Len(answered)
      BY DEF DisplayTypes
    <2>2. len \in 0 .. Len(answered)
      BY <2>1
    <2>3. way[len] = display.mode /\ Noticed(way[len], len)
      BY <1>0, <2>1, <2>2, Zenon DEF Leads
    <2>4. ~\E j \in (len + 1) .. Len(answered) : TRUE
      BY <2>1
    <2> QED
      BY <2>3, <2>4, Zenon DEF Noticed
  <1>b. /\ display.mode \in DeskModes /\ display.plugged \subseteq DeskOutputs /\ Len(answered) \in Nat
        /\ display = [plugged |-> display.plugged, mode |-> display.mode]
    BY DEF DisplayTypes
  <1>1. CASE \E reply \in {"applied", "downgraded", "rejected"} : HostAnswers(reply)
    <2>1. PICK reply \in {"applied", "downgraded", "rejected"} : HostAnswers(reply)
      BY <1>1
    <2>2. PICK req \in Modes : req = Head(asked)
      <3>1. asked # <<>> /\ asked \in Seq(Modes)
        BY <2>1, Zenon DEF HostAnswers, DisplayTypes
      <3>2. Head(asked) \in Modes
        BY <3>1
      <3> QED
        BY <3>2
    <2>3. PICK mode : mode = Mode(req.out, IF reply = "applied" THEN req.size ELSE "lower")
      OBVIOUS
    <2>4. mode \in DeskModes /\ mode.out = req.out
      BY <2>2, <2>3, ModeFacts
    <2>5. PICK r : r = [kind |-> "result", mode |-> mode, status |-> reply]
      OBVIOUS
    <2>6. r \in Replies /\ r.kind = "result" /\ r.mode = mode /\ r.status = reply
      BY <2>4, <2>5, Zenon
    <2>7. /\ reply = "rejected" \/ req.out \in display.plugged \cup {0}
          /\ display' = IF reply = "rejected" THEN display ELSE [display EXCEPT !.mode = mode]
          /\ answered' = Append(answered, r) /\ asked' = Tail(asked) /\ UNCHANGED <<selection, moves>> /\ asked # <<>>
      BY <2>1, <2>2, <2>3, <2>5, Zenon DEF HostAnswers
    <2>8. display' \in [plugged : SUBSET DeskOutputs, mode : DeskModes] /\ display'.plugged = display.plugged
          /\ display'.mode = (IF reply = "rejected" THEN display.mode ELSE mode)
      <3> HIDE DEF DeskModes
      <3> QED
        BY <1>b, <2>4, <2>7 DEF DisplayTypes
    <2>9. answered' \in Seq(Replies) /\ asked' \in Seq(Modes)
      <3> HIDE DEF Replies
      <3> QED
        BY <2>6, <2>7 DEF DisplayTypes
    <2>10. DisplayTypes'
      BY <2>7, <2>8, <2>9, Zenon DEF DisplayTypes
    <2>11. display'.mode = Heard(display.mode, r)
      BY <2>6, <2>8, Zenon DEF Heard
    <2>12. /\ selection'.native.applied = selection.native.applied /\ display'.plugged \subseteq display.plugged
           /\ \A out \in display.plugged \ display'.plugged : r.kind = "removed" /\ r.mode.out = out
           /\ display'.mode = NoMode \/ display'.mode.out \in display'.plugged \cup {0}
      BY <1>a, <2>4, <2>7, <2>8, Zenon
    <2>13. \E next \in [Nat -> DeskModes] : Leads(next)'
      <3> HIDE DEF Replies, DeskModes, NoMode
      <3> QED
        BY <1>0, <2>6, <2>7, <2>10, <2>11, <2>12, WayExtended, Zenon
    <2>14. /\ Len(answered') = Len(answered) + 1 /\ answered'[Len(answered) + 1] = r
           /\ \A k \in 1 .. Len(answered) : answered'[k] = answered[k]
      <3> HIDE DEF Replies
      <3> QED
        BY <2>6, <2>7 DEF DisplayTypes
    <2>15. Len(answered) + 1 \in 1 .. Len(answered') /\ \A k \in 1 .. Len(answered') : k \in 1 .. Len(answered) \/ k = Len(answered) + 1
      BY <1>b, <2>14
    <2>16. ReplyFacts'
      BY <2>6, <2>14, <2>15, Zenon DEF AnswersInv, ReplyFacts
    <2> QED
      BY <2>7, <2>10, <2>13, <2>16, Zenon DEF AnswersInv
  <1>2. CASE \E out \in DeskOutputs : Unplug(out)
    <2>1. PICK out \in DeskOutputs : Unplug(out)
      BY <1>2
    <2>2. PICK mode : mode = Mode(out, "keep")
      OBVIOUS
    <2>4. mode \in DeskModes /\ mode.out = out
      BY <2>2, DesktopAssumption
    <2>5. PICK r : r = [kind |-> "removed", mode |-> mode, status |-> "applied"]
      OBVIOUS
    <2>6. r \in Replies /\ r.kind = "removed" /\ r.mode = mode
      BY <2>4, <2>5, Zenon
    <2>7. /\ display' = [plugged |-> display.plugged \ {out}, mode |-> IF display.mode.out = out THEN NoMode ELSE display.mode]
          /\ answered' = Append(answered, r) /\ UNCHANGED <<selection, asked>> /\ moves' = moves + 1
      BY <2>1, <2>2, <2>5, Zenon DEF Unplug, Moving
    <2>8. display' \in [plugged : SUBSET DeskOutputs, mode : DeskModes] /\ display'.plugged = display.plugged \ {out}
          /\ display'.mode = (IF display.mode.out = out THEN NoMode ELSE display.mode)
      <3>1. NoMode \in DeskModes
        BY ModeFacts
      <3> HIDE DEF DeskModes, NoMode
      <3> QED
        BY <1>b, <2>7, <3>1
    <2>9. answered' \in Seq(Replies) /\ moves' \in Nat
      <3> HIDE DEF Replies
      <3> QED
        BY <2>6, <2>7 DEF DisplayTypes
    <2>10. DisplayTypes'
      BY <2>7, <2>8, <2>9, Zenon DEF DisplayTypes
    <2>11. display'.mode = Heard(display.mode, r)
      BY <2>4, <2>6, <2>8, Zenon DEF Heard
    <2>12. /\ selection'.native.applied = selection.native.applied /\ display'.plugged \subseteq display.plugged
           /\ \A o \in display.plugged \ display'.plugged : r.kind = "removed" /\ r.mode.out = o
           /\ display'.mode = NoMode \/ display'.mode.out \in display'.plugged \cup {0}
      BY <1>a, <2>4, <2>6, <2>7, <2>8, Zenon
    <2>13. \E next \in [Nat -> DeskModes] : Leads(next)'
      <3> HIDE DEF Replies, DeskModes, NoMode
      <3> QED
        BY <1>0, <2>6, <2>7, <2>10, <2>11, <2>12, WayExtended, Zenon
    <2>14. /\ Len(answered') = Len(answered) + 1 /\ answered'[Len(answered) + 1] = r
           /\ \A k \in 1 .. Len(answered) : answered'[k] = answered[k]
      <3> HIDE DEF Replies
      <3> QED
        BY <2>6, <2>7 DEF DisplayTypes
    <2>15. \A k \in 1 .. Len(answered) : k \in 1 .. Len(answered')
      BY <1>b, <2>14
    <2>a. \A k \in 1 .. Len(answered') : k \in 1 .. Len(answered) \/ k = Len(answered) + 1
      BY <1>b, <2>14
    <2>16. ReplyFacts'
      <3>1. ReplyFacts
        BY Zenon DEF AnswersInv
      <3> HIDE DEF Replies, NoMode, DeskModes
      <3> QED
        BY <2>4, <2>6, <2>7, <2>14, <2>15, <2>a, <3>1, Zenon DEF ReplyFacts
    <2> QED
      BY <2>7, <2>10, <2>13, <2>16, Zenon DEF AnswersInv
  <1> QED
    BY <1>1, <1>2

LEMMA HearStep ==
    ASSUME DisplayTypes, AnswersInv, ClientHears
    PROVE  DisplayTypes' /\ AnswersInv'
  <1>1. PICK s \in Selections : s = selection.native /\ s = selection.browser
    BY DEF DisplayTypes, AnswersInv
  <1>2. /\ answered # <<>> /\ answered \in Seq(Replies) /\ Len(answered) \in Nat \ {0} /\ Head(answered) = answered[1]
        /\ 1 \in 1 .. Len(answered) /\ answered[1] \in Replies
    <2>1. answered # <<>> /\ answered \in Seq(Replies)
      BY Zenon DEF ClientHears, DisplayTypes
    <2> HIDE DEF Replies
    <2> QED
      BY <2>1
  <1>3. PICK a \in Replies : a = Head(answered) /\ a = answered[1]
    BY <1>2, Zenon
  <1>4. a.kind = "removed" => a.mode.out \in DeskOutputs
    BY <1>2, <1>3, Zenon DEF AnswersInv, ReplyFacts
  <1>5. PICK t \in Selections : /\ t.applied = Heard(s.applied, a)
                                /\ selection' = [native |-> t, browser |-> t]
                                /\ a.kind = "result" => t.pending = NoMode /\ asked' = asked
                                /\ a.kind = "removed" => \/ asked' = Append(asked, Fallback)
                                                         \/ t = s /\ asked' = asked
    <2>0. /\ s.applied \in DeskModes /\ s.pending \in DeskModes /\ a.mode \in DeskModes /\ NoMode \in DeskModes /\ Fallback \in DeskModes
          /\ s = [applied |-> s.applied, pending |-> s.pending]
          /\ a.kind \in {"result", "removed"} /\ a.status \in {"applied", "downgraded", "rejected"}
      BY ModeFacts
    <2>1. CASE a.kind = "result"
      <3>1. selection' = [native |-> Reconciled(s, a), browser |-> reconcile(s, a)] /\ asked' = asked
        BY <1>1, <1>3, <2>1, Zenon DEF ClientHears
      <3>2. PICK t : t = Reconciled(s, a)
        OBVIOUS
      <3>3. t \in Selections /\ t.applied = (IF a.status = "rejected" THEN s.applied ELSE a.mode) /\ t.pending = NoMode
        <4> HIDE DEF DeskModes, NoMode
        <4> QED
          BY <2>0, <3>2, Zenon DEF Reconciled
      <3>4. reconcile(s, a) = t
        <4>1. CASE a.status = "rejected"
          <5>1. reconcile(s, a) = [s EXCEPT !.pending = NoMode]
            BY <4>1, Zenon DEF reconcile
          <5> HIDE DEF DeskModes, NoMode
          <5> QED
            BY <2>0, <3>2, <4>1, <5>1 DEF Reconciled
        <4>2. CASE a.status # "rejected"
          BY <2>0, <3>2, <4>2, Zenon DEF reconcile, Reconciled
        <4> QED
          BY <4>1, <4>2
      <3>5. t.applied = Heard(s.applied, a)
        BY <2>1, <3>3, Zenon DEF Heard
      <3> QED
        BY <2>1, <3>1, <3>2, <3>3, <3>4, <3>5, Zenon
    <2>2. CASE a.kind = "removed"
      <3>1. /\ selection' = [native |-> OutputRemoved(s, a.mode.out), browser |-> onOutputRemoved(s, a.mode.out)]
            /\ asked' = IF LosesApplied(s, a.mode.out) THEN Append(asked, Fallback) ELSE asked
        BY <1>1, <1>3, <2>2, Zenon DEF ClientHears
      <3>2. s.applied.out = a.mode.out => s.applied # NoMode
        BY <1>4, <2>2, DesktopAssumption
      <3>3. onOutputRemoved(s, a.mode.out) = OutputRemoved(s, a.mode.out)
        BY <3>2, Zenon DEF onOutputRemoved, OutputRemoved, LosesApplied
      <3>4. PICK t : t = OutputRemoved(s, a.mode.out)
        OBVIOUS
      <3>5. t \in Selections /\ t.applied = (IF s.applied.out = a.mode.out THEN NoMode ELSE s.applied)
        <4> HIDE DEF DeskModes, NoMode
        <4> QED
          BY <2>0, <3>4 DEF OutputRemoved, LosesApplied
      <3>6. t.applied = Heard(s.applied, a)
        BY <2>2, <3>5, Zenon DEF Heard
      <3>7. LosesApplied(s, a.mode.out) \/ t = s
        BY <3>4, Zenon DEF OutputRemoved
      <3> QED
        BY <2>2, <3>1, <3>3, <3>4, <3>5, <3>6, <3>7, Zenon
    <2> QED
      BY <2>0, <2>1, <2>2
  <1>6. /\ selection' \in [native : Selections, browser : Selections]
        /\ selection'.native = t /\ selection'.browser = t
    <2> HIDE DEF Selections
    <2> QED
      BY <1>5
  <1>7. answered' = Tail(answered) /\ UNCHANGED <<display, moves>>
    BY Zenon DEF ClientHears
  <1>8. answered' \in Seq(Replies) /\ asked' \in Seq(Modes)
    <2>1. asked \in Seq(Modes) /\ Fallback \in Modes /\ a.kind \in {"result", "removed"}
      BY ModeFacts DEF DisplayTypes
    <2>2. asked' = asked \/ asked' = Append(asked, Fallback)
      BY <1>5, <2>1, Zenon
    <2>3. asked' \in Seq(Modes)
      <3>1. CASE asked' = asked
        BY <2>1, <3>1
      <3>2. CASE asked' = Append(asked, Fallback)
        BY <2>1, <3>2
      <3> QED
        BY <2>2, <3>1, <3>2
    <2> HIDE DEF Replies
    <2> QED
      BY <1>2, <1>7, <2>3
  <1>9. DisplayTypes'
    BY <1>6, <1>7, <1>8, Zenon DEF DisplayTypes
  <1>10. \E next \in [Nat -> DeskModes] : Leads(next)'
    <2>1. PICK way \in [Nat -> DeskModes] : Leads(way)
      BY DEF AnswersInv
    <2>2. selection'.native.applied = Heard(selection.native.applied, Head(answered))
      BY <1>1, <1>3, <1>5, <1>6, Zenon
    <2> HIDE DEF DeskModes
    <2> QED
      BY <1>2, <1>7, <2>1, <2>2, WayShortened, Zenon
  <1>11. /\ Len(answered') = Len(answered) - 1
         /\ \A k \in 1 .. Len(answered') : answered'[k] = answered[k + 1] /\ k + 1 \in 1 .. Len(answered)
    <2> HIDE DEF Replies
    <2> QED
      BY <1>2, <1>7
  <1>12. \A k \in 1 .. Len(answered') : answered'[k].kind = "removed" => answered'[k].mode.out \in DeskOutputs
    <2>1. \A k \in 1 .. Len(answered) : answered[k].kind = "removed" => answered[k].mode.out \in DeskOutputs
      BY Zenon DEF AnswersInv, ReplyFacts
    <2> HIDE DEF Replies, Selections
    <2> QED
      BY <1>11, <2>1, Zenon
  <1>13. \/ selection'.native.pending = NoMode \/ asked' # <<>>
         \/ \E k \in 1 .. Len(answered') : answered'[k].kind = "result"
    <2>1. CASE a.kind = "result"
      BY <1>5, <1>6, <2>1, Zenon
    <2>2. CASE a.kind = "removed" /\ asked' = Append(asked, Fallback)
      <3>1. asked' # <<>>
        BY <2>2, ModeFacts DEF DisplayTypes
      <3> QED
        BY <3>1
    <2>3. CASE a.kind = "removed" /\ t = s /\ asked' = asked
      <3>1. CASE \E k \in 1 .. Len(answered) : answered[k].kind = "result"
        <4>1. PICK k \in 1 .. Len(answered) : answered[k].kind = "result"
          BY <3>1
        <4>2. k # 1
          BY <1>3, <2>3, <4>1
        <4>3. k - 1 \in 1 .. Len(answered') /\ (k - 1) + 1 = k
          BY <1>2, <1>11, <4>2
        <4>4. answered'[k - 1].kind = "result"
          BY <1>11, <4>1, <4>3, Zenon
        <4> QED
          BY <4>3, <4>4, Zenon
      <3>2. CASE ~\E k \in 1 .. Len(answered) : answered[k].kind = "result"
        <4>0. ReplyFacts
          BY Zenon DEF AnswersInv
        <4> HIDE DEF Replies, Selections, NoMode
        <4>1. selection.native.pending = NoMode \/ asked # <<>>
          BY <3>2, <4>0, Zenon DEF ReplyFacts
        <4> QED
          BY <1>1, <1>6, <2>3, <4>1, Zenon
      <3> QED
        BY <3>1, <3>2
    <2>4. a.kind \in {"result", "removed"}
      OBVIOUS
    <2> QED
      BY <1>5, <2>1, <2>2, <2>3, <2>4, Zenon
  <1> QED
    BY <1>6, <1>9, <1>10, <1>12, <1>13, Zenon DEF AnswersInv, ReplyFacts

\* -------------------------------------------------------- file transfer

\* The transfer as a whole, after each of the receiver's steps.
LEMMA FileStepKeeps ==
    ASSUME FileTypes, FileInv,
           \/ \E size \in 0 .. Chunks, name \in {{}, {"reserved"}} : Offer(size, name)
           \/ Accept \/ Commit \/ Cancel
           \/ \E from, to \in 1 .. Chunks : Receive(from, to)
    PROVE  FileTypes' /\ FileInv'
  <1>0. /\ transfer.phase \in Phases /\ transfer.total \in Nat /\ transfer.received \in Nat /\ Len(disk) \in Nat
        /\ transfer = [phase |-> transfer.phase, total |-> transfer.total, received |-> transfer.received]
        /\ Quota \in Nat /\ Chunks \in Nat
    BY DesktopAssumption DEF FileTypes
  <1>1. CASE \E size \in 0 .. Chunks, name \in {{}, {"reserved"}} : Offer(size, name)
    <2>1. PICK size \in 0 .. Chunks, name \in {{}, {"reserved"}} : Offer(size, name)
      BY <1>1
    <2>2. PICK phase : phase = IF size > Quota THEN "cancelled" ELSE "offered"
      OBVIOUS
    <2>3. /\ transfer' = [phase |-> phase, total |-> size, received |-> 0] /\ UNCHANGED <<disk, consent>>
          /\ transfer.phase = "none"
      BY <2>1, <2>2, Zenon DEF Offer
    <2>4. size \in Nat /\ phase \in {"cancelled", "offered"} /\ (phase = "offered" => size <= Quota)
      BY <1>0, <2>2
    <2>5. /\ transfer' \in [phase : Phases, total : Nat, received : Nat]
          /\ transfer'.phase = phase /\ transfer'.total = size /\ transfer'.received = 0
      BY <2>3, <2>4
    <2>6. Len(disk') = 0
      BY <2>3 DEF FileInv
    <2> QED
      BY <2>3, <2>4, <2>5, <2>6 DEF FileTypes, FileInv
  <1>2. CASE Accept
    <2>1. /\ transfer' = [transfer EXCEPT !.phase = "accepted"] /\ consent' = TRUE
          /\ UNCHANGED <<offered, disk>> /\ transfer.phase = "offered"
      BY <1>2 DEF Accept, InPhase
    <2>2. /\ transfer' \in [phase : Phases, total : Nat, received : Nat]
          /\ transfer'.phase = "accepted" /\ transfer'.total = transfer.total /\ transfer'.received = transfer.received
      BY <1>0, <2>1 DEF FileTypes
    <2> QED
      BY <2>1, <2>2 DEF FileTypes, FileInv
  <1>3. CASE Commit
    <2>1. PICK phase : phase = Committed(transfer, disk = WholeFile)
      OBVIOUS
    <2>2. /\ transfer' = [transfer EXCEPT !.phase = phase]
          /\ UNCHANGED <<offered, disk, consent>> /\ transfer.phase = "accepted"
      BY <1>3, <2>1 DEF Commit, InPhase
    <2>3. phase \in {"complete", "cancelled"} /\ (phase = "complete" => disk = WholeFile)
      BY <2>1, Zenon DEF Committed
    <2>4. /\ transfer' \in [phase : Phases, total : Nat, received : Nat]
          /\ transfer'.phase = phase /\ transfer'.total = transfer.total /\ transfer'.received = transfer.received
      BY <1>0, <2>2, <2>3 DEF FileTypes
    <2>5. WholeFile' = WholeFile
      BY <2>2 DEF WholeFile
    <2> QED
      BY <2>2, <2>3, <2>4, <2>5 DEF FileTypes, FileInv
  <1>4. CASE Cancel
    <2>1. /\ transfer' = [transfer EXCEPT !.phase = "cancelled"] /\ UNCHANGED <<offered, disk, consent>>
      BY <1>4 DEF Cancel
    <2>2. /\ transfer' \in [phase : Phases, total : Nat, received : Nat]
          /\ transfer'.phase = "cancelled" /\ transfer'.total = transfer.total /\ transfer'.received = transfer.received
      BY <1>0, <2>1 DEF FileTypes
    <2> QED
      BY <2>1, <2>2 DEF FileTypes, FileInv
  <1>5. CASE \E from, to \in 1 .. Chunks : Receive(from, to)
    <2>1. PICK from \in 1 .. Chunks, to \in 1 .. Chunks : Receive(from, to)
      BY <1>5
    <2>2. PICK n \in Nat \ {0} : n = to - from + 1
      <3>1. from <= to /\ from \in Nat /\ to \in Nat
        BY <1>0, <2>1 DEF Receive
      <3>2. to - from + 1 \in Nat \ {0}
        BY <3>1
      <3> QED
        BY <3>2
    <2>3. /\ transfer' = Received(transfer, n) /\ UNCHANGED consent /\ transfer.phase = "accepted"
          /\ disk' = IF transfer'.phase = "accepted" THEN disk \o [i \in 1 .. n |-> from + i - 1] ELSE disk
      BY <2>1, <2>2 DEF Receive, InPhase
    <2>4. transfer.total <= Quota /\ consent
      BY <2>3 DEF FileInv
    <2>5. CASE transfer.received + n > transfer.total
      <3>1. /\ transfer' \in [phase : Phases, total : Nat, received : Nat]
            /\ transfer'.phase = "cancelled" /\ transfer'.total = transfer.total /\ transfer'.received = transfer.received
        BY <1>0, <2>3, <2>5 DEF Received
      <3>2. UNCHANGED disk
        BY <2>3, <3>1
      <3> QED
        BY <2>3, <2>4, <3>1, <3>2 DEF FileTypes, FileInv
    <2>6. CASE ~(transfer.received + n > transfer.total)
      <3>1. /\ transfer' \in [phase : Phases, total : Nat, received : Nat]
            /\ transfer'.phase = "accepted" /\ transfer'.total = transfer.total /\ transfer'.received = transfer.received + n
        <4>1. transfer' = [transfer EXCEPT !.received = @ + n]
          BY <2>3, <2>6, Zenon DEF Received
        <4>2. transfer.received + n \in Nat /\ transfer \in [phase : Phases, total : Nat, received : Nat]
          BY <1>0 DEF FileTypes
        <4> QED
          BY <2>3, <4>1, <4>2, Zenon
      <3>2. PICK run \in Seq(Int) : run = [i \in 1 .. n |-> from + i - 1] /\ Len(run) = n
        <4>1. [i \in 1 .. n |-> from + i - 1] \in Seq(Int) /\ Len([i \in 1 .. n |-> from + i - 1]) = n
          <5>1. from \in Nat /\ n \in Nat
            BY <1>0
          <5>2. \A i \in 1 .. n : from + i - 1 \in Int
            BY <5>1
          <5>3. PICK run : run = [i \in 1 .. n |-> from + i - 1]
            OBVIOUS
          <5>4. run \in [1 .. n -> Int]
            BY <5>2, <5>3, Zenon
          <5>5. run \in Seq(Int) /\ Len(run) = n
            BY <5>1, <5>4
          <5> QED
            BY <5>3, <5>5, Zenon
        <4> QED
          BY <4>1
      <3>3. disk' = disk \o run
        BY <2>3, <3>1, <3>2, Zenon
      <3>4. disk' \in Seq(Int) /\ Len(disk') = Len(disk) + n
        BY <3>2, <3>3 DEF FileTypes
      <3>5. transfer.received + n <= transfer.total
        BY <1>0, <2>6
      <3> QED
        BY <1>0, <2>3, <2>4, <3>1, <3>4, <3>5 DEF FileTypes, FileInv
    <2> QED
      BY <2>5, <2>6
  <1> QED
    BY <1>1, <1>2, <1>3, <1>4, <1>5

\* ------------------------------------------------------------ the theorem

LEMMA DesktopStart == ASSUME DesktopInit PROVE DesktopInv
  <1>0. lane \in {"cursor", "display", "file"} /\ FileTypes /\ FileInv
    <2>1. lane \in {"cursor", "display", "file"} /\ disk = <<>> /\ consent = FALSE
          /\ transfer = [phase |-> "none", total |-> 0, received |-> 0]
      BY Zenon DEF DesktopInit
    <2>2. consent \in BOOLEAN
      BY <2>1
    <2>3. /\ transfer \in [phase : Phases, total : Nat, received : Nat] /\ disk \in Seq(Int) /\ Len(disk) = 0
          /\ transfer.phase = "none" /\ transfer.total = 0 /\ transfer.received = 0
      BY <2>1
    <2>4. FileInv
      BY <2>3 DEF FileInv
    <2> QED
      BY <2>1, <2>2, <2>3, <2>4 DEF FileTypes
  <1>1. CursorTypes /\ ClaimsInv
    BY RingFacts DEF DesktopInit, CursorTypes, ClaimsInv, NewPointer
  <1>3. DisplayTypes
    BY DEF DesktopInit, DisplayTypes
  <1>2. AnswersInv
    <2>1. PICK way \in [Nat -> DeskModes] : way = [k \in Nat |-> NoMode]
      <3>1. NoMode \in DeskModes
        BY ModeFacts
      <3> HIDE DEF DeskModes, NoMode
      <3> QED
        BY <3>1
    <2>2. answered = <<>> /\ display.mode = NoMode /\ selection.native.applied = NoMode /\ Len(answered) = 0
      BY DEF DesktopInit
    <2>3. Leads(way)
      BY <2>1, <2>2 DEF Leads, Noticed
    <2>4. ReplyFacts /\ selection.native = selection.browser
      BY DEF DesktopInit, ReplyFacts
    <2> QED
      BY <2>3, <2>4, Zenon DEF AnswersInv
  <1> QED
    BY <1>0, <1>1, <1>2, <1>3 DEF DesktopInv

LEMMA DesktopStepKeeps == ASSUME DesktopInv, [DesktopNext]_desktopVars PROVE DesktopInv'
  <1>1. CursorTypes /\ DisplayTypes /\ FileTypes /\ ClaimsInv /\ AnswersInv /\ FileInv /\ lane \in {"cursor", "display", "file"}
    BY DEF DesktopInv
  <1>2. ASSUME UNCHANGED <<lane, displayLane, fileLane>>, CursorTypes' /\ ClaimsInv' PROVE DesktopInv'
    <2>1. AnswersInv' /\ FileInv'
      BY <1>1, <1>2, AnswersKept, FileKept, Zenon
    <2>2. DisplayTypes'
      BY <1>1, <1>2, DisplayTypesKept
    <2>3. FileTypes'
      BY <1>1, <1>2, FileTypesKept
    <2>4. lane' \in {"cursor", "display", "file"}
      BY <1>1, <1>2
    <2> QED
      BY <1>2, <2>1, <2>2, <2>3, <2>4, Zenon DEF DesktopInv
  <1>3. ASSUME UNCHANGED <<lane, cursorLane, fileLane>>, DisplayTypes' /\ AnswersInv' PROVE DesktopInv'
    <2>1. ClaimsInv' /\ FileInv'
      BY <1>1, <1>3, ClaimsKept, FileKept, Zenon
    <2>2. CursorTypes'
      BY <1>1, <1>3, CursorTypesKept
    <2>3. FileTypes'
      BY <1>1, <1>3, FileTypesKept
    <2>4. lane' \in {"cursor", "display", "file"}
      BY <1>1, <1>3
    <2> QED
      BY <1>3, <2>1, <2>2, <2>3, <2>4, Zenon DEF DesktopInv
  <1>4. ASSUME UNCHANGED <<lane, cursorLane, displayLane>>, FileTypes' /\ FileInv' PROVE DesktopInv'
    <2>1. ClaimsInv' /\ AnswersInv'
      BY <1>1, <1>4, ClaimsKept, AnswersKept, Zenon
    <2>2. CursorTypes'
      BY <1>1, <1>4, CursorTypesKept
    <2>3. DisplayTypes'
      BY <1>1, <1>4, DisplayTypesKept
    <2>4. lane' \in {"cursor", "display", "file"}
      BY <1>1, <1>4
    <2> QED
      BY <1>4, <2>1, <2>2, <2>3, <2>4, Zenon DEF DesktopInv
  <1>5. CASE \E owner \in {"host", "client"} : HostClaims(owner)
    <2>1. CursorTypes' /\ ClaimsInv' /\ UNCHANGED <<lane, displayLane, fileLane>>
      BY <1>1, <1>5, ClaimStep DEF HostClaims, CursorStep
    <2> QED
      BY <1>2, <2>1
  <1>6. CASE \E n \in 1 .. MaxClaims : AuthorityArrives(n)
    <2>1. PICK n \in Nat : AuthorityArrives(n)
      BY <1>6, DesktopAssumption
    <2>2. CursorTypes' /\ ClaimsInv' /\ UNCHANGED <<lane, displayLane, fileLane>>
      BY <1>1, <2>1, ArrivalStep DEF AuthorityArrives, CursorStep
    <2> QED
      BY <1>2, <2>2
  <1>7. CASE \/ \E gen \in 0 .. GenMod - 1 : ForeignArrives(gen)
             \/ \E id \in CursorShapes \cup {0} : NoteShape(id)
             \/ DrawShape \/ CursorReconnects
    <2>1. CursorTypes' /\ ClaimsInv'
      BY <1>1, <1>7, PointerStep, Zenon
    <2>2. UNCHANGED <<lane, displayLane, fileLane>>
      BY <1>7, Zenon DEF ForeignArrives, NoteShape, DrawShape, CursorReconnects, CursorStep
    <2> QED
      BY <1>2, <2>1, <2>2
  <1>8. CASE \E req \in Modes : RequestMode(req)
    <2>1. DisplayTypes' /\ AnswersInv' /\ UNCHANGED <<lane, cursorLane, fileLane>>
      BY <1>1, <1>8, RequestStep, Zenon DEF RequestMode, DisplayStep
    <2> QED
      BY <1>3, <2>1
  <1>9. CASE \/ \E reply \in {"applied", "downgraded", "rejected"} : HostAnswers(reply)
             \/ \E out \in DeskOutputs : Unplug(out)
    <2>1. DisplayTypes' /\ AnswersInv'
      BY <1>1, <1>9, HostStep, Zenon
    <2>2. UNCHANGED <<lane, cursorLane, fileLane>>
      BY <1>9, Zenon DEF HostAnswers, Unplug, DisplayStep
    <2> QED
      BY <1>3, <2>1, <2>2
  <1>10. CASE ClientHears
    <2>1. DisplayTypes' /\ AnswersInv' /\ UNCHANGED <<lane, cursorLane, fileLane>>
      BY <1>1, <1>10, HearStep, Zenon DEF ClientHears, DisplayStep
    <2> QED
      BY <1>3, <2>1
  <1>11. CASE \/ \E size \in 0 .. Chunks, name \in {{}, {"reserved"}} : Offer(size, name)
              \/ Accept \/ Commit \/ Cancel
              \/ \E from, to \in 1 .. Chunks : Receive(from, to)
    <2>1. FileTypes' /\ FileInv'
      BY <1>1, <1>11, FileStepKeeps, Zenon
    <2>2. UNCHANGED <<lane, cursorLane, displayLane>>
      BY <1>11, Zenon DEF Offer, Accept, Commit, Cancel, Receive, FileStep
    <2> QED
      BY <1>4, <2>1, <2>2
  <1>12. CASE UNCHANGED desktopVars
    <2>1. UNCHANGED <<lane, displayLane, fileLane>> /\ UNCHANGED cursorLane
      BY <1>12 DEF desktopVars
    <2>2. CursorTypes' /\ ClaimsInv'
      BY <1>1, <2>1, ClaimsKept, Zenon DEF CursorTypes, cursorLane
    <2> QED
      BY <1>2, <2>1, <2>2
  <1> QED
    BY <1>5, <1>6, <1>7, <1>8, <1>9, <1>10, <1>11, <1>12 DEF DesktopNext

LEMMA DesktopSuffices == ASSUME DesktopInv PROVE DesktopAgrees
  <1>1. /\ DOMAIN pointer = {"native", "browser"} /\ pointer.native = pointer.browser
        /\ selection.native = selection.browser
    BY DEF DesktopInv, CursorTypes, ClaimsInv, AnswersInv
  <1>2. AuthorityIsNewest /\ TakenShapeDrawn
    BY <1>1, Zenon DEF DesktopInv, ClaimsInv, AuthorityIsNewest, TakenShapeDrawn
  <1>3. MirrorsAgree
    BY <1>1 DEF MirrorsAgree
  <1>4. PICK way \in [Nat -> DeskModes] : Leads(way)
    BY Zenon DEF DesktopInv, AnswersInv
  <1>5. PICK s \in Selections : s = selection.native
    BY DEF DesktopInv, DisplayTypes
  <1>6. SelectionConverges
    <2>1. SUFFICES ASSUME asked = <<>>, answered = <<>>
                   PROVE  selection.native = [applied |-> display.mode, pending |-> NoMode]
      BY DEF SelectionConverges
    <2>2. Len(answered) = 0 /\ ~\E k \in 1 .. Len(answered) : TRUE
      BY <2>1
    <2>3. s.applied = display.mode
      BY <1>4, <1>5, <2>2, Zenon DEF Leads
    <2>4. s.pending = NoMode
      BY <1>5, <2>1, <2>2, Zenon DEF DesktopInv, AnswersInv, ReplyFacts
    <2>5. s = [applied |-> s.applied, pending |-> s.pending]
      OBVIOUS
    <2> QED
      BY <1>5, <2>3, <2>4, <2>5, Zenon
  <1>7. GhostOutputNoticed
    <2>1. answered \in Seq(Replies) /\ Len(answered) \in Nat /\ DOMAIN answered = 1 .. Len(answered)
      <3> HIDE DEF Replies
      <3> QED
        BY DEF DesktopInv, DisplayTypes
    <2>2. 0 \in 0 .. Len(answered) /\ 0 + 1 = 1
      BY <2>1
    <2>3. Noticed(selection.native.applied, 0)
      BY <1>4, <2>2, Zenon DEF Leads
    <2> QED
      BY <2>1, <2>2, <2>3, Zenon DEF Noticed, GhostOutputNoticed
  <1>8. /\ transfer.received \in Nat /\ transfer.total \in Nat /\ Quota \in Nat /\ Len(disk) = transfer.received
        /\ transfer.received <= transfer.total /\ (transfer.received # 0 => transfer.total <= Quota)
    BY DesktopAssumption DEF DesktopInv, FileTypes, FileInv
  <1>9. Len(disk) <= Quota
    BY <1>8
  <1>10. TransferBounded /\ CommitIsWhole
    BY <1>8, <1>9, Zenon DEF TransferBounded, CommitIsWhole, InPhase, DesktopInv, FileInv
  <1> QED
    BY <1>2, <1>3, <1>6, <1>7, <1>10 DEF DesktopAgrees

\* Host, native client and browser agree about cursor and display whenever nothing is in flight,
\* though claims are repeated and overtaken around the ring of generations and unplugs cross
\* requests, and a file is committed whole or not at all (desktop_control.rs, desktop_control.ts,
\* file_transfer.rs).
THEOREM DesktopInAgreement == DesktopSpec => []DesktopAgrees
  <1>1. DesktopInit => DesktopInv
    BY DesktopStart
  <1>2. DesktopInv /\ [DesktopNext]_desktopVars => DesktopInv'
    BY DesktopStepKeeps
  <1>3. DesktopInv => DesktopAgrees
    BY DesktopSuffices
  <1> QED
    BY <1>1, <1>2, <1>3, PTL DEF DesktopSpec

(***************************************************************************)
(* The browser's session.  Somebody cares for a restarted session because  *)
(* every restart arms its successor or tells the user, and only a ladder   *)
(* that starts or a failure that is told disarms it.  A socket is left     *)
(* open, or opens without its Init, only through a stray or an overlap     *)
(* because a restart retires socket, transport and ladder before it waits. *)
(***************************************************************************)

\* No more restarts than new sockets, and somebody cares for a session that was
\* restarted.
RecoveryInv ==
    /\ restartAttempts < ws + restarting
    /\ ws + restarting <= MaxSockets
    /\ ws > 1 \/ restarting > 0 => timer \/ wd.run \/ told
    /\ OneRecoveryOwner

\* A restart retires what it replaces before it waits, and only restarts that
\* overlap can find it alive again.
RetireInv ==
    /\ restarting > 1 => overlapped
    /\ \A s \in Sockets : s > ws => sock[s] = "none"
    /\ LeakNeedsOverlap
    /\ restarting > 0 /\ ~overlapped =>
          sock[ws] \notin {"connecting", "open"} /\ transport = 0 /\ ~video /\ ~wd.run

\* The first message a socket carries is its Init.
InitFirst ==
    stray \/ overlapped \/
      /\ \A s \in Sockets : server[s] # "refused"
      /\ sock[ws] = "connecting" => Len(sendBuf) > 0 /\ sendBuf[1] = "Init"
      /\ sock[ws] = "open" => server[ws] # "idle"
      /\ restarting > 0 => sendBuf = <<>>

\* Only a WebRTC attempt negotiates.
NegotiationInv == \A s \in Sockets : conn[s] = "negotiating" => kind[s] = "webrtc"

BrowserInv == BrowserTypeOK /\ RecoveryInv /\ RetireInv /\ InitFirst /\ NegotiationInv

\* The counters are numbers and this.ws is one of the sockets.
LEMMA BrowserTyped == ASSUME BrowserInv PROVE
    /\ ws \in Nat /\ ws >= 1 /\ ws <= MaxSockets /\ MaxSockets \in Nat /\ ws \in Sockets
    /\ restarting \in Nat /\ restartAttempts \in Nat /\ RestartMax \in Nat
  BY BrowserBounds DEF BrowserInv, BrowserTypeOK, Sockets

\* What a step that leaves a part of the state alone keeps.
LEMMA RecoveryKept ==
  ASSUME RecoveryInv, UNCHANGED <<ws, restarting, restartAttempts, timer, wd, told, ready>>
  PROVE  RecoveryInv'
  BY DEF RecoveryInv, OneRecoveryOwner

LEMMA RetireKept ==
  ASSUME RetireInv, UNCHANGED <<ws, restarting, overlapped, sock, transport, video, wd>>
  PROVE  RetireInv'
  BY DEF RetireInv, LeakNeedsOverlap

LEMMA InitFirstKept ==
  ASSUME InitFirst, UNCHANGED <<stray, overlapped, server, sock, ws, sendBuf, restarting>>
  PROVE  InitFirst'
  BY DEF InitFirst

Watchdogs == [run : BOOLEAN, paused : BOOLEAN, rung : 0..LastRung]

\* The ladder as a record: stopped, started, and at another rung.
LEMMA Rungs == 0 \in 0..LastRung /\ LastRung \in Nat
  BY BrowserBounds, SMT DEF LastRung

LEMMA StoppedWatchdog ==
  ASSUME NEW w \in Watchdogs
  PROVE  StopWatchdog(w) \in Watchdogs /\ ~StopWatchdog(w).run
  BY Rungs, Zenon DEF Watchdogs, StopWatchdog

LEMMA Rerung ==
  ASSUME NEW w \in Watchdogs, NEW n \in 0..LastRung
  PROVE  [w EXCEPT !.rung = n] \in Watchdogs /\ [w EXCEPT !.rung = n].run = w.run
  BY Zenon DEF Watchdogs

LEMMA WatchdogStarted == StartedWatchdog \in Watchdogs /\ StartedWatchdog.run
  BY Rungs, Zenon DEF Watchdogs, StartedWatchdog

\* restartSessionWithFreshWs up to its wait.
LEMMA RestartKeeps ==
  ASSUME BrowserInv, BeginRestart, UNCHANGED <<ws, server, stray>>
  PROVE  /\ complete' \in BOOLEAN /\ video' \in BOOLEAN /\ ready' \in BOOLEAN
         /\ timer' \in BOOLEAN /\ told' \in BOOLEAN /\ overlapped' \in BOOLEAN
         /\ transport' \in 0..MaxSockets
         /\ sock' \in [Sockets -> {"none", "connecting", "open", "closing", "closed"}]
         /\ sendBuf' \in Seq({"Init", "StartStream", "Other"})
         /\ tabPeer' \in [Sockets -> {"none", "new", "up", "dead"}]
         /\ restartAttempts' \in 0..(MaxSockets + 1) /\ restarting' \in 0..MaxSockets
         /\ wd' \in Watchdogs
         /\ RecoveryInv' /\ RetireInv' /\ InitFirst'
  <1> USE BrowserTyped
  <1>1. wd' \in Watchdogs /\ ~wd'.run
    BY StoppedWatchdog DEF BeginRestart, WatchdogRetired, BrowserInv, BrowserTypeOK, Watchdogs
  <1>2. complete' \in BOOLEAN /\ video' = FALSE /\ ready' = FALSE /\ transport' = 0 /\ sendBuf' = <<>>
    BY Zenon DEF BeginRestart, OldBufferCleared
  <1>3. overlapped' \in BOOLEAN /\ (overlapped => overlapped') /\ (~overlapped' => restarting = 0)
    <2>1. overlapped' = (overlapped \/ restarting > 0)
      BY Zenon DEF BeginRestart
    <2>2. overlapped \in BOOLEAN
      BY DEF BrowserInv, BrowserTypeOK
    <2>3. CASE restarting > 0
      <3>1. overlapped' = TRUE
        BY <2>1, <2>2, <2>3, Zenon
      <3> QED BY <3>1
    <2>4. CASE ~(restarting > 0)
      <3>1. overlapped' = overlapped
        BY <2>1, <2>2, <2>4, Zenon
      <3>2. restarting = 0
        BY <2>4
      <3> QED BY <2>2, <3>1, <3>2, Zenon
    <2> QED BY <2>3, <2>4
  <1>4. /\ restartAttempts' = restartAttempts + 1 /\ restarting' = restarting + 1
        /\ ws + restarting < MaxSockets
    BY DEF BeginRestart, Arm
  <1>5. timer' \in BOOLEAN /\ told' \in BOOLEAN /\ (timer' \/ told')
    <2>1. /\ timer' = (restartAttempts + 1 <= RestartMax)
          /\ told' = (restartAttempts + 1 > RestartMax)
      BY Zenon DEF BeginRestart, Arm
    <2>2. CASE restartAttempts + 1 <= RestartMax
      <3>1. (restartAttempts + 1 > RestartMax) = FALSE
        BY <2>2
      <3>2. (restartAttempts + 1 <= RestartMax) = TRUE
        BY <2>2
      <3> QED BY <2>1, <3>1, <3>2, Zenon
    <2>3. CASE restartAttempts + 1 > RestartMax
      <3>1. (restartAttempts + 1 <= RestartMax) = FALSE
        BY <2>3
      <3>2. (restartAttempts + 1 > RestartMax) = TRUE
        BY <2>3
      <3> QED BY <2>1, <3>1, <3>2, Zenon
    <2> QED BY <2>2, <2>3
  <1>6. sock' \in [Sockets -> {"none", "connecting", "open", "closing", "closed"}]
    BY DEF BeginRestart, OldSocketClosed, BrowserInv, BrowserTypeOK
  <1>7. sock'[ws] \notin {"connecting", "open"} /\ \A s \in Sockets : s # ws => sock'[s] = sock[s]
    BY DEF BeginRestart, OldSocketClosed, BrowserInv, BrowserTypeOK
  <1>8. tabPeer' \in [Sockets -> {"none", "new", "up", "dead"}]
    BY DEF BeginRestart, BrowserInv, BrowserTypeOK
  <1>9. restartAttempts' \in 0..(MaxSockets + 1) /\ restarting' \in 0..MaxSockets
    BY <1>4 DEF BrowserInv, RecoveryInv
  <1>10. RecoveryInv'
    BY <1>1, <1>4, <1>5 DEF BrowserInv, RecoveryInv, OneRecoveryOwner
  <1>11. RetireInv'
    BY <1>1, <1>2, <1>3, <1>4, <1>7 DEF BrowserInv, RetireInv, LeakNeedsOverlap
  <1>12. InitFirst'
    BY <1>2, <1>3, <1>7 DEF BrowserInv, InitFirst
  <1>13. transport' \in 0..MaxSockets /\ sendBuf' \in Seq({"Init", "StartStream", "Other"})
    BY <1>2
  <1> QED BY <1>1, <1>2, <1>3, <1>5, <1>6, <1>8, <1>9, <1>10, <1>11, <1>12, <1>13, Zenon
  SockStates == {"none", "connecting", "open", "closing", "closed"}

\* Sockets close, and that is all that happens to them.
Ebbs ==
    /\ sock' \in [Sockets -> SockStates]
    /\ \A s \in Sockets : sock'[s] = sock[s] \/ (sock[s] # "none" /\ sock'[s] = "closed")

\* A closing socket brings nothing back to life.
LEMMA EbbKeeps ==
  ASSUME BrowserInv, Ebbs, UNCHANGED <<ws, restarting, overlapped, transport, video>>,
         wd'.run => wd.run
  PROVE  RetireInv' /\ (UNCHANGED <<server, sendBuf, stray>> => InitFirst')
  <1> USE BrowserTyped
  <1>1. RetireInv'
    BY DEF BrowserInv, RetireInv, LeakNeedsOverlap, Ebbs
  <1>2. UNCHANGED <<server, sendBuf, stray>> => InitFirst'
    BY DEF BrowserInv, InitFirst, Ebbs
  <1> QED BY <1>1, <1>2

\* Two ways in which sockets do no more than close.
LEMMA NothingEbbs ==
  ASSUME BrowserInv, UNCHANGED sock
  PROVE  Ebbs
  BY DEF BrowserInv, BrowserTypeOK, Ebbs, SockStates

LEMMA SocketEbbs ==
  ASSUME BrowserInv, NEW s \in Sockets, sock[s] # "none", sock' = [sock EXCEPT ![s] = "closed"]
  PROVE  Ebbs
  BY DEF BrowserInv, BrowserTypeOK, Ebbs, SockStates

\* The user is told and the ladder is off.
LEMMA GivingUpKeeps ==
  ASSUME BrowserInv, wd' = StopWatchdog(wd), told' = TRUE,
         UNCHANGED <<ws, restarting, restartAttempts, timer, ready>>
  PROVE  RecoveryInv' /\ wd' \in Watchdogs /\ ~wd'.run
  <1>1. wd' \in Watchdogs /\ ~wd'.run
    BY StoppedWatchdog DEF BrowserInv, BrowserTypeOK, Watchdogs
  <1>2. RecoveryInv'
    BY <1>1 DEF BrowserInv, RecoveryInv, OneRecoveryOwner
  <1> QED BY <1>1, <1>2

\* tryDispatchVideoReady
LEMMA DispatchKeeps ==
  ASSUME BrowserInv, NEW c \in BOOLEAN, NEW v \in BOOLEAN, Dispatch(c, v),
         v = video \/ transport # 0,
         UNCHANGED <<ws, restarting, overlapped, sock, transport>>
  PROVE  /\ complete' \in BOOLEAN /\ video' \in BOOLEAN /\ ready' \in BOOLEAN
         /\ restartAttempts' \in 0..(MaxSockets + 1) /\ timer' \in BOOLEAN
         /\ wd' \in Watchdogs /\ told' \in BOOLEAN
         /\ RecoveryInv' /\ RetireInv'
  <1> USE BrowserTyped
  <1>0. complete' = c /\ video' = v
    BY Zenon DEF Dispatch
  <1>1. CASE c /\ v /\ ~ready
    <2>1. /\ ready' = TRUE /\ restartAttempts' = 0 /\ timer' = FALSE
          /\ wd' = StartedWatchdog /\ told' = FALSE
      BY <1>1, Zenon DEF Dispatch
    <2>2. wd' \in Watchdogs /\ wd'.run
      BY <2>1, WatchdogStarted
    <2>3. RecoveryInv'
      BY <2>1, <2>2 DEF BrowserInv, RecoveryInv, OneRecoveryOwner
    <2>4. restarting > 0 => overlapped
      BY <1>1 DEF BrowserInv, RetireInv
    <2>5. RetireInv'
      BY <2>4 DEF BrowserInv, RetireInv, LeakNeedsOverlap
    <2>6. restartAttempts' \in 0..(MaxSockets + 1)
      BY <2>1
    <2> QED BY <1>0, <2>1, <2>2, <2>3, <2>5, <2>6, Zenon
  <1>2. CASE ~(c /\ v /\ ~ready)
    <2>1. UNCHANGED <<ready, restartAttempts, timer, wd, told>>
      BY <1>2, Zenon DEF Dispatch
    <2>2. RecoveryInv'
      BY <2>1, RecoveryKept DEF BrowserInv
    <2>3. restarting > 0 /\ ~overlapped => ~v
      BY DEF BrowserInv, RetireInv
    <2>4. RetireInv'
      BY <1>0, <2>1, <2>3 DEF BrowserInv, RetireInv, LeakNeedsOverlap
    <2> QED BY <1>0, <2>1, <2>2, <2>4, Zenon DEF BrowserInv, BrowserTypeOK, Watchdogs
  <1> QED BY <1>1, <1>2

\* The end of startConnection().
LEMMA EndKeeps ==
  ASSUME BrowserInv, NEW s \in Sockets, NEW c \in BOOLEAN, EndConnection(s, c),
         UNCHANGED <<desired, ws, server, kind, completing, polling, hidden, stray>>,
         ~(desired = "auto" /\ kind[s] = "webrtc" /\ ~c) =>
            Ebbs /\ tabPeer' \in [Sockets -> {"none", "new", "up", "dead"}]
  PROVE  BrowserInv'
  <1>1. conn' \in [Sockets -> {"none", "pipelines", "negotiating", "connected", "done"}]
    BY DEF EndConnection, BrowserInv, BrowserTypeOK
  <1>2. NegotiationInv'
    BY DEF EndConnection, BrowserInv, BrowserTypeOK, NegotiationInv
  <1>3. CASE desired = "auto" /\ kind[s] = "webrtc" /\ ~c
    <2>1. override' = TRUE /\ BeginRestart
      BY <1>3, Zenon DEF EndConnection
    <2>2. BrowserTypeOK'
      BY <1>1, <2>1, RestartKeeps, Zenon DEF BrowserInv, BrowserTypeOK, Watchdogs
    <2> QED BY <1>2, <2>1, <2>2, RestartKeeps DEF BrowserInv
  <1>4. CASE ~(desired = "auto" /\ kind[s] = "webrtc" /\ ~c)
    <2>1. /\ wd' = StopWatchdog(wd) /\ told' = TRUE
          /\ UNCHANGED <<override, complete, video, ready, restartAttempts, timer, transport,
                         sendBuf, restarting, overlapped>>
      BY <1>4, Zenon DEF EndConnection
    <2>2. wd' \in Watchdogs /\ ~wd'.run /\ RecoveryInv'
      BY <2>1, GivingUpKeeps
    <2>3. BrowserTypeOK'
      BY <1>1, <1>4, <2>1, <2>2, ZenonT(40) DEF BrowserInv, BrowserTypeOK, Watchdogs, Ebbs, SockStates
    <2>4. RetireInv' /\ InitFirst'
      BY <1>4, <2>1, <2>2, EbbKeeps
    <2> QED BY <1>2, <2>2, <2>3, <2>4 DEF BrowserInv
  <1> QED BY <1>3, <1>4

\* What the server makes of a message: it refuses only a first one that is no Init.
LEMMA Taken ==
  ASSUME NEW p \in {"idle", "refused", "init", "ready", "started"}, NEW m
  PROVE  /\ ServerTakes(p, m) \in {"idle", "refused", "init", "ready", "started"}
         /\ p # "refused" /\ (p # "idle" \/ m = "Init")
               => ServerTakes(p, m) \notin {"refused", "idle"}
  BY DEF ServerTakes

\* sendWsMessage while no session is being replaced.
LEMMA SendKeeps ==
  ASSUME BrowserInv, NEW m \in {"StartStream", "Other"}, SendWs(m),
         UNCHANGED <<sock, ws, restarting, overlapped>>,
         stray => stray', restarting > 0 => overlapped' \/ stray'
  PROVE  /\ server' \in [Sockets -> {"idle", "refused", "init", "ready", "started"}]
         /\ sendBuf' \in Seq({"Init", "StartStream", "Other"})
         /\ InitFirst'
  <1> USE BrowserTyped
  <1>0. /\ server \in [Sockets -> {"idle", "refused", "init", "ready", "started"}]
        /\ sendBuf \in Seq({"Init", "StartStream", "Other"})
    BY DEF BrowserInv, BrowserTypeOK
  <1>1. CASE sock[ws] = "open"
    <2>1. server' = [server EXCEPT ![ws] = ServerTakes(server[ws], m)] /\ sendBuf' = sendBuf
      BY <1>1 DEF SendWs
    <2>2. server[ws] \in {"idle", "refused", "init", "ready", "started"}
      BY <1>0
    <2>3. /\ ServerTakes(server[ws], m) \in {"idle", "refused", "init", "ready", "started"}
          /\ server[ws] \notin {"refused", "idle"}
                 => ServerTakes(server[ws], m) \notin {"refused", "idle"}
      BY <2>2, Taken
    <2> HIDE DEF ServerTakes
    <2>4. server' \in [Sockets -> {"idle", "refused", "init", "ready", "started"}]
      BY <1>0, <2>1, <2>3
    <2>5. InitFirst'
      BY <1>0, <1>1, <2>1, <2>3 DEF BrowserInv, InitFirst
    <2> QED BY <1>0, <2>1, <2>4, <2>5
  <1>2. CASE sock[ws] # "open"
    <2>1. /\ server' = server
          /\ sendBuf' = sendBuf \/ sendBuf' = Append(sendBuf, m)
      BY <1>2 DEF SendWs
    <2>2. sendBuf' \in Seq({"Init", "StartStream", "Other"})
      BY <1>0, <2>1, SMTT(40)
    <2>3. Len(sendBuf) > 0 => Len(sendBuf') > 0 /\ sendBuf'[1] = sendBuf[1]
      BY <1>0, <2>1
    <2>4. InitFirst'
      BY <1>2, <2>1, <2>3 DEF BrowserInv, InitFirst
    <2> QED BY <1>0, <2>1, <2>2, <2>4
  <1> QED BY <1>1, <1>2

\* onWsOpen: the buffer goes to this.ws with its Init first.
LEMMA OpenKeeps ==
  ASSUME BrowserInv, NEW s \in Sockets, OnWsOpen(s)
  PROVE  BrowserInv'
  <1> USE BrowserTyped
  <1>0. /\ server \in [Sockets -> {"idle", "refused", "init", "ready", "started"}]
        /\ sendBuf \in Seq({"Init", "StartStream", "Other"})
        /\ sock \in [Sockets -> SockStates]
    BY DEF BrowserInv, BrowserTypeOK, SockStates
  <1>1. /\ sock[s] = "connecting" /\ sock' = [sock EXCEPT ![s] = "open"]
        /\ UNCHANGED <<desired, override, ws, conn, kind, tabPeer, transport, completing, complete,
                       video, ready, restartAttempts, timer, restarting, wd, polling, hidden, told,
                       overlapped, stray>>
    BY Zenon DEF OnWsOpen
  <1>2. sock' \in [Sockets -> SockStates]
    BY <1>0, <1>1 DEF SockStates
  <1>3. RecoveryInv' /\ NegotiationInv'
    BY <1>1, RecoveryKept DEF BrowserInv, NegotiationInv
  <1>4. RetireInv'
    BY <1>0, <1>1 DEF BrowserInv, RetireInv, LeakNeedsOverlap, SockStates
  <1>5. /\ server' \in [Sockets -> {"idle", "refused", "init", "ready", "started"}]
        /\ sendBuf' \in Seq({"Init", "StartStream", "Other"})
        /\ InitFirst'
    <2>1. CASE s = ws
      <3> DEFINE p == IF sendBuf = <<>> THEN server[s] ELSE ServerTakes(server[s], sendBuf[1])
      <3>1. server' = [server EXCEPT ![s] = p] /\ sendBuf' = <<>>
        BY <2>1, <1>0 DEF OnWsOpen
      <3>2. server[s] \in {"idle", "refused", "init", "ready", "started"}
        BY <1>0
      <3>3. p \in {"idle", "refused", "init", "ready", "started"}
        BY <3>2, Taken, Zenon
      <3>4. stray \/ overlapped \/ (sendBuf # <<>> /\ sendBuf[1] = "Init" /\ server[s] # "refused")
        BY <1>0, <1>1, <2>1 DEF BrowserInv, InitFirst
      <3>5. stray \/ overlapped \/ p \notin {"refused", "idle"}
        BY <3>2, <3>4, Taken, Zenon
      <3> HIDE DEF p
      <3>6. server' \in [Sockets -> {"idle", "refused", "init", "ready", "started"}]
        BY <1>0, <3>1, <3>3
      <3>7. InitFirst'
        BY <1>0, <1>1, <2>1, <3>1, <3>5 DEF BrowserInv, InitFirst
      <3> QED BY <3>1, <3>6, <3>7
    <2>2. CASE s # ws
      <3>1. server' = server /\ sendBuf' = sendBuf
        BY <2>2 DEF OnWsOpen
      <3>2. InitFirst'
        BY <1>0, <1>1, <2>2, <3>1 DEF BrowserInv, InitFirst
      <3> QED BY <1>0, <3>1, <3>2
    <2> QED BY <2>1, <2>2
  <1>6. BrowserTypeOK'
    BY <1>1, <1>2, <1>5, SMTT(40) DEF BrowserInv, BrowserTypeOK, SockStates
  <1> QED BY <1>3, <1>4, <1>5, <1>6 DEF BrowserInv

\* A new socket and its Init, behind an empty buffer unless somebody strayed.
LEMMA FreshKeeps ==
  ASSUME BrowserInv, FreshSocket
  PROVE  BrowserInv'
  <1> USE BrowserTyped
  <1>0. /\ sendBuf \in Seq({"Init", "StartStream", "Other"})
        /\ sock \in [Sockets -> SockStates] /\ ws + restarting <= MaxSockets
    BY DEF BrowserInv, BrowserTypeOK, SockStates, RecoveryInv
  <1>1. /\ restarting > 0 /\ restarting' = restarting - 1 /\ ws' = ws + 1
        /\ sock' = [sock EXCEPT ![ws + 1] = "connecting"] /\ sendBuf' = Append(sendBuf, "Init")
        /\ UNCHANGED <<desired, override, server, conn, kind, tabPeer, transport, completing,
                       complete, video, ready, restartAttempts, timer, wd, polling, hidden, told,
                       overlapped, stray>>
    BY DEF FreshSocket
  <1>2. ws' \in Sockets /\ restarting' \in 0..MaxSockets
    BY <1>0, <1>1 DEF Sockets
  <1>3. sock' \in [Sockets -> SockStates] /\ sendBuf' \in Seq({"Init", "StartStream", "Other"})
    <2>1. sock' \in [Sockets -> SockStates]
      BY <1>0, <1>1 DEF SockStates
    <2>2. sendBuf' \in Seq({"Init", "StartStream", "Other"})
      BY <1>0, <1>1, SMTT(40)
    <2> QED BY <2>1, <2>2
  <1>4. RecoveryInv'
    BY <1>0, <1>1 DEF BrowserInv, RecoveryInv, OneRecoveryOwner
  <1>5. RetireInv'
    BY <1>0, <1>1, <1>2 DEF BrowserInv, RetireInv, LeakNeedsOverlap, SockStates
  <1>6. InitFirst'
    <2>1. CASE stray \/ overlapped
      BY <2>1, <1>1 DEF InitFirst
    <2>2. CASE ~stray /\ ~overlapped
      <3>1. sendBuf = <<>> /\ restarting = 1 /\ \A t \in Sockets : server[t] # "refused"
        BY <1>1, <2>2 DEF BrowserInv, InitFirst, RetireInv
      <3>2. Len(sendBuf') > 0 /\ sendBuf'[1] = "Init"
        BY <1>1, <3>1
      <3>3. sock'[ws'] = "connecting"
        BY <1>0, <1>1, <1>2
      <3> QED BY <1>1, <3>1, <3>2, <3>3 DEF InitFirst
    <2> QED BY <2>1, <2>2
  <1>7. BrowserTypeOK'
    BY <1>1, <1>2, <1>3, SMTT(40) DEF BrowserInv, BrowserTypeOK, SockStates
  <1>8. NegotiationInv'
    BY <1>1 DEF BrowserInv, NegotiationInv
  <1> QED BY <1>4, <1>5, <1>6, <1>7, <1>8 DEF BrowserInv

TabPeerStates == [Sockets -> {"none", "new", "up", "dead"}]

\* Setup is only heard on a socket nobody is replacing.
LEMMA SetupKeeps ==
  ASSUME BrowserInv, NEW s \in Sockets, TabOnSetup(s)
  PROVE  BrowserInv'
  <1> USE BrowserTyped
  <1>1. /\ s = ws /\ sock[s] = "open" /\ conn[s] = "none" /\ transport' = s
        /\ kind' = [kind EXCEPT ![s] = ChosenKind] /\ tabPeer' = PeersAfterSet(s)
        /\ server' = [server EXCEPT ![s] = "ready"] /\ conn' = [conn EXCEPT ![s] = "pipelines"]
        /\ UNCHANGED <<desired, override, ws, sock, sendBuf, completing, complete, video, ready,
                       restartAttempts, timer, restarting, wd, polling, hidden, told, overlapped, stray>>
    BY DEF TabOnSetup
  <1>2. tabPeer' \in TabPeerStates
    BY <1>1 DEF PeersAfterSet, BrowserInv, BrowserTypeOK, TabPeerStates
  <1>3. ChosenKind \in {"none", "webrtc", "websocket"}
    BY DEF ChosenKind
  <1>4. BrowserTypeOK'
    BY <1>1, <1>2, <1>3 DEF BrowserInv, BrowserTypeOK, TabPeerStates, Sockets
  <1>5. RecoveryInv'
    BY <1>1, RecoveryKept DEF BrowserInv
  <1>6. RetireInv'
    BY <1>1 DEF BrowserInv, RetireInv, LeakNeedsOverlap
  <1>7. InitFirst'
    BY <1>1 DEF BrowserInv, BrowserTypeOK, InitFirst
  <1>8. NegotiationInv'
    BY <1>1, <1>3 DEF BrowserInv, BrowserTypeOK, NegotiationInv
  <1> QED BY <1>4, <1>5, <1>6, <1>7, <1>8 DEF BrowserInv

\* startStream: a call that writes while its session is replaced is a stray.
LEMMA PipelinesReadyKeeps ==
  ASSUME BrowserInv, NEW s \in Sockets, PipelinesReady(s)
  PROVE  BrowserInv'
  <1>1. /\ SendWs("StartStream") /\ stray' = (stray \/ s # ws \/ restarting > 0)
        /\ conn' = [conn EXCEPT ![s] = AfterStart(s)]
        /\ UNCHANGED <<desired, override, ws, sock, kind, tabPeer, transport, completing, complete,
                       video, ready, restartAttempts, timer, restarting, wd, polling, hidden, told,
                       overlapped>>
    BY Zenon DEF PipelinesReady, StartStream
  <1>2. stray' \in BOOLEAN /\ (stray => stray') /\ (restarting > 0 => stray')
    BY <1>1, Zenon
  <1>3. /\ server' \in [Sockets -> {"idle", "refused", "init", "ready", "started"}]
        /\ sendBuf' \in Seq({"Init", "StartStream", "Other"})
        /\ InitFirst'
    BY <1>1, <1>2, SendKeeps
  <1>4. AfterStart(s) \in {"negotiating", "connected"} /\ (AfterStart(s) = "negotiating" => kind[s] = "webrtc")
    BY DEF AfterStart
  <1>5. conn' \in [Sockets -> {"none", "pipelines", "negotiating", "connected", "done"}]
    BY <1>1, <1>4 DEF BrowserInv, BrowserTypeOK
  <1>6. BrowserTypeOK'
    BY <1>1, <1>2, <1>3, <1>5 DEF BrowserInv, BrowserTypeOK
  <1>7. RecoveryInv' /\ RetireInv'
    BY <1>1, RecoveryKept, RetireKept DEF BrowserInv
  <1>8. NegotiationInv'
    BY <1>1, <1>4 DEF BrowserInv, BrowserTypeOK, NegotiationInv
  <1> QED BY <1>3, <1>6, <1>7, <1>8 DEF BrowserInv

\* The ways a call of startConnection() ends, and the close event.
LEMMA EndingsKeep ==
  ASSUME BrowserInv, NEW s \in Sockets,
         PipelinesFailed(s) \/ PeerFails(s) \/ NegotiationTimeout(s) \/ OnWsClose(s)
  PROVE  BrowserInv'
  <1> USE BrowserTyped
  <1>0. tabPeer \in TabPeerStates
    BY DEF BrowserInv, BrowserTypeOK, TabPeerStates
  <1>1. CASE PipelinesFailed(s)
    <2>1. /\ EndConnection(s, FALSE)
          /\ UNCHANGED <<desired, ws, server, kind, completing, polling, hidden, stray>>
      BY <1>1 DEF PipelinesFailed
    <2>2. ~(desired = "auto" /\ kind[s] = "webrtc" /\ ~FALSE) => Ebbs /\ tabPeer' \in TabPeerStates
      BY <1>0, <1>1, NothingEbbs DEF PipelinesFailed, TabPeerStates
    <2> QED BY <2>1, <2>2, EndKeeps DEF TabPeerStates
  <1>2. CASE PeerFails(s)
    <2>1. /\ EndConnection(s, conn[s] = "connected")
          /\ UNCHANGED <<desired, ws, server, kind, completing, polling, hidden, stray>>
          /\ conn[s] \in {"negotiating", "connected"}
          /\ ~(desired = "auto" /\ conn[s] = "negotiating") =>
                tabPeer' = [tabPeer EXCEPT ![s] = "dead"] /\ sock' = sock
      BY <1>2, Zenon DEF PeerFails
    <2>2. ~(desired = "auto" /\ kind[s] = "webrtc" /\ ~(conn[s] = "connected"))
             => Ebbs /\ tabPeer' \in TabPeerStates
      BY <1>0, <2>1, NothingEbbs DEF TabPeerStates, BrowserInv, NegotiationInv
    <2>3. (conn[s] = "connected") \in BOOLEAN
      OBVIOUS
    <2> QED BY <2>1, <2>2, <2>3, EndKeeps DEF TabPeerStates
  <1>3. CASE NegotiationTimeout(s)
    <2>1. /\ EndConnection(s, FALSE)
          /\ UNCHANGED <<desired, ws, server, kind, completing, polling, hidden, stray>>
          /\ kind[s] = "webrtc"
          /\ desired # "auto" => tabPeer' = [tabPeer EXCEPT ![s] = "dead"] /\ sock' = sock
      BY <1>3 DEF NegotiationTimeout, BrowserInv, NegotiationInv
    <2>2. ~(desired = "auto" /\ kind[s] = "webrtc" /\ ~FALSE) => Ebbs /\ tabPeer' \in TabPeerStates
      BY <1>0, <2>1, NothingEbbs DEF TabPeerStates
    <2> QED BY <2>1, <2>2, EndKeeps DEF TabPeerStates
  <1>4. CASE OnWsClose(s)
    <2>1. /\ sock[s] # "none" /\ sock' = [sock EXCEPT ![s] = "closed"]
          /\ UNCHANGED <<desired, ws, server, kind, completing, polling, hidden, stray>>
      BY <1>4 DEF OnWsClose
    <2>2. Ebbs
      BY <2>1, SocketEbbs
    <2>3. CASE kind[s] = "websocket" /\ conn[s] = "connected"
      <3>1. EndConnection(s, TRUE) /\ tabPeer' = tabPeer
        BY <1>4, <2>3 DEF OnWsClose
      <3> QED BY <1>0, <2>1, <2>2, <3>1, EndKeeps DEF TabPeerStates
    <2>4. CASE ~(kind[s] = "websocket" /\ conn[s] = "connected")
      <3>1. UNCHANGED <<conn, override, complete, video, ready, restartAttempts, timer, tabPeer,
                        transport, sendBuf, restarting, overlapped, wd, told>>
        BY <1>4, <2>4 DEF OnWsClose
      <3>2. RecoveryInv' /\ RetireInv' /\ InitFirst'
        BY <2>1, <2>2, <3>1, RecoveryKept, EbbKeeps DEF BrowserInv
      <3>3. BrowserTypeOK'
        BY <2>1, <2>2, <3>1 DEF BrowserInv, BrowserTypeOK, Ebbs, SockStates
      <3>4. NegotiationInv'
        BY <2>1, <3>1 DEF BrowserInv, NegotiationInv
      <3> QED BY <3>2, <3>3, <3>4 DEF BrowserInv
    <2> QED BY <2>3, <2>4
  <1> QED BY <1>1, <1>2, <1>3, <1>4

\* Messages and frames of the session.
LEMMA ReadinessKeeps ==
  ASSUME BrowserInv, NEW s \in Sockets,
         MarkConnectionComplete(s) \/ OnVideo(s) \/ TabOnConnectionTerminated(s)
  PROVE  BrowserInv'
  <1> USE BrowserTyped
  <1>0. complete \in BOOLEAN /\ video \in BOOLEAN /\ wd \in Watchdogs
    BY DEF BrowserInv, BrowserTypeOK, Watchdogs
  <1>1. /\ UNCHANGED <<desired, override, ws, sock, server, sendBuf, conn, kind, tabPeer, transport,
                       restarting, polling, hidden, overlapped, stray>>
        /\ completing' \subseteq Sockets
    BY DEF MarkConnectionComplete, OnVideo, TabOnConnectionTerminated, BrowserInv, BrowserTypeOK
  <1>2. InitFirst' /\ NegotiationInv'
    BY <1>1, InitFirstKept DEF BrowserInv, NegotiationInv
  <1>3. SUFFICES /\ complete' \in BOOLEAN /\ video' \in BOOLEAN /\ ready' \in BOOLEAN
                 /\ restartAttempts' \in 0..(MaxSockets + 1) /\ timer' \in BOOLEAN
                 /\ wd' \in Watchdogs /\ told' \in BOOLEAN
                 /\ RecoveryInv' /\ RetireInv'
    <2>1. BrowserTypeOK'
      BY <1>1, <1>3 DEF BrowserInv, BrowserTypeOK, Watchdogs
    <2> QED BY <1>2, <1>3, <2>1 DEF BrowserInv
  <1>4. CASE MarkConnectionComplete(s)
    <2>1. Dispatch(TRUE, video)
      BY <1>4 DEF MarkConnectionComplete
    <2> QED BY <1>0, <1>1, <2>1, DispatchKeeps
  <1>5. CASE OnVideo(s)
    <2>1. transport # 0
      BY <1>5 DEF OnVideo, Sockets
    <2>2. CASE kind[s] = "websocket" /\ video
      <3>1. /\ wd' = [wd EXCEPT !.rung = 0]
            /\ UNCHANGED <<complete, video, ready, restartAttempts, timer, told>>
        BY <1>5, <2>2 DEF OnVideo
      <3>2. wd' \in Watchdogs /\ wd'.run = wd.run
        BY <1>0, <3>1, Rungs, Rerung
      <3>3. RecoveryInv'
        BY <1>1, <3>1, <3>2 DEF BrowserInv, RecoveryInv, OneRecoveryOwner
      <3>4. RetireInv'
        BY <1>1, <3>1, <3>2 DEF BrowserInv, RetireInv, LeakNeedsOverlap
      <3> QED BY <1>0, <3>1, <3>2, <3>3, <3>4, Zenon DEF BrowserInv, BrowserTypeOK
    <2>3. CASE ~(kind[s] = "websocket" /\ video)
      <3>1. Dispatch(complete, TRUE)
        BY <1>5, <2>3 DEF OnVideo
      <3> QED BY <1>0, <1>1, <2>1, <3>1, DispatchKeeps
    <2> QED BY <2>2, <2>3
  <1>6. CASE TabOnConnectionTerminated(s)
    <2>1. /\ wd' = StopWatchdog(wd) /\ told' = TRUE
          /\ UNCHANGED <<complete, video, ready, restartAttempts, timer>>
      BY <1>6 DEF TabOnConnectionTerminated
    <2>2. RecoveryInv' /\ wd' \in Watchdogs /\ ~wd'.run
      BY <1>1, <2>1, GivingUpKeeps
    <2>3. RetireInv'
      BY <1>1, <2>1, <2>2 DEF BrowserInv, RetireInv, LeakNeedsOverlap
    <2> QED BY <1>0, <2>1, <2>2, <2>3, Zenon DEF BrowserInv, BrowserTypeOK
  <1> QED BY <1>4, <1>5, <1>6

\* Steps that change the ladder's pause or rung and nothing else the invariant sees.
LEMMA LadderKeeps ==
  ASSUME BrowserInv, wd' \in Watchdogs, wd'.run = wd.run,
         polling' \in BOOLEAN, hidden' \in BOOLEAN,
         UNCHANGED <<desired, override, ws, sock, server, sendBuf, conn, kind, tabPeer, transport,
                     completing, complete, video, ready, restartAttempts, timer, restarting, told,
                     overlapped, stray>>
  PROVE  BrowserInv'
  <1>1. BrowserTypeOK'
    BY DEF BrowserInv, BrowserTypeOK, Watchdogs
  <1>2. RecoveryInv'
    BY DEF BrowserInv, RecoveryInv, OneRecoveryOwner
  <1>3. RetireInv'
    BY DEF BrowserInv, RetireInv, LeakNeedsOverlap
  <1>4. InitFirst' /\ NegotiationInv'
    BY InitFirstKept DEF BrowserInv, NegotiationInv
  <1> QED BY <1>1, <1>2, <1>3, <1>4 DEF BrowserInv

\* A rung of the ladder: it runs only where no restart is under way.
LEMMA TickDueKeeps ==
  ASSUME BrowserInv, TickDue
  PROVE  BrowserInv'
  <1> USE BrowserTyped
  <1>0. wd \in Watchdogs
    BY DEF BrowserInv, BrowserTypeOK, Watchdogs
  <1>1. /\ polling' = FALSE /\ Climb
        /\ UNCHANGED <<desired, override, ws, conn, kind, completing, hidden, stray>>
    BY DEF TickDue
  <1>2. wd.run /\ wd.rung < LastRung
    BY <1>1 DEF Climb
  <1>3. NegotiationInv'
    BY <1>1 DEF BrowserInv, NegotiationInv
  <1>4. CASE wd.rung + 1 = LastRung
    <2>1. BeginRestart /\ server' = server
      BY <1>1, <1>4 DEF Climb
    <2>2. BrowserTypeOK'
      BY <1>1, <2>1, RestartKeeps DEF BrowserInv, BrowserTypeOK, Watchdogs
    <2> QED BY <1>1, <1>3, <2>1, <2>2, RestartKeeps DEF BrowserInv
  <1>5. CASE wd.rung + 1 # LastRung
    <2>1. /\ wd' = [wd EXCEPT !.rung = wd.rung + 1]
          /\ SendWs("Other") \/ UNCHANGED <<sendBuf, server>>
          /\ UNCHANGED <<sock, complete, video, ready, restartAttempts, timer, told, tabPeer,
                         transport, restarting, overlapped>>
      BY <1>1, <1>5 DEF Climb
    <2>2. wd.rung + 1 \in 0..LastRung
      BY <1>0, <1>2, Rungs DEF Watchdogs
    <2>3. wd' \in Watchdogs /\ wd'.run = wd.run
      BY <1>0, <2>1, <2>2, Rerung
    <2>4. restarting > 0 => overlapped'
      BY <1>2, <2>1 DEF BrowserInv, RetireInv
    <2>5. /\ server' \in [Sockets -> {"idle", "refused", "init", "ready", "started"}]
          /\ sendBuf' \in Seq({"Init", "StartStream", "Other"})
          /\ InitFirst'
      <3>1. CASE SendWs("Other")
        BY <1>1, <2>1, <2>4, <3>1, SendKeeps
      <3>2. CASE UNCHANGED <<sendBuf, server>>
        BY <1>1, <2>1, <3>2, InitFirstKept DEF BrowserInv, BrowserTypeOK
      <3> QED BY <2>1, <3>1, <3>2
    <2>6. RecoveryInv'
      BY <1>1, <2>1, <2>3 DEF BrowserInv, RecoveryInv, OneRecoveryOwner
    <2>7. RetireInv'
      BY <1>1, <2>1, <2>3 DEF BrowserInv, RetireInv, LeakNeedsOverlap
    <2>8. BrowserTypeOK'
      BY <1>1, <2>1, <2>3, <2>5, ZenonT(60) DEF BrowserInv, BrowserTypeOK, Watchdogs
    <2> QED BY <1>3, <2>5, <2>6, <2>7, <2>8 DEF BrowserInv
  <1> QED BY <1>4, <1>5

\* The rest of the watchdog.
LEMMA WatchingKeeps ==
  ASSUME BrowserInv, TickBegins \/ TickIdle \/ VisibilityChange
  PROVE  BrowserInv'
  <1>0. wd \in Watchdogs /\ polling \in BOOLEAN /\ hidden \in BOOLEAN
    BY DEF BrowserInv, BrowserTypeOK, Watchdogs
  <1>1. wd' \in Watchdogs /\ wd'.run = wd.run
    <2>1. CASE TickBegins
      BY <1>0, <2>1 DEF TickBegins
    <2>2. CASE TickIdle
      <3>1. wd' = wd \/ wd' = [wd EXCEPT !.rung = 0]
        BY <2>2 DEF TickIdle
      <3> QED BY <1>0, <3>1, Rungs, Rerung
    <2>3. CASE VisibilityChange
      <3>1. wd' = [wd EXCEPT !.paused = ~hidden]
        BY <2>3 DEF VisibilityChange
      <3> QED BY <1>0, <3>1, Zenon DEF Watchdogs
    <2> QED BY <2>1, <2>2, <2>3
  <1>2. polling' \in BOOLEAN /\ hidden' \in BOOLEAN
    BY <1>0, Zenon DEF TickBegins, TickIdle, VisibilityChange
  <1>3. UNCHANGED <<desired, override, ws, sock, server, sendBuf, conn, kind, tabPeer, transport,
                    completing, complete, video, ready, restartAttempts, timer, restarting, told,
                    overlapped, stray>>
    BY DEF TickBegins, TickIdle, VisibilityChange
  <1> QED BY <1>1, <1>2, <1>3, LadderKeeps

\* Steps of a call that touch nothing shared.
LEMMA AsideKeeps ==
  ASSUME BrowserInv, NEW s \in Sockets,
         PipelinesOrphaned(s) \/ PeerConnects(s) \/ TabOnConnectionComplete(s)
  PROVE  BrowserInv'
  <1>1. /\ UNCHANGED <<desired, override, ws, sock, server, sendBuf, kind, transport, complete,
                       video, ready, restartAttempts, timer, restarting, wd, polling, hidden, told,
                       overlapped, stray>>
        /\ tabPeer' = tabPeer \/ tabPeer' = [tabPeer EXCEPT ![s] = "up"]
        /\ completing' = completing \/ completing' = completing \union {s}
        /\ conn' = conn \/ conn' = [conn EXCEPT ![s] = "done"] \/ conn' = [conn EXCEPT ![s] = "connected"]
    <2>1. CASE PipelinesOrphaned(s)
      BY <2>1 DEF PipelinesOrphaned
    <2>2. CASE PeerConnects(s)
      BY <2>2 DEF PeerConnects, BrowserInv, BrowserTypeOK
    <2>3. CASE TabOnConnectionComplete(s)
      BY <2>3 DEF TabOnConnectionComplete
    <2> QED BY <2>1, <2>2, <2>3
  <1>2. BrowserTypeOK'
    BY <1>1 DEF BrowserInv, BrowserTypeOK
  <1>3. NegotiationInv'
    BY <1>1 DEF BrowserInv, BrowserTypeOK, NegotiationInv
  <1> QED BY <1>1, <1>2, <1>3, RecoveryKept, RetireKept, InitFirstKept DEF BrowserInv

\* The retry timer.
LEMMA RetryKeeps ==
  ASSUME BrowserInv, RetryTimer
  PROVE  BrowserInv'
  <1>1. BeginRestart /\ UNCHANGED <<desired, override, ws, server, conn, kind, completing, polling,
                                    hidden, stray>>
    BY DEF RetryTimer
  <1>2. BrowserTypeOK'
    BY <1>1, RestartKeeps DEF BrowserInv, BrowserTypeOK, Watchdogs
  <1>3. NegotiationInv'
    BY <1>1 DEF BrowserInv, NegotiationInv
  <1> QED BY <1>1, <1>2, <1>3, RestartKeeps DEF BrowserInv

\* It holds as the tab opens.
LEMMA BrowserInitially == BrowserInit => BrowserInv
  <1> SUFFICES ASSUME BrowserInit PROVE BrowserInv
    OBVIOUS
  <1> USE BrowserBounds
  <1>1. wd = [run |-> FALSE, paused |-> FALSE, rung |-> 0] /\ ~wd.run
    BY DEF BrowserInit, WatchdogOff
  <1>2. wd \in Watchdogs
    BY <1>1, Rungs, Zenon DEF Watchdogs
  <1>3. BrowserTypeOK
    <2>1. /\ ws \in Sockets /\ transport \in 0..MaxSockets
          /\ restartAttempts \in 0..(MaxSockets + 1) /\ restarting \in 0..MaxSockets
      BY DEF BrowserInit, Sockets
    <2>2. sendBuf \in Seq({"Init", "StartStream", "Other"})
      BY DEF BrowserInit
    <2>3. /\ sock \in [Sockets -> {"none", "connecting", "open", "closing", "closed"}]
          /\ server \in [Sockets -> {"idle", "refused", "init", "ready", "started"}]
          /\ conn \in [Sockets -> {"none", "pipelines", "negotiating", "connected", "done"}]
          /\ kind \in [Sockets -> {"none", "webrtc", "websocket"}]
          /\ tabPeer \in [Sockets -> {"none", "new", "up", "dead"}]
      BY DEF BrowserInit
    <2> QED BY <1>2, <2>1, <2>2, <2>3, Zenon DEF BrowserInit, BrowserTypeOK, Watchdogs
  <1>4. RecoveryInv
    BY <1>1 DEF BrowserInit, RecoveryInv, OneRecoveryOwner
  <1>5. RetireInv
    BY <1>1 DEF BrowserInit, RetireInv, LeakNeedsOverlap, Sockets
  <1>6. InitFirst /\ NegotiationInv
    BY DEF BrowserInit, InitFirst, NegotiationInv, Sockets
  <1> QED BY <1>3, <1>4, <1>5, <1>6 DEF BrowserInv

\* Every step keeps it.
LEMMA BrowserStep == BrowserInv /\ [BrowserNext]_browserVars => BrowserInv'
  <1> SUFFICES ASSUME BrowserInv, [BrowserNext]_browserVars PROVE BrowserInv'
    OBVIOUS
  <1>1. ASSUME NEW s \in Sockets,
               \/ OnWsOpen(s) \/ OnWsClose(s) \/ TabOnSetup(s)
               \/ PipelinesReady(s) \/ PipelinesOrphaned(s) \/ PipelinesFailed(s)
               \/ PeerConnects(s) \/ PeerFails(s) \/ NegotiationTimeout(s)
               \/ TabOnConnectionComplete(s) \/ MarkConnectionComplete(s)
               \/ TabOnConnectionTerminated(s) \/ OnVideo(s)
        PROVE  BrowserInv'
    BY <1>1, OpenKeeps, SetupKeeps, PipelinesReadyKeeps, EndingsKeep, ReadinessKeeps, AsideKeeps, Zenon
  <1>2. CASE UNCHANGED browserVars
    <2>1. BrowserTypeOK' /\ NegotiationInv'
      BY <1>2 DEF browserVars, BrowserInv, BrowserTypeOK, NegotiationInv
    <2> QED BY <1>2, <2>1, RecoveryKept, RetireKept, InitFirstKept DEF BrowserInv, browserVars
  <1> QED
    BY <1>1, <1>2, FreshKeeps, RetryKeeps, WatchingKeeps, TickDueKeeps, Zenon DEF BrowserNext

\* It implies what the run checks.
LEMMA BrowserInvSuffices == BrowserInv => TabRecovers
  <1> SUFFICES ASSUME BrowserInv PROVE TabRecovers
    OBVIOUS
  <1>1. NoSilentStall
    BY Zenon DEF BrowserInv, RecoveryInv, NoSilentStall
  <1>2. RefusalNeedsStray
    BY Zenon DEF BrowserInv, InitFirst, RefusalNeedsStray
  <1> QED BY <1>1, <1>2, Zenon DEF BrowserInv, RecoveryInv, RetireInv, TabRecovers

\* A tab whose session was restarted recovers or says so: one owner of recovery at a time, and
\* sockets leak or are refused only through overlapping restarts or a retired attempt that writes
\* into the next session's buffer (index.ts, session_ux.ts).
THEOREM TabsRecover == BrowserSpec => []TabRecovers
  <1>1. BrowserSpec => []BrowserInv
    BY BrowserInitially, BrowserStep, PTL DEF BrowserSpec
  <1> QED BY <1>1, BrowserInvSuffices, PTL

(***************************************************************************)
(* The client session.  Its ladders are honest because of two accounts.    *)
(* An open episode of control sends has exactly one failure behind every   *)
(* step of its ladder but the one that asks for an ICE restart, so it can  *)
(* only give up with five.  And a watchdog clock that runs in sight never  *)
(* shows more than the time its stage has been silent: hiding the window   *)
(* stops both accounts, showing it restarts the clock, and progress        *)
(* restarts both.                                                          *)
(***************************************************************************)

Retries == [open : BOOLEAN, step : 0 .. 5, since : Nat]
IdrLatches == [open : BOOLEAN, sent : BOOLEAN, since : Nat, resends : 0 .. 2]
Dogs == [running : BOOLEAN, paused : BOOLEAN, age : [All -> Nat], shown : BOOLEAN,
         idrs : 0 .. IdrMax, ice : BOOLEAN, armed : [DogStages -> BOOLEAN],
         tries : [DogStages -> 0 .. StageMax]]
Statuses == [stalled : BOOLEAN, reconnect : BOOLEAN, latch : [DogStages -> BOOLEAN]]
LocalEvents == {"connected", "failed", "other"}

ThreadTypes ==
    /\ trouble \in Troubles /\ shell \in {"idle", "live", "joining"} /\ sessions \in 1 .. MaxSessions
    /\ loop \in {"login", "select", "watch", "ended", "closed", "gone"}
    /\ sessionState \in Connecting .. Stopped
    /\ rxLease \in BOOLEAN /\ stop \in BOOLEAN

FlowTypes ==
    /\ flow \in {"AwaitSetup", "Negotiating", "Streaming", "Terminated"}
    /\ peer \in [up : BOOLEAN, remote : BOOLEAN, pending : Nat]
    /\ events \in Seq(LocalEvents) /\ Len(events) <= EventCap /\ overflowed \in BOOLEAN

ControlTypes ==
    /\ ctl \in [held : BOOLEAN, sub : BOOLEAN, ack : BOOLEAN]
    /\ retry \in Retries /\ idr \in IdrLatches /\ fails \in Nat /\ owed \in BOOLEAN

DogTypes == dog \in Dogs /\ status \in Statuses /\ silent \in [All -> Nat]

\* The failed sends an open episode has seen at a step of its ladder: one per
\* step, but none at the step that asks for an ICE restart.
FailuresAt(step) == IF step <= 3 THEN step + 1 ELSE step
Accounted(r, n) == IF r.open THEN n = FailuresAt(r.step) ELSE r.step = 0

\* A clock that runs in sight never shows more than the silence of its stage.
ClocksHonest(d, quiet) == d.running /\ ~d.paused => \A s \in All : d.age[s] <= quiet[s]

SessionRunning == loop \in {"login", "select", "watch"}

\* A session ends, in this order: exit, lease, state.
ThreadInv ==
    /\ SessionRunning => exit = "none"
    /\ loop \in {"closed", "gone"} => ~rxLease
    /\ sessionState \in {Failed, Stopped} => loop = "gone"

PeerInv == peer.remote => peer.pending = 0 /\ (SessionRunning => peer.up)

ControlInv ==
    /\ Accounted(retry, fails)
    /\ exit = "control" => fails = 5
    /\ owed => idr.open /\ ~idr.sent

DogInv ==
    /\ ClocksHonest(dog, silent)
    /\ exit = "receive" => silent["receive"] >= ReconnectAfter
    /\ \A s \in DogStages : exit = s => silent[s] >= StageStall + StageMax * StageRetry
    /\ status.stalled = dog.shown
    /\ ~dog.running => ~dog.shown
    /\ flow \in {"AwaitSetup", "Negotiating"} => ~dog.running

SessionInv ==
    /\ ThreadTypes /\ FlowTypes /\ ControlTypes /\ DogTypes
    /\ ThreadInv /\ PeerInv /\ ControlInv /\ DogInv

\* The constants of the session are natural numbers.
LEMMA LadderConstants ==
    /\ StallIndicator \in Nat /\ IdrFirst \in Nat /\ IceRestart \in Nat /\ ReconnectAfter \in Nat
    /\ StageMax \in Nat /\ IdrRetry \in Nat /\ IdrMax \in Nat /\ StageStall \in Nat
    /\ StageRetry \in Nat /\ MaxGap \in Nat /\ EventCap \in Nat /\ EventCap > 0
    /\ MaxSessions \in Nat /\ MaxSessions > 0
    /\ Backoff1 \in Nat /\ Backoff2 \in Nat /\ Backoff3 \in Nat
  BY LadderAssumption

\* The fields of a retry ladder.
LEMMA RetryFields ==
  ASSUME NEW r \in Retries
  PROVE  r.open \in BOOLEAN /\ r.step \in 0 .. 5 /\ r.since \in Nat
  BY Zenon DEF Retries

\* What a poll of the ladder answers, and from which step.
LEMMA PolledCases ==
  ASSUME NEW r \in Retries
  PROVE  /\ ~r.open => Polled(r) = "send"
         /\ r.open => Polled(r) # "send"
         /\ r.open /\ Polled(r) = "retry" => r.step # 3 /\ r.step <= 4
         /\ r.open /\ Polled(r) = "ice" => r.step = 3
         /\ Polled(r) = "fail" => r.open /\ r.step = 5
         /\ Polled(r) \in {"send", "wait", "ice", "fail", "retry"}
<1>0. r.open \in BOOLEAN /\ r.step \in 0 .. 5
  BY RetryFields
<1> DEFINE early == r.since < Backoff[r.step + 1]
<1> HIDE DEF early
<1>1. Polled(r) = CASE ~r.open -> "send"
                    [] r.open /\ r.step <= 2 /\ early -> "wait"
                    [] r.open /\ r.step = 3 -> "ice"
                    [] r.open /\ r.step > 4 -> "fail"
                    [] OTHER -> "retry"
  BY Zenon DEF Polled, early
<1>2. CASE ~r.open
  BY <1>1, <1>2
<1>3. CASE r.open
  BY <1>0, <1>1, <1>3
<1> QED BY <1>0, <1>2, <1>3

\* A poll moves the ladder one step at most, and never past its last one.
LEMMA SteppedFine ==
  ASSUME NEW r \in Retries
  PROVE  /\ Stepped(r) \in Retries /\ Stepped(r).open = r.open
         /\ Polled(r) \in {"retry", "ice"} /\ r.open => Stepped(r).step = r.step + 1
         /\ Polled(r) \notin {"retry", "ice"} => Stepped(r) = r
<1>0. r.open \in BOOLEAN /\ r.step \in 0 .. 5
  BY RetryFields
<1>1. CASE Polled(r) \in {"retry", "ice"}
  <2>1. r.open /\ r.step + 1 \in 0 .. 5
    BY <1>0, <1>1, PolledCases
  <2>2. Stepped(r) = [r EXCEPT !.step = r.step + 1]
    BY <1>1 DEF Stepped
  <2> QED BY <1>1, <2>1, <2>2, Zenon DEF Retries
<1>2. CASE Polled(r) \notin {"retry", "ice"}
  BY <1>2 DEF Stepped
<1> QED BY <1>1, <1>2

\* An episode that opens.
LEMMA OpenEpisode ==
  ASSUME NEW k \in 0 .. 5, NEW after, after = [open |-> TRUE, step |-> k, since |-> 0]
  PROVE  after \in Retries /\ after.open /\ after.step = k
  BY DEF Retries

\* A round of sends keeps the failures accounted for: the ladder gives up with five of them.
LEMMA RetryFine ==
  ASSUME NEW r \in Retries, NEW n \in Nat, Accounted(r, n), NEW due, NEW out
  PROVE  /\ RetryAfter(r, due, out) \in Retries /\ FailsAfter(n, r, due, out) \in Nat
         /\ Accounted(RetryAfter(r, due, out), FailsAfter(n, r, due, out))
         /\ Polled(r) = "fail" => FailsAfter(n, r, due, out) = 5
<1> DEFINE after == RetryAfter(r, due, out)
<1> DEFINE m == FailsAfter(n, r, due, out)
<1>0. r.open \in BOOLEAN /\ r.step \in 0 .. 5
  BY RetryFields
<1>a. (r.open => n = FailuresAt(r.step)) /\ (~r.open => r.step = 0)
  BY DEF Accounted
<1>b. NoRetry \in Retries /\ ~NoRetry.open /\ NoRetry.step = 0
  BY DEF NoRetry, Retries
<1>1. CASE ~Granted(r)
  <2>1. after = Stepped(r) /\ m = n
    BY <1>1 DEF RetryAfter, FailsAfter
  <2>2. r.open /\ Polled(r) \in {"wait", "ice", "fail"}
    BY <1>1, PolledCases DEF Granted
  <2>3. after \in Retries /\ after.open
    BY <2>1, <2>2, SteppedFine
  <2>4. m = FailuresAt(after.step)
    <3>1. CASE Polled(r) = "ice"
      BY <1>a, <2>1, <2>2, <3>1, SteppedFine, PolledCases DEF FailuresAt
    <3>2. CASE Polled(r) # "ice"
      BY <1>a, <2>1, <2>2, <3>2, SteppedFine
    <3> QED BY <3>1, <3>2
  <2>5. Polled(r) = "fail" => m = 5
    BY <1>a, <2>1, <2>2, PolledCases DEF FailuresAt
  <2> QED BY <2>1, <2>3, <2>4, <2>5 DEF Accounted
<1>2. CASE Granted(r) /\ out = due
  <2>1. m = 0 /\ Polled(r) # "fail"
    BY <1>2 DEF FailsAfter, Granted
  <2>2. CASE r.open
    <3>1. after = NoRetry
      BY <1>2, <2>2 DEF RetryAfter, AfterSends
    <3> QED BY <1>b, <2>1, <3>1 DEF Accounted
  <2>3. CASE ~r.open
    <3>1. after = r
      BY <1>2, <2>3, PolledCases, SteppedFine DEF RetryAfter
    <3> QED BY <1>a, <2>1, <2>3, <3>1 DEF Accounted
  <2> QED BY <1>0, <2>2, <2>3
<1>3. CASE Granted(r) /\ out # due
  <2> DEFINE k == IF out # {} THEN 0 ELSE Stepped(r).step
  <2>1. after = [open |-> TRUE, step |-> k, since |-> 0]
    BY <1>3 DEF RetryAfter, AfterSends
  <2>2. m = IF out # {} \/ ~r.open THEN 1 ELSE n + 1
    BY <1>3 DEF FailsAfter
  <2>3. k \in 0 .. 5
    BY SteppedFine, RetryFields
  <2> HIDE DEF k, after
  <2>4. after \in Retries /\ after.open /\ after.step = k
    BY <2>1, <2>3, OpenEpisode
  <2> USE DEF k, after
  <2>5. m = FailuresAt(k)
    <3>1. CASE out # {}
      BY <2>2, <3>1 DEF FailuresAt
    <3>2. CASE out = {} /\ ~r.open
      <4>1. k = 0
        BY <1>a, <3>2, SteppedFine, PolledCases
      <4> QED BY <2>2, <3>2, <4>1 DEF FailuresAt
    <3>3. CASE out = {} /\ r.open
      <4>1. Polled(r) = "retry"
        BY <1>3, <3>3, PolledCases DEF Granted
      <4>2. k = r.step + 1 /\ r.step # 3 /\ r.step <= 4
        BY <3>3, <4>1, SteppedFine, PolledCases
      <4>3. m = n + 1
        BY <2>2, <3>3
      <4> QED BY <1>0, <1>a, <3>3, <4>2, <4>3 DEF FailuresAt
    <3> QED BY <1>0, <3>1, <3>2, <3>3
  <2>6. Polled(r) # "fail" /\ m \in Nat
    BY <1>3, <2>2 DEF Granted
  <2> QED BY <2>4, <2>5, <2>6 DEF Accounted
<1> QED BY <1>1, <1>2, <1>3

\* The lesser of two ages is an age.
LEMMA LeastFine ==
  ASSUME NEW a \in Nat, NEW b \in Nat
  PROVE  Least(a, b) \in Nat
  BY DEF Least

\* Time passes for the retry ladder.
LEMMA AgedRetryFine ==
  ASSUME retry \in Retries, NEW g \in Nat
  PROVE  /\ AgedRetry(g) \in Retries /\ AgedRetry(g).open = retry.open
         /\ AgedRetry(g).step = retry.step
<1>1. retry.since + g \in Nat /\ LongestBackoff \in Nat
  BY RetryFields, LadderConstants DEF LongestBackoff, Backoff
<1>2. PICK x : x = Least(retry.since + g, LongestBackoff)
  OBVIOUS
<1>3. x \in Nat
  BY <1>1, <1>2, LeastFine
<1>4. AgedRetry(g) = [retry EXCEPT !.since = x]
  BY <1>2, Zenon DEF AgedRetry
<1> QED BY <1>3, <1>4, Zenon DEF Retries

\* The fields of a NeedsIdr latch.
LEMMA IdrFields ==
  ASSUME NEW l \in IdrLatches
  PROVE  l.open \in BOOLEAN /\ l.sent \in BOOLEAN /\ l.since \in Nat /\ l.resends \in 0 .. 2
  BY Zenon DEF IdrLatches

\* Time passes for the NeedsIdr latch.
LEMMA AgedIdrFine ==
  ASSUME idr \in IdrLatches, NEW g \in Nat
  PROVE  /\ AgedIdr(g) \in IdrLatches /\ AgedIdr(g).open = idr.open
         /\ AgedIdr(g).sent = idr.sent
<1>1. idr.since + g \in Nat /\ LongestBackoff \in Nat
  BY IdrFields, LadderConstants DEF LongestBackoff, Backoff
<1>2. PICK x : x = IF idr.sent THEN Least(idr.since + g, LongestBackoff) ELSE 0
  OBVIOUS
<1>3. x \in Nat
  BY <1>1, <1>2, LeastFine
<1>4. AgedIdr(g) = [idr EXCEPT !.since = x]
  BY <1>2, Zenon DEF AgedIdr
<1> QED BY <1>3, <1>4, Zenon DEF IdrLatches

\* A latch that was just closed, and one that was just opened.
LEMMA NewIdr ==
    /\ NoIdr \in IdrLatches /\ ~NoIdr.open
    /\ [NoIdr EXCEPT !.open = TRUE] \in IdrLatches
    /\ [NoIdr EXCEPT !.open = TRUE].open /\ ~[NoIdr EXCEPT !.open = TRUE].sent
<1>1. 0 \in Nat /\ 0 \in 0 .. 2
  OBVIOUS
<1> QED BY <1>1, Zenon DEF NoIdr, IdrLatches

\* Opening a latch keeps one that is open; a new one has not been sent.
LEMMA OpenIdrFine ==
  ASSUME NEW l \in IdrLatches
  PROVE  /\ OpenIdr(l) \in IdrLatches /\ OpenIdr(l).open
         /\ ~l.open \/ ~l.sent => ~OpenIdr(l).sent
  BY NewIdr, Zenon DEF OpenIdr

\* Closing a latch keeps one whose signal was not sent yet.
LEMMA CloseIdrFine ==
  ASSUME NEW l \in IdrLatches
  PROVE  /\ CloseIdr(l) \in IdrLatches
         /\ ~CloseIdr(l).open \/ ~CloseIdr(l).sent
         /\ l.open /\ ~l.sent => CloseIdr(l) = l
  BY NewIdr, Zenon DEF CloseIdr

\* The latch is open after a bare signal, and an unsent one stays.
LEMMA LatchIdrFine ==
  ASSUME NEW l \in IdrLatches, NEW recovery \in BOOLEAN, NEW flag \in BOOLEAN
  PROVE  /\ LatchIdr(l, recovery, flag) \in IdrLatches
         /\ (flag /\ ~recovery) \/ (l.open /\ ~l.sent) =>
              LatchIdr(l, recovery, flag).open /\ ~LatchIdr(l, recovery, flag).sent
<1>1. PICK after : after = IF recovery THEN OpenIdr(l) ELSE CloseIdr(l)
  OBVIOUS
<1>2. LatchIdr(l, recovery, flag) = IF flag THEN OpenIdr(after) ELSE after
  BY <1>1, Zenon DEF LatchIdr
<1>3. after \in IdrLatches /\ (l.open /\ ~l.sent => after.open /\ ~after.sent) /\ (~recovery => ~after.open \/ ~after.sent)
  BY <1>1, OpenIdrFine, CloseIdrFine, Zenon
<1>4. OpenIdr(after) \in IdrLatches /\ OpenIdr(after).open /\ (~after.open \/ ~after.sent => ~OpenIdr(after).sent)
  BY <1>3, OpenIdrFine
<1> QED BY <1>2, <1>3, <1>4, Zenon

\* The latch after its signal went out.
LEMMA IdrSentFine ==
  ASSUME NEW l \in IdrLatches
  PROVE  IdrSent(l) \in IdrLatches
<1>1. PICK x : x = IF l.sent /\ l.resends < 2 THEN l.resends + 1 ELSE l.resends
  OBVIOUS
<1>2. x \in 0 .. 2 /\ 0 \in Nat
  BY <1>1, IdrFields
<1>3. IdrSent(l) = [l EXCEPT !.sent = TRUE, !.since = 0, !.resends = x]
  BY <1>1, Zenon DEF IdrSent
<1> QED BY <1>2, <1>3, Zenon DEF IdrLatches

\* The fields of the watchdog.
LEMMA DogFields ==
  ASSUME NEW d \in Dogs
  PROVE  /\ d.running \in BOOLEAN /\ d.paused \in BOOLEAN /\ d.age \in [All -> Nat]
         /\ d.shown \in BOOLEAN /\ d.idrs \in 0 .. IdrMax /\ d.ice \in BOOLEAN
         /\ d.armed \in [DogStages -> BOOLEAN] /\ d.tries \in [DogStages -> 0 .. StageMax]
  BY Zenon DEF Dogs

\* Time in sight passes for the clocks and the silence alike.
LEMMA AgedDogFine ==
  ASSUME DogTypes, ClocksHonest(dog, silent), NEW g \in Nat
  PROVE  /\ AgedDog(g) \in Dogs /\ VisibleSilence(g) \in [All -> Nat]
         /\ AgedDog(g).shown = dog.shown /\ AgedDog(g).running = dog.running
         /\ ClocksHonest(AgedDog(g), VisibleSilence(g))
<1> USE LadderConstants
<1>0. dog \in Dogs /\ silent \in [All -> Nat]
  BY DEF DogTypes
<1>1. PICK aged : aged = [s \in All |-> Least(dog.age[s] + g, ReconnectAfter)]
  OBVIOUS
<1>2. aged \in [All -> Nat] /\ \A s \in All : aged[s] = Least(dog.age[s] + g, ReconnectAfter)
  <2>1. dog.age \in [All -> Nat]
    BY <1>0, DogFields
  <2>2. \A s \in All : Least(dog.age[s] + g, ReconnectAfter) \in Nat
    BY <2>1 DEF Least
  <2> QED BY <1>1, <2>2
<1>3. VisibleSilence(g) \in [All -> Nat]
  <2>1. \A s \in All : Least(silent[s] + g, ReconnectAfter) \in Nat
    BY <1>0 DEF Least
  <2>2. VisibleSilence(g) = IF dog.paused THEN silent ELSE [s \in All |-> Least(silent[s] + g, ReconnectAfter)]
    BY Zenon DEF VisibleSilence
  <2> QED BY <1>0, <2>1, <2>2, Zenon
<1>4. CASE ~dog.running
  <2>1. AgedDog(g) = dog
    BY <1>4 DEF AgedDog
  <2> QED BY <1>0, <1>3, <1>4, <2>1 DEF ClocksHonest
<1>5. CASE dog.running
  <2>1. AgedDog(g) = [dog EXCEPT !.age = aged]
    BY <1>1, <1>5, Zenon DEF AgedDog
  <2>2. /\ AgedDog(g) \in Dogs /\ AgedDog(g).shown = dog.shown
        /\ AgedDog(g).running = dog.running /\ AgedDog(g).paused = dog.paused
        /\ AgedDog(g).age = aged
    BY <1>0, <1>2, <2>1, Zenon DEF Dogs
  <2>3. CASE dog.paused
    BY <1>3, <2>2, <2>3 DEF ClocksHonest
  <2>4. CASE ~dog.paused
    <3>1. \A s \in All : dog.age[s] <= silent[s] /\ dog.age[s] \in Nat /\ silent[s] \in Nat
      BY <1>0, <1>5, <2>4, DogFields DEF ClocksHonest
    <3>2. \A s \in All : VisibleSilence(g)[s] = Least(silent[s] + g, ReconnectAfter)
      BY <2>4 DEF VisibleSilence
    <3>3. \A s \in All : aged[s] <= VisibleSilence(g)[s]
      BY <1>2, <3>1, <3>2 DEF Least
    <3> QED BY <1>3, <2>2, <3>3 DEF ClocksHonest
  <2> QED BY <2>3, <2>4
<1> QED BY <1>0, <1>4, <1>5, DogFields

\* Showing the window restarts the clocks, which then show less than the silence.
LEMMA RebasedFine ==
  ASSUME NEW d \in Dogs, NEW away \in BOOLEAN, NEW quiet \in [All -> Nat], ClocksHonest(d, quiet)
  PROVE  /\ Rebased(d, away) \in Dogs /\ Rebased(d, away).shown = d.shown
         /\ Rebased(d, away).running = d.running /\ ClocksHonest(Rebased(d, away), quiet)
<1>1. CASE away = d.paused
  BY <1>1 DEF Rebased
<1>2. CASE away # d.paused
  <2>1. PICK a : a = IF away THEN d.age ELSE [s \in All |-> 0]
    OBVIOUS
  <2>2. a \in [All -> Nat]
    BY <2>1, DogFields
  <2>3. Rebased(d, away) = [d EXCEPT !.paused = away, !.age = a]
    BY <1>2, <2>1, Zenon DEF Rebased
  <2>4. /\ Rebased(d, away) \in Dogs /\ Rebased(d, away).shown = d.shown
        /\ Rebased(d, away).running = d.running /\ Rebased(d, away).paused = away
        /\ Rebased(d, away).age = a
    BY <2>2, <2>3, Zenon DEF Dogs
  <2>5. ~away => \A s \in All : a[s] <= quiet[s]
    BY <2>1
  <2> QED BY <2>4, <2>5, Zenon DEF ClocksHonest
<1> QED BY <1>1, <1>2

\* The silence after progress.
LEMMA FedFine ==
  ASSUME NEW quiet \in [All -> Nat], NEW fed
  PROVE  /\ Fed(quiet, fed) \in [All -> Nat]
         /\ \A s \in All : Fed(quiet, fed)[s] = IF s \in fed THEN 0 ELSE quiet[s]
  BY DEF Fed

\* Progress restarts the clock and the silence of the same stages.
LEMMA ProgressedFine ==
  ASSUME NEW d \in Dogs, NEW fed, NEW quiet \in [All -> Nat], ClocksHonest(d, quiet)
  PROVE  /\ Progressed(d, fed) \in Dogs /\ Progressed(d, fed).running = d.running
         /\ d.running => Progressed(d, fed).shown = (d.shown /\ "receive" \notin fed)
         /\ ~d.running => Progressed(d, fed).shown = d.shown
         /\ ClocksHonest(Progressed(d, fed), Fed(quiet, fed))
<1> USE LadderConstants
<1>1. CASE ~d.running
  <2>1. Progressed(d, fed) = d
    BY <1>1 DEF Progressed
  <2> QED BY <1>1, <2>1 DEF ClocksHonest
<1>2. CASE d.running
  <2>1. PICK a, t, r, i, h, c :
            /\ a = Fed(d.age, fed) /\ t = Fed(d.tries, fed)
            /\ r = [s \in DogStages |-> d.armed[s] \/ s \in fed]
            /\ h = (d.shown /\ "receive" \notin fed)
            /\ i = IF "receive" \in fed THEN 0 ELSE d.idrs
            /\ c = (d.ice /\ "receive" \notin fed)
    OBVIOUS
  <2>2. Progressed(d, fed) = [d EXCEPT !.age = a, !.tries = t, !.armed = r, !.shown = h, !.idrs = i, !.ice = c]
    BY <1>2, <2>1, Zenon DEF Progressed
  <2>3. a \in [All -> Nat] /\ \A s \in All : a[s] = IF s \in fed THEN 0 ELSE d.age[s]
    BY <2>1, DogFields, FedFine
  <2>4. t \in [DogStages -> 0 .. StageMax] /\ i \in 0 .. IdrMax
    BY <2>1, DogFields DEF Fed
  <2>5. r \in [DogStages -> BOOLEAN] /\ h \in BOOLEAN /\ c \in BOOLEAN
    BY <2>1, Zenon
  <2>6. /\ Progressed(d, fed) \in Dogs /\ Progressed(d, fed).running = d.running
        /\ Progressed(d, fed).paused = d.paused /\ Progressed(d, fed).age = a
        /\ Progressed(d, fed).shown = h
    BY <2>2, <2>3, <2>4, <2>5, Zenon DEF Dogs
  <2>7. ~d.paused => \A s \in All : a[s] <= Fed(quiet, fed)[s]
    BY <1>2, <2>3, FedFine DEF ClocksHonest
  <2> QED BY <1>2, <2>1, <2>6, <2>7, Zenon DEF ClocksHonest
<1> QED BY <1>1, <1>2, DogFields

\* The rungs of the receive stage.
LEMMA NextRungCases ==
  ASSUME NEW d \in Dogs
  PROVE  /\ NextRung(d) \in {"stall", "idr", "ice", "reconnect", "none"}
         /\ NextRung(d) = "idr" => d.idrs < IdrMax
         /\ NextRung(d) = "reconnect" => d.age["receive"] >= ReconnectAfter
<1>0. d.shown \in BOOLEAN
  BY DogFields
<1> DEFINE late == d.age["receive"] >= StallIndicator
           again == d.age["receive"] >= IdrFirst + d.idrs * IdrRetry
           dead == d.age["receive"] >= IceRestart
           over == d.age["receive"] >= ReconnectAfter
           left == d.idrs < IdrMax
<1>1. NextRung(d) = CASE ~d.shown -> IF late THEN "stall" ELSE "none"
                      [] d.shown /\ left /\ again -> "idr"
                      [] OTHER -> IF ~d.ice /\ dead THEN "ice" ELSE IF over THEN "reconnect" ELSE "none"
  BY Zenon DEF NextRung
<1> HIDE DEF late, again, dead, over, left
<1>2. /\ NextRung(d) \in {"stall", "idr", "ice", "reconnect", "none"}
      /\ NextRung(d) = "idr" => left
      /\ NextRung(d) = "reconnect" => over
  BY <1>0, <1>1
<1> QED BY <1>2 DEF left, over

\* The rungs of the decode and present stages.
LEMMA StageRungCases ==
  ASSUME NEW d \in Dogs, NEW s \in DogStages
  PROVE  /\ StageRung(d, s) \in {"attempt", "reconnect", "none"}
         /\ StageRung(d, s) = "attempt" => d.tries[s] + 1 \in 0 .. StageMax
         /\ StageRung(d, s) = "reconnect" => d.age[s] >= StageStall + StageMax * StageRetry
<1> USE LadderConstants
<1>0. d.tries[s] \in 0 .. StageMax
  BY DogFields
<1>1. CASE d.tries[s] < StageMax
  BY <1>0, <1>1 DEF StageRung
<1>2. CASE ~(d.tries[s] < StageMax)
  <2>1. d.tries[s] = StageMax
    BY <1>0, <1>2
  <2> QED BY <1>2, <2>1 DEF StageRung
<1> QED BY <1>1, <1>2

\* One tick acts for one stage, and only in sight.
LEMMA DogActionCases ==
  ASSUME NEW d \in Dogs, NEW s, NEW a, s = DogAction(d)[1], a = DogAction(d)[2]
  PROVE  \/ s \in All /\ a = "none"
         \/ d.running /\ ~d.paused /\ s = "receive" /\ a = NextRung(d)
         \/ d.running /\ ~d.paused /\ s \in DogStages /\ a = StageRung(d, s)
<1>0. d.running \in BOOLEAN /\ d.paused \in BOOLEAN
  BY DogFields
<1>1. CASE ~d.running \/ d.paused
  <2>1. DogAction(d) = <<"receive", "none">>
    BY <1>1 DEF DogAction
  <2> QED BY <2>1 DEF All
<1>2. CASE d.running /\ ~d.paused /\ NextRung(d) # "none"
  <2>1. DogAction(d) = <<"receive", NextRung(d)>>
    BY <1>2 DEF DogAction
  <2> QED BY <1>2, <2>1
<1>3. CASE d.running /\ ~d.paused /\ NextRung(d) = "none"
  <2>1. DogAction(d) = IF StageRung(d, "decode") # "none" THEN <<"decode", StageRung(d, "decode")>>
                       ELSE <<"present", StageRung(d, "present")>>
    BY <1>3 DEF DogAction
  <2>2. "decode" \in DogStages /\ "present" \in DogStages
    BY DEF DogStages
  <2> QED BY <1>3, <2>1, <2>2
<1> QED BY <1>0, <1>1, <1>2, <1>3

\* A rung keeps the clocks honest, and a reconnect has the whole ladder of silence behind it.
LEMMA ActedFine ==
  ASSUME NEW d \in Dogs, NEW quiet \in [All -> Nat], ClocksHonest(d, quiet),
         NEW s, NEW a, s = DogAction(d)[1], a = DogAction(d)[2]
  PROVE  /\ Acted(d, s, a) \in Dogs /\ Acted(d, s, a).running = d.running
         /\ ClocksHonest(Acted(d, s, a), quiet)
         /\ Acted(d, s, a).shown = (d.shown \/ a = "stall")
         /\ a = "stall" => d.running
         /\ a = "attempt" => s \in DogStages
         /\ a = "reconnect" => /\ s = "receive" => quiet[s] >= ReconnectAfter
                               /\ s \in DogStages => quiet[s] >= StageStall + StageMax * StageRetry
                               /\ s \in All
<1> USE LadderConstants
<1>0. /\ d.shown \in BOOLEAN /\ d.idrs \in 0 .. IdrMax /\ d.tries \in [DogStages -> 0 .. StageMax]
      /\ d.age \in [All -> Nat] /\ d.running \in BOOLEAN
  BY DogFields
<1>1. /\ a \in {"stall", "idr", "ice", "reconnect", "none", "attempt"}
      /\ a \in {"stall", "idr", "ice"} => s = "receive"
      /\ a # "none" => d.running /\ ~d.paused
      /\ a = "attempt" => s \in DogStages /\ d.tries[s] + 1 \in 0 .. StageMax
      /\ a = "idr" => d.idrs < IdrMax
      /\ a = "reconnect" => \/ s = "receive" /\ d.age[s] >= ReconnectAfter
                            \/ s \in DogStages /\ d.age[s] >= StageStall + StageMax * StageRetry
  <2>1. CASE s \in All /\ a = "none"
    BY <2>1
  <2>2. CASE d.running /\ ~d.paused /\ s = "receive" /\ a = NextRung(d)
    <3>1. /\ NextRung(d) \in {"stall", "idr", "ice", "reconnect", "none"}
          /\ NextRung(d) = "idr" => d.idrs < IdrMax
          /\ NextRung(d) = "reconnect" => d.age["receive"] >= ReconnectAfter
      BY NextRungCases
    <3> QED BY <2>2, <3>1
  <2>3. CASE d.running /\ ~d.paused /\ s \in DogStages /\ a = StageRung(d, s)
    <3>1. /\ StageRung(d, s) \in {"attempt", "reconnect", "none"}
          /\ StageRung(d, s) = "attempt" => d.tries[s] + 1 \in 0 .. StageMax
          /\ StageRung(d, s) = "reconnect" => d.age[s] >= StageStall + StageMax * StageRetry
      BY <2>3, StageRungCases
    <3>2. a \in {"attempt", "reconnect", "none"}
      BY <2>3, <3>1
    <3>3. a \notin {"stall", "idr", "ice"} /\ (a = "none" => a # "attempt" /\ a # "reconnect")
      BY <3>2
    <3>4. a = "attempt" => d.tries[s] + 1 \in 0 .. StageMax
      BY <2>3, <3>1, Zenon
    <3>5. a = "reconnect" => d.age[s] >= StageStall + StageMax * StageRetry
      BY <2>3, <3>1, Zenon
    <3>6. a \in {"stall", "idr", "ice", "reconnect", "none", "attempt"}
      BY <3>2
    <3>7. a \in {"stall", "idr", "ice"} => s = "receive"
      BY <3>3, Zenon
    <3>8. a # "idr"
      BY <3>3
    <3>9. d.running /\ ~d.paused /\ s \in DogStages
      BY <2>3, Zenon
    <3> QED BY <3>4, <3>5, <3>6, <3>7, <3>8, <3>9, Zenon
  <2>4. \/ s \in All /\ a = "none"
        \/ d.running /\ ~d.paused /\ s = "receive" /\ a = NextRung(d)
        \/ d.running /\ ~d.paused /\ s \in DogStages /\ a = StageRung(d, s)
    BY DogActionCases
  <2> QED BY <2>1, <2>2, <2>3, <2>4, Zenon
<1>2. a = "reconnect" => /\ s = "receive" => quiet[s] >= ReconnectAfter
                         /\ s \in DogStages => quiet[s] >= StageStall + StageMax * StageRetry
                         /\ s \in All
  <2> SUFFICES ASSUME a = "reconnect"
               PROVE  /\ s = "receive" => quiet[s] >= ReconnectAfter
                      /\ s \in DogStages => quiet[s] >= StageStall + StageMax * StageRetry
                      /\ s \in All
    BY <1>1
  <2>1. s \in All
    BY <1>1, Zenon DEF All
  <2>2. d.age[s] <= quiet[s] /\ d.age[s] \in Nat /\ quiet[s] \in Nat
    BY <1>0, <1>1, <2>1 DEF ClocksHonest
  <2>3. "receive" \notin DogStages
    BY DEF DogStages
  <2>4. StageMax * StageRetry \in Nat
    OBVIOUS
  <2> QED BY <1>1, <2>1, <2>2, <2>3, <2>4
<1>3. SUFFICES /\ Acted(d, s, a) \in Dogs /\ Acted(d, s, a).running = d.running
               /\ Acted(d, s, a).paused = d.paused /\ Acted(d, s, a).age = d.age
               /\ Acted(d, s, a).shown = (d.shown \/ a = "stall")
  BY <1>1, <1>2, <1>3, Zenon DEF ClocksHonest
<1>4. CASE a = "stall"
  <2>1. Acted(d, s, a) = [d EXCEPT !.shown = TRUE]
    BY <1>4 DEF Acted
  <2> QED BY <1>0, <1>4, <2>1, Zenon DEF Dogs
<1>5. CASE a = "idr"
  <2>1. PICK x : x = d.idrs + 1
    OBVIOUS
  <2>2. Acted(d, s, a) = [d EXCEPT !.idrs = x] /\ x \in 0 .. IdrMax
    BY <1>0, <1>1, <1>5, <2>1 DEF Acted
  <2>3. a # "stall"
    BY <1>5
  <2> QED BY <1>0, <2>2, <2>3, Zenon DEF Dogs
<1>6. CASE a = "ice"
  <2>1. Acted(d, s, a) = [d EXCEPT !.ice = TRUE] /\ a # "stall"
    BY <1>6 DEF Acted
  <2> QED BY <1>0, <2>1, Zenon DEF Dogs
<1>7. CASE a = "attempt"
  <2>1. PICK x : x = OneMore(d.tries, s)
    OBVIOUS
  <2>2. x \in [DogStages -> 0 .. StageMax]
    BY <1>0, <1>1, <1>7, <2>1 DEF OneMore
  <2>3. Acted(d, s, a) = [d EXCEPT !.tries = x] /\ a # "stall"
    BY <1>7, <2>1 DEF Acted
  <2> QED BY <1>0, <2>2, <2>3, Zenon DEF Dogs
<1>8. CASE a \in {"reconnect", "none"}
  <2>1. Acted(d, s, a) = d /\ a # "stall"
    BY <1>8 DEF Acted
  <2> QED BY <1>0, <2>1, Zenon
<1> QED BY <1>1, <1>4, <1>5, <1>6, <1>7, <1>8

\* What the shell sees of a rung.
LEMMA ReportedFine ==
  ASSUME NEW c \in Statuses, NEW s, NEW a, a = "attempt" => s \in DogStages
  PROVE  Reported(c, s, a) \in Statuses /\ Reported(c, s, a).stalled = (c.stalled \/ a = "stall")
<1>0. c.stalled \in BOOLEAN /\ c.latch \in [DogStages -> BOOLEAN]
  BY Zenon DEF Statuses
<1>1. CASE a = "stall"
  <2>1. Reported(c, s, a) = [c EXCEPT !.stalled = TRUE]
    BY <1>1 DEF Reported
  <2> QED BY <1>0, <1>1, <2>1, Zenon DEF Statuses
<1>2. CASE a = "attempt"
  <2>1. PICK x : x = Raised(c.latch, s)
    OBVIOUS
  <2>2. x \in [DogStages -> BOOLEAN]
    BY <1>0, <1>2, <2>1, Zenon DEF Raised
  <2>3. Reported(c, s, a) = [c EXCEPT !.latch = x] /\ a # "stall"
    BY <1>2, <2>1 DEF Reported
  <2> QED BY <1>0, <2>2, <2>3, Zenon DEF Statuses
<1>3. CASE a = "reconnect"
  <2>1. Reported(c, s, a) = [c EXCEPT !.reconnect = TRUE] /\ a # "stall"
    BY <1>3 DEF Reported
  <2> QED BY <1>0, <2>1, Zenon DEF Statuses
<1>4. CASE a \notin {"stall", "attempt", "reconnect"}
  <2>1. Reported(c, s, a) = c /\ a # "stall"
    BY <1>4 DEF Reported
  <2> QED BY <1>0, <2>1, Zenon
<1> QED BY <1>1, <1>2, <1>3, <1>4

EarlyFlows == {"AwaitSetup", "Negotiating"}

\* A step that leaves the signaling flow alone.
LEMMA FlowKept ==
  ASSUME FlowTypes, PeerInv, UNCHANGED flowVars, SessionRunning' => SessionRunning
  PROVE  FlowTypes' /\ PeerInv'
<1>1. flow' = flow /\ peer' = peer /\ events' = events /\ overflowed' = overflowed
  BY DEF flowVars
<1> QED BY <1>1, Zenon DEF FlowTypes, PeerInv

\* A step that leaves the control path alone.
LEMMA ControlKept ==
  ASSUME ControlTypes, ControlInv, UNCHANGED ctlVars, exit' = exit \/ exit' # "control"
  PROVE  ControlTypes' /\ ControlInv'
<1>1. ctl' = ctl /\ retry' = retry /\ idr' = idr /\ fails' = fails /\ owed' = owed
  BY DEF ctlVars
<1> QED BY <1>1, Zenon DEF ControlTypes, ControlInv

\* A step that leaves the watchdog alone.
LEMMA DogKept ==
  ASSUME DogTypes, DogInv, UNCHANGED dogVars, exit' = exit \/ exit' \notin All,
         flow' \in EarlyFlows => flow \in EarlyFlows
  PROVE  DogTypes' /\ DogInv'
<1>1. dog' = dog /\ status' = status /\ silent' = silent
  BY DEF dogVars
<1>2. "receive" \in All /\ \A s \in DogStages : s \in All
  BY DEF All
<1>3. DogTypes'
  BY <1>1, Zenon DEF DogTypes
<1>4. DogInv'
  BY <1>1, <1>2, Zenon DEF DogInv, EarlyFlows
<1> QED BY <1>3, <1>4

\* The loop moves on or ends, and nothing else of the thread changes.
LEMMA LoopStep ==
  ASSUME ThreadTypes, ThreadInv, SessionRunning,
         \/ loop' \in {"select", "watch"} /\ exit' = exit
         \/ loop' = "ended",
         UNCHANGED <<shellVars, rxLease>>, stop' \in BOOLEAN,
         sessionState' = sessionState \/ sessionState' \in {PeerConnected, Streaming}
  PROVE  ThreadTypes' /\ ThreadInv' /\ (SessionRunning' => SessionRunning)
<1>1. trouble' = trouble /\ shell' = shell /\ sessions' = sessions /\ rxLease' = rxLease
  BY DEF shellVars
<1>2. sessionState \notin {Failed, Stopped}
  BY DEF ThreadInv, SessionRunning
<1>3. sessionState' \in Connecting .. Stopped /\ sessionState' \notin {Failed, Stopped}
  BY <1>2 DEF ThreadTypes, Connecting, PeerConnected, Streaming, Failed, Stopped
<1>4. ThreadTypes'
  BY <1>1, <1>3 DEF ThreadTypes
<1>5. ThreadInv'
  BY <1>1, <1>3 DEF ThreadInv, SessionRunning
<1> QED BY <1>4, <1>5

\* The session state only goes up before it is terminal.
LEMMA StateUp ==
  ASSUME NEW x \in {PeerConnected, Streaming}
  PROVE  SetState(x) = sessionState \/ SetState(x) \in {PeerConnected, Streaming}
  BY DEF SetState

\* The second half of a tick: pause edge, progress, one rung.
LEMMA TickWatchdogKeeps ==
  ASSUME SessionInv, TickWatchdog
  PROVE  SessionInv'
<1>1. PICK away \in BOOLEAN, fed \in SUBSET All :
        LET d == Progressed(Rebased(dog, away), fed)
            s == DogAction(d)[1]
            a == DogAction(d)[2]
        IN  /\ silent' = Fed(silent, fed)
            /\ dog' = Acted(d, s, a)
            /\ status' = Reported(Calmed(fed), s, a)
            /\ IF a = "reconnect" THEN Ends(s) ELSE loop' = "select" /\ UNCHANGED exit
  <2>1. (IF "media" \in trouble THEN BOOLEAN ELSE {FALSE}) \subseteq BOOLEAN
    OBVIOUS
  <2>2. (IF "media" \in trouble THEN SUBSET All ELSE {All}) \subseteq SUBSET All
    OBVIOUS
  <2> QED BY <2>1, <2>2, Zenon DEF TickWatchdog
<1>2. /\ loop = "watch"
      /\ UNCHANGED <<shellVars, sessionState, rxLease, stop, flowVars, ctlVars>>
  BY DEF TickWatchdog
<1>3. PICK e, d, s, a, c : /\ e = Rebased(dog, away) /\ d = Progressed(e, fed)
                           /\ s = DogAction(d)[1] /\ a = DogAction(d)[2] /\ c = Calmed(fed)
  OBVIOUS
<1>4. /\ silent' = Fed(silent, fed) /\ dog' = Acted(d, s, a) /\ status' = Reported(c, s, a)
      /\ a = "reconnect" => loop' = "ended" /\ exit' = s
      /\ a # "reconnect" => loop' = "select" /\ exit' = exit
  BY <1>1, <1>3, Zenon DEF Ends
<1>5. dog \in Dogs /\ status \in Statuses /\ silent \in [All -> Nat] /\ ClocksHonest(dog, silent)
  BY DEF SessionInv, DogTypes, DogInv
<1>6. e \in Dogs /\ e.shown = dog.shown /\ e.running = dog.running /\ ClocksHonest(e, silent)
  BY <1>3, <1>5, RebasedFine
<1>7. PICK quiet : quiet = Fed(silent, fed)
  OBVIOUS
<1>8. quiet \in [All -> Nat] /\ silent' = quiet
  BY <1>4, <1>5, <1>7, FedFine
<1>9. /\ d \in Dogs /\ d.running = dog.running /\ ClocksHonest(d, quiet)
      /\ dog.running => d.shown = (dog.shown /\ "receive" \notin fed)
      /\ ~dog.running => d.shown = dog.shown
  BY <1>3, <1>5, <1>6, <1>7, ProgressedFine
<1>10. /\ dog' \in Dogs /\ dog'.running = dog.running /\ ClocksHonest(dog', quiet)
       /\ dog'.shown = (d.shown \/ a = "stall")
       /\ a = "stall" => dog.running
       /\ a = "attempt" => s \in DogStages
       /\ a = "reconnect" => /\ s = "receive" => quiet[s] >= ReconnectAfter
                             /\ s \in DogStages => quiet[s] >= StageStall + StageMax * StageRetry
                             /\ s \in All
  BY <1>3, <1>4, <1>8, <1>9, ActedFine
<1>11. c \in Statuses /\ c.stalled = d.shown
  <2>1. status.stalled = dog.shown /\ dog.shown \in BOOLEAN /\ dog.running \in BOOLEAN
    BY <1>5, DogFields DEF SessionInv, DogInv
  <2>2. CASE dog.running /\ dog.shown /\ "receive" \in fed
    <3>1. c = [status EXCEPT !.stalled = FALSE]
      BY <1>3, <2>2 DEF Calmed
    <3>2. d.shown = FALSE
      BY <1>9, <2>2, Zenon
    <3> QED BY <1>5, <3>1, <3>2, Zenon DEF Statuses
  <2>3. CASE ~(dog.running /\ dog.shown /\ "receive" \in fed)
    <3>1. c = status
      BY <1>3, <2>3, Zenon DEF Calmed
    <3>2. d.shown = dog.shown
      BY <1>9, <2>1, <2>3, Zenon
    <3> QED BY <1>5, <2>1, <3>1, <3>2, Zenon
  <2> QED BY <2>2, <2>3
<1>12. status' \in Statuses /\ status'.stalled = (c.stalled \/ a = "stall")
  BY <1>4, <1>10, <1>11, ReportedFine
<1>13. DogTypes'
  BY <1>8, <1>10, <1>12 DEF DogTypes
<1>14. exit = "none" /\ SessionRunning
  BY <1>2 DEF SessionInv, ThreadInv, SessionRunning
<1>15. DogInv'
  <2>1. status'.stalled = dog'.shown
    BY <1>10, <1>11, <1>12, Zenon
  <2>2. ~dog'.running => ~dog'.shown
    <3>1. ~dog.running => ~dog.shown
      BY DEF SessionInv, DogInv
    <3> QED BY <1>9, <1>10, <3>1, Zenon
  <2>3. flow' = flow
    BY <1>2 DEF flowVars
  <2>4. flow' \in {"AwaitSetup", "Negotiating"} => ~dog'.running
    BY <1>10, <2>3, Zenon DEF SessionInv, DogInv
  <2>5. exit' = "receive" => silent'["receive"] >= ReconnectAfter
    <3>1. CASE a = "reconnect"
      BY <1>4, <1>8, <1>10, <3>1, Zenon
    <3>2. CASE a # "reconnect"
      BY <1>4, <1>14, <3>2
    <3> QED BY <3>1, <3>2
  <2>6. ASSUME NEW t \in DogStages, exit' = t
        PROVE  silent'[t] >= StageStall + StageMax * StageRetry
    <3>1. CASE a = "reconnect"
      BY <1>4, <1>8, <1>10, <2>6, <3>1, Zenon
    <3>2. CASE a # "reconnect"
      BY <1>4, <1>14, <2>6, <3>2 DEF DogStages
    <3> QED BY <3>1, <3>2
  <2> QED BY <1>8, <1>10, <2>1, <2>2, <2>4, <2>5, <2>6, Zenon DEF DogInv
<1>16. exit' = exit \/ exit' # "control"
  <2>1. a = "reconnect" => exit' \in All
    BY <1>4, <1>10, Zenon
  <2> QED BY <1>4, <2>1 DEF All, DogStages
<1>17. ControlTypes' /\ ControlInv'
  BY <1>2, <1>16, ControlKept DEF SessionInv
<1>18. ThreadTypes' /\ ThreadInv' /\ (SessionRunning' => SessionRunning)
  <2>1. (loop' \in {"select", "watch"} /\ exit' = exit) \/ loop' = "ended"
    BY <1>4
  <2>2. stop' \in BOOLEAN
    BY <1>2 DEF SessionInv, ThreadTypes
  <2> QED BY <1>2, <1>14, <2>1, <2>2, LoopStep DEF SessionInv
<1>19. FlowTypes' /\ PeerInv'
  BY <1>2, <1>18, FlowKept DEF SessionInv
<1> QED BY <1>13, <1>15, <1>17, <1>18, <1>19 DEF SessionInv

\* The first half of a tick: time passes, and a round of control sends.
LEMMA TickControlKeeps ==
  ASSUME SessionInv, TickControl
  PROVE  SessionInv'
<1>0. PICK g \in 1 .. MaxGap, f \in Found : ControlRound(g, f)
  BY DEF TickControl
<1>1. PICK r, held, latch, acked :
        /\ r = AgedRetry(g)
        /\ held = (ctl.held \/ (f.open /\ peer.up))
        /\ latch = IF held THEN LatchIdr(AgedIdr(g), f.recovery, f.flag) ELSE idr
        /\ acked = (ctl.ack \/ (held /\ f.ack))
  OBVIOUS
<1>a. PICK due : due = IF Granted(r) /\ held /\ flow = "Streaming"
                       THEN (IF ctl.sub THEN {} ELSE {"sub"}) \union (IF acked THEN {"ack"} ELSE {})
                            \union (IF IdrDue(latch) THEN {"idr"} ELSE {})
                       ELSE {}
  OBVIOUS
<1>b. PICK out : out = FirstSends(due, f.sends)
  OBVIOUS
<1>2. /\ IF Polled(r) = "fail" THEN Ends("control") ELSE loop' = "watch" /\ UNCHANGED exit
      /\ retry' = RetryAfter(r, due, out)
      /\ fails' = FailsAfter(fails, r, due, out)
      /\ ctl' = [held |-> held, sub |-> ctl.sub \/ "sub" \in out, ack |-> acked /\ "ack" \notin out]
      /\ idr' = IF "idr" \in out THEN IdrSent(latch) ELSE latch
      /\ owed' = ((owed \/ (held /\ f.flag /\ ~f.recovery)) /\ "idr" \notin out)
      /\ dog' = AgedDog(g) /\ silent' = VisibleSilence(g)
  BY <1>0, <1>1, <1>a, <1>b, Zenon DEF ControlRound
<1>3. /\ loop = "select"
      /\ UNCHANGED <<shellVars, sessionState, rxLease, stop, flowVars, status>>
  BY DEF TickControl
<1>4. exit = "none" /\ SessionRunning
  BY <1>3 DEF SessionInv, ThreadInv, SessionRunning
<1>5. g \in Nat /\ f.recovery \in BOOLEAN /\ f.flag \in BOOLEAN
  <2>1. g \in Nat
    BY <1>0, LadderConstants
  <2>2. CASE "control" \in trouble
    BY <1>0, <2>1, <2>2, Zenon DEF Found
  <2>3. CASE "control" \notin trouble
    BY <1>0, <2>1, <2>3, Zenon DEF Found
  <2> QED BY <2>2, <2>3
<1>6. retry \in Retries /\ idr \in IdrLatches /\ fails \in Nat /\ Accounted(retry, fails)
  BY DEF SessionInv, ControlTypes, ControlInv
<1>7. r \in Retries /\ Accounted(r, fails)
  <2>1. r \in Retries /\ r.open = retry.open /\ r.step = retry.step
    BY <1>1, <1>5, <1>6, AgedRetryFine
  <2> QED BY <1>6, <2>1, Zenon DEF Accounted
<1>8. /\ retry' \in Retries /\ fails' \in Nat /\ Accounted(retry', fails')
      /\ Polled(r) = "fail" => fails' = 5
  BY <1>2, <1>6, <1>7, RetryFine
<1>9. /\ latch \in IdrLatches
      /\ idr.open /\ ~idr.sent => latch.open /\ ~latch.sent
      /\ held /\ f.flag /\ ~f.recovery => latch.open /\ ~latch.sent
  <2>1. PICK l : l = AgedIdr(g)
    OBVIOUS
  <2>2. l \in IdrLatches /\ l.open = idr.open /\ l.sent = idr.sent
    BY <1>5, <1>6, <2>1, AgedIdrFine
  <2>3. PICK x : x = LatchIdr(l, f.recovery, f.flag)
    OBVIOUS
  <2>4. /\ x \in IdrLatches
        /\ (f.flag /\ ~f.recovery) \/ (l.open /\ ~l.sent) => x.open /\ ~x.sent
    BY <1>5, <2>2, <2>3, LatchIdrFine
  <2>5. latch = IF held THEN x ELSE idr
    BY <1>1, <2>1, <2>3, Zenon
  <2> QED BY <1>6, <2>2, <2>4, <2>5, Zenon
<1>10. ctl' \in [held : BOOLEAN, sub : BOOLEAN, ack : BOOLEAN]
  <2>1. held \in BOOLEAN
    BY <1>1, Zenon
  <2> QED BY <1>2, <2>1, Zenon
<1>11. idr' \in IdrLatches
  <2>1. IdrSent(latch) \in IdrLatches
    BY <1>9, IdrSentFine
  <2> QED BY <1>2, <1>9, <2>1, Zenon
<1>12. owed' \in BOOLEAN /\ (owed' => idr'.open /\ ~idr'.sent)
  <2>1. owed => idr.open /\ ~idr.sent
    BY DEF SessionInv, ControlInv
  <2>2. owed' \in BOOLEAN
    BY <1>2, Zenon
  <2>3. owed' => idr' = latch /\ (owed \/ (held /\ f.flag /\ ~f.recovery))
    BY <1>2, Zenon
  <2> QED BY <1>9, <2>1, <2>2, <2>3, Zenon
<1>13. exit' = "control" => fails' = 5
  BY <1>2, <1>4, <1>8 DEF Ends
<1>14. ControlTypes'
  BY <1>8, <1>10, <1>11, <1>12, Zenon DEF ControlTypes
<1>15. ControlInv'
  BY <1>8, <1>12, <1>13, Zenon DEF ControlInv
<1>16. DogTypes' /\ DogInv'
  <2>1. /\ dog' \in Dogs /\ silent' \in [All -> Nat] /\ dog'.shown = dog.shown
        /\ dog'.running = dog.running /\ ClocksHonest(dog', silent')
    BY <1>2, <1>5, AgedDogFine DEF SessionInv, DogInv
  <2>2. status' = status /\ flow' = flow
    BY <1>3 DEF flowVars
  <2>3. exit' \notin All
    BY <1>2, <1>4 DEF Ends, All, DogStages
  <2>4. exit' # "receive" /\ \A s \in DogStages : exit' # s
    BY <2>3 DEF All
  <2>5. DogTypes'
    BY <2>1, <2>2, Zenon DEF SessionInv, DogTypes
  <2>6. DogInv'
    BY <2>1, <2>2, <2>4, Zenon DEF SessionInv, DogInv
  <2> QED BY <2>5, <2>6
<1>17. ThreadTypes' /\ ThreadInv' /\ (SessionRunning' => SessionRunning)
  <2>1. (loop' \in {"select", "watch"} /\ exit' = exit) \/ loop' = "ended"
    BY <1>2 DEF Ends
  <2>2. stop' \in BOOLEAN
    BY <1>3 DEF SessionInv, ThreadTypes
  <2> QED BY <1>3, <1>4, <2>1, <2>2, LoopStep DEF SessionInv
<1>18. FlowTypes' /\ PeerInv'
  BY <1>3, <1>17, FlowKept DEF SessionInv
<1> QED BY <1>14, <1>15, <1>16, <1>17, <1>18 DEF SessionInv

\* A watchdog that was not started.
LEMMA IdleDogFine ==
    /\ IdleDog \in Dogs /\ ~IdleDog.shown /\ ~IdleDog.running
    /\ Calm \in Statuses /\ ~Calm.stalled /\ Calm.stalled = IdleDog.shown
<1>1. 0 \in 0 .. IdrMax /\ 0 \in 0 .. StageMax /\ 0 \in Nat
  BY LadderConstants
<1>2. /\ [s \in All |-> 0] \in [All -> Nat] /\ [s \in DogStages |-> FALSE] \in [DogStages -> BOOLEAN]
      /\ [s \in DogStages |-> 0] \in [DogStages -> 0 .. StageMax]
  BY <1>1
<1> QED BY <1>1, <1>2, Zenon DEF IdleDog, Dogs, Calm, NoLatch, Statuses

\* A fresh session.
FreshSession ==
    /\ trouble \in Troubles /\ shell = "live"
    /\ loop = "login" /\ exit = "none" /\ sessionState = Connecting /\ rxLease = TRUE /\ stop = FALSE
    /\ flow = "AwaitSetup" /\ peer = NoPeer /\ events = <<>> /\ overflowed = FALSE
    /\ ctl = NoControl /\ retry = NoRetry /\ idr = NoIdr /\ fails = 0 /\ owed = FALSE
    /\ dog = IdleDog /\ status = Calm /\ silent = [s \in All |-> 0]

\* A session that was just started satisfies the invariant.
LEMMA FreshSessionFine ==
  ASSUME FreshSession, sessions \in 1 .. MaxSessions
  PROVE  SessionInv
<1>1. ThreadTypes
  <2>1. Connecting \in Connecting .. Stopped
    BY DEF Connecting, Stopped
  <2> QED BY <2>1, Zenon DEF FreshSession, ThreadTypes
<1>2. FlowTypes
  <2>1. peer \in [up : BOOLEAN, remote : BOOLEAN, pending : Nat]
    BY DEF FreshSession, NoPeer
  <2>2. events \in Seq(LocalEvents) /\ Len(events) <= EventCap
    BY LadderConstants DEF FreshSession
  <2> QED BY <2>1, <2>2 DEF FreshSession, FlowTypes
<1>3. ControlTypes
  <2>1. ctl \in [held : BOOLEAN, sub : BOOLEAN, ack : BOOLEAN]
    BY DEF FreshSession, NoControl
  <2>2. retry \in Retries
    BY DEF FreshSession, NoRetry, Retries
  <2>3. idr \in IdrLatches
    BY NewIdr DEF FreshSession
  <2> QED BY <2>1, <2>2, <2>3 DEF FreshSession, ControlTypes
<1>4. DogTypes
  <2>1. silent \in [All -> Nat]
    BY DEF FreshSession
  <2> QED BY <2>1, IdleDogFine, Zenon DEF FreshSession, DogTypes
<1>5. ThreadInv
  BY DEF FreshSession, ThreadInv, Connecting, Failed, Stopped
<1>6. PeerInv
  BY DEF FreshSession, PeerInv, NoPeer
<1>7. ControlInv
  BY DEF FreshSession, ControlInv, Accounted, NoRetry
<1>8. DogInv
  <2>1. exit # "receive" /\ \A s \in DogStages : exit # s
    BY DEF FreshSession, DogStages
  <2>2. dog = IdleDog /\ status = Calm
    BY DEF FreshSession
  <2> QED BY <2>1, <2>2, IdleDogFine, Zenon DEF DogInv, ClocksHonest
<1> QED BY <1>1, <1>2, <1>3, <1>4, <1>5, <1>6, <1>7, <1>8 DEF SessionInv


\* The same, as an implication.
LEMMA FreshSessionHolds == FreshSession /\ sessions \in 1 .. MaxSessions => SessionInv
  BY FreshSessionFine

\* The shell starts a session.
LEMMA TryStartKeeps ==
  ASSUME SessionInv, TryStart
  PROVE  SessionInv'
<1>1. FreshSession'
  BY Zenon DEF TryStart, FreshSession
<1>2. (sessions \in 1 .. MaxSessions)'
  BY LadderConstants DEF TryStart, SessionInv, ThreadTypes
<1>3. (FreshSession /\ sessions \in 1 .. MaxSessions => SessionInv)'
  BY FreshSessionHolds, PTL
<1> QED BY <1>1, <1>2, <1>3

\* A step that leaves the control path and the watchdog alone.
LEMMA OtherStep ==
  ASSUME SessionInv, ThreadTypes', ThreadInv', FlowTypes', PeerInv', UNCHANGED <<ctlVars, dogVars>>,
         exit' = exit \/ exit' \in {"login", "offer", "protocol", "terminated", "ws", "stop", "peer", "overflow"},
         flow' \in EarlyFlows => flow \in EarlyFlows
  PROVE  SessionInv'
<1>1. (exit' = exit \/ exit' # "control") /\ (exit' = exit \/ exit' \notin All)
  BY DEF All, DogStages
<1>2. UNCHANGED ctlVars /\ UNCHANGED dogVars
  OBVIOUS
<1>3. ControlTypes' /\ ControlInv'
  BY <1>1, <1>2, ControlKept DEF SessionInv
<1>4. DogTypes' /\ DogInv'
  BY <1>1, <1>2, DogKept DEF SessionInv
<1> QED BY <1>3, <1>4 DEF SessionInv

\* The steps of the loop that leave the signaling flow alone.
LEMMA LoginKeeps ==
  ASSUME SessionInv, Login \/ WsLost
  PROVE  SessionInv'
<1>1. /\ loop \in {"login", "select"} /\ UNCHANGED <<shellVars, rxLease>> /\ UNCHANGED flowVars
      /\ sessionState' = sessionState /\ stop' = stop /\ UNCHANGED <<ctlVars, dogVars>>
      /\ \/ loop' \in {"select", "watch"} /\ exit' = exit
         \/ loop' = "ended" /\ exit' \in {"login", "ws"}
  BY DEF Login, WsLost, Ends
<1>2. SessionRunning /\ stop' \in BOOLEAN
  BY <1>1 DEF SessionRunning, SessionInv, ThreadTypes
<1>3. ThreadTypes' /\ ThreadInv' /\ (SessionRunning' => SessionRunning)
  BY <1>1, <1>2, LoopStep DEF SessionInv
<1>4. FlowTypes' /\ PeerInv' /\ flow' = flow
  BY <1>1, <1>3, FlowKept DEF SessionInv, flowVars
<1> QED BY <1>1, <1>3, <1>4, OtherStep

\* The end of the thread: lease, then state.
LEMMA CleanupKeeps ==
  ASSUME SessionInv, CleanupCloses \/ Publish
  PROVE  SessionInv'
<1>1. /\ UNCHANGED shellVars /\ UNCHANGED flowVars /\ exit' = exit /\ stop' = stop
      /\ UNCHANGED <<ctlVars, dogVars>>
      /\ \/ loop = "ended" /\ loop' = "closed" /\ rxLease' = FALSE /\ sessionState' = sessionState
         \/ /\ loop = "closed" /\ loop' = "gone" /\ rxLease' = rxLease
            /\ sessionState' \in {Failed, Stopped}
  BY DEF CleanupCloses, Publish, SetState
<1>2. trouble' = trouble /\ shell' = shell /\ sessions' = sessions
  BY <1>1 DEF shellVars
<1>3. Failed \in Connecting .. Stopped /\ Stopped \in Connecting .. Stopped
  BY DEF Failed, Stopped, Connecting
<1>4. ThreadTypes'
  BY <1>1, <1>2, <1>3 DEF SessionInv, ThreadTypes
<1>5. ThreadInv' /\ ~SessionRunning'
  BY <1>1 DEF SessionInv, ThreadInv, SessionRunning
<1>6. FlowTypes' /\ PeerInv' /\ flow' = flow
  BY <1>1, <1>5, FlowKept DEF SessionInv, flowVars
<1> QED BY <1>1, <1>4, <1>5, <1>6, OtherStep

Peers == [up : BOOLEAN, remote : BOOLEAN, pending : Nat]

\* The fields of the peer.
LEMMA PeerFields ==
  ASSUME NEW p \in Peers
  PROVE  /\ p.up \in BOOLEAN /\ p.remote \in BOOLEAN /\ p.pending \in Nat
         /\ \A b \in BOOLEAN : /\ [p EXCEPT !.up = b] \in Peers /\ [p EXCEPT !.up = b].up = b
                               /\ [p EXCEPT !.up = b].remote = p.remote
                               /\ [p EXCEPT !.up = b].pending = p.pending
  BY Zenon DEF Peers

\* Setup and a candidate.
LEMMA ServerSetupKeeps ==
  ASSUME SessionInv, OnSetup \/ OnRemoteCandidate
  PROVE  SessionInv'
<1>1. /\ loop = "select" /\ UNCHANGED shellVars /\ UNCHANGED threadVars
      /\ events' = events /\ overflowed' = overflowed /\ UNCHANGED <<ctlVars, dogVars>>
  BY DEF OnSetup, OnRemoteCandidate
<1>2. /\ loop' = loop /\ exit' = exit /\ sessionState' = sessionState /\ rxLease' = rxLease
      /\ stop' = stop /\ SessionRunning
  BY <1>1 DEF threadVars, SessionRunning
<1>3. ThreadTypes' /\ ThreadInv'
  <2>1. loop' \in {"select", "watch"} /\ exit' = exit /\ UNCHANGED <<shellVars, rxLease>>
    BY <1>1, <1>2
  <2>2. stop' \in BOOLEAN
    BY <1>2 DEF SessionInv, ThreadTypes
  <2> QED BY <1>2, <2>1, <2>2, LoopStep DEF SessionInv
<1>4. peer \in Peers /\ flow \in {"AwaitSetup", "Negotiating", "Streaming", "Terminated"}
  BY DEF SessionInv, FlowTypes, Peers
<1>5. CASE OnSetup
  <2>1. flow' = "Negotiating" /\ flow = "AwaitSetup" /\ peer' = [peer EXCEPT !.up = TRUE]
    BY <1>5 DEF OnSetup
  <2>2. peer' \in Peers /\ peer'.up /\ peer'.remote = peer.remote /\ peer'.pending = peer.pending
    BY <1>4, <2>1, PeerFields
  <2>3. FlowTypes'
    BY <1>1, <2>1, <2>2, Zenon DEF SessionInv, FlowTypes, Peers
  <2>4. PeerInv'
    BY <2>2, Zenon DEF SessionInv, PeerInv
  <2>5. flow' \in EarlyFlows => flow \in EarlyFlows
    BY <2>1 DEF EarlyFlows
  <2> QED BY <1>1, <1>2, <1>3, <2>3, <2>4, <2>5, OtherStep
<1>6. CASE OnRemoteCandidate
  <2>1. /\ flow' = flow /\ peer' = [peer EXCEPT !.pending = peer.pending + 1]
        /\ ~(peer.up /\ peer.remote)
    BY <1>6 DEF OnRemoteCandidate
  <2>2. peer.pending + 1 \in Nat
    BY <1>4, PeerFields
  <2>3. peer' \in Peers /\ peer'.remote = peer.remote
    BY <1>4, <2>1, <2>2, Zenon DEF Peers
  <2>4. ~peer.remote
    BY <1>2, <2>1, Zenon DEF SessionInv, PeerInv
  <2>5. FlowTypes'
    BY <1>1, <2>1, <2>3, Zenon DEF SessionInv, FlowTypes, Peers
  <2>6. PeerInv'
    BY <2>3, <2>4, Zenon DEF PeerInv
  <2> QED BY <1>1, <1>2, <1>3, <2>1, <2>5, <2>6, OtherStep
<1> QED BY <1>5, <1>6

\* An offer.
LEMMA OfferKeeps ==
  ASSUME SessionInv, OnOffer
  PROVE  SessionInv'
<1>1. /\ loop = "select" /\ UNCHANGED <<shellVars, rxLease>> /\ flow' = flow
      /\ events' = events /\ overflowed' = overflowed /\ UNCHANGED <<ctlVars, dogVars>>
      /\ sessionState' = sessionState /\ stop' = stop
      /\ \/ /\ peer.up /\ peer' = [peer EXCEPT !.remote = TRUE, !.pending = 0]
            /\ loop' = loop /\ exit' = exit
         \/ ~peer.up /\ loop' = "ended" /\ exit' = "offer" /\ peer' = peer
  BY DEF OnOffer, Ends
<1>2. SessionRunning /\ stop' \in BOOLEAN
  BY <1>1 DEF SessionRunning, SessionInv, ThreadTypes
<1>3. ThreadTypes' /\ ThreadInv' /\ (SessionRunning' => SessionRunning)
  BY <1>1, <1>2, LoopStep DEF SessionInv
<1>4. peer \in Peers /\ 0 \in Nat
  BY DEF SessionInv, FlowTypes, Peers
<1>5. peer' \in Peers /\ PeerInv'
  <2>1. CASE peer.up
    <3>1. peer' = [peer EXCEPT !.remote = TRUE, !.pending = 0]
      BY <1>1, <2>1
    <3>2. peer' \in Peers /\ peer'.up = peer.up /\ peer'.pending = 0
      BY <1>4, <3>1, Zenon DEF Peers
    <3> QED BY <2>1, <3>2, Zenon DEF PeerInv
  <2>2. CASE ~peer.up
    BY <1>1, <1>3, <1>4, <2>2, Zenon DEF SessionInv, PeerInv
  <2> QED BY <2>1, <2>2
<1>6. FlowTypes'
  BY <1>1, <1>5, Zenon DEF SessionInv, FlowTypes, Peers
<1> QED BY <1>1, <1>3, <1>5, <1>6, OtherStep

\* A stop, and the server's own end.
LEMMA StopKeeps ==
  ASSUME SessionInv, OnConnectionTerminated \/ StopReceived
  PROVE  SessionInv'
<1>1. /\ loop = "select" /\ UNCHANGED <<shellVars, rxLease>> /\ flow' \in {flow, "Terminated"}
      /\ events' = events /\ overflowed' = overflowed /\ UNCHANGED <<ctlVars, dogVars>>
      /\ sessionState' = sessionState /\ stop' = stop /\ peer' = [peer EXCEPT !.up = FALSE]
      /\ loop' = "ended" /\ exit' \in {"terminated", "stop"}
  BY DEF OnConnectionTerminated, StopReceived, Ends
<1>2. SessionRunning /\ stop' \in BOOLEAN
  BY <1>1 DEF SessionRunning, SessionInv, ThreadTypes
<1>3. ThreadTypes' /\ ThreadInv' /\ ~SessionRunning'
  BY <1>1, <1>2, LoopStep DEF SessionInv, SessionRunning
<1>4. peer \in Peers
  BY DEF SessionInv, FlowTypes, Peers
<1>5. peer' \in Peers /\ peer'.remote = peer.remote /\ peer'.pending = peer.pending
  BY <1>1, <1>4, PeerFields
<1>6. PeerInv'
  BY <1>3, <1>5, Zenon DEF SessionInv, PeerInv
<1>7. flow' \in {"AwaitSetup", "Negotiating", "Streaming", "Terminated"} /\ (flow' \in EarlyFlows => flow \in EarlyFlows)
  BY <1>1 DEF SessionInv, FlowTypes, EarlyFlows
<1>8. FlowTypes'
  BY <1>1, <1>5, <1>7, Zenon DEF SessionInv, FlowTypes, Peers
<1> QED BY <1>1, <1>3, <1>6, <1>7, <1>8, OtherStep

\* A local event, taken or queued, and an overflow.
LEMMA EventsKeep ==
  ASSUME SessionInv, OnLocalEvent \/ TickOverflow \/ PeerCallback
  PROVE  SessionInv'
<1>0. events \in Seq(LocalEvents) /\ Len(events) <= EventCap /\ overflowed \in BOOLEAN
  BY DEF SessionInv, FlowTypes
<1>1. CASE OnLocalEvent \/ TickOverflow
  <2>1. /\ loop = "select" /\ UNCHANGED <<shellVars, rxLease>> /\ flow' = flow /\ peer' = peer
        /\ UNCHANGED <<ctlVars, dogVars>> /\ stop' = stop
        /\ events' = events \/ (events # <<>> /\ events' = Tail(events))
        /\ overflowed' = overflowed \/ overflowed' = FALSE
        /\ \/ loop' \in {"select", "watch"} /\ exit' = exit
           \/ loop' = "ended" /\ exit' \in {"peer", "overflow"}
        /\ sessionState' = sessionState \/ sessionState' = SetState(PeerConnected)
    <3>1. CASE TickOverflow
      BY <3>1 DEF TickOverflow, Ends
    <3>2. CASE OnLocalEvent
      BY <3>2 DEF OnLocalEvent, Ends
    <3> QED BY <1>1, <3>1, <3>2
  <2>2. SessionRunning /\ stop' \in BOOLEAN
    BY <2>1 DEF SessionRunning, SessionInv, ThreadTypes
  <2>3. sessionState' = sessionState \/ sessionState' \in {PeerConnected, Streaming}
    BY <2>1, StateUp
  <2>4. ThreadTypes' /\ ThreadInv' /\ (SessionRunning' => SessionRunning)
    BY <2>1, <2>2, <2>3, LoopStep DEF SessionInv
  <2>5. events' \in Seq(LocalEvents) /\ Len(events') <= EventCap
    BY <1>0, <2>1, LadderConstants
  <2>8. overflowed' \in BOOLEAN
    BY <1>0, <2>1, Zenon
  <2>6. FlowTypes'
    BY <2>1, <2>5, <2>8, Zenon DEF SessionInv, FlowTypes
  <2>7. PeerInv'
    BY <2>1, <2>4, Zenon DEF SessionInv, PeerInv
  <2> QED BY <2>1, <2>4, <2>6, <2>7, OtherStep
<1>2. CASE PeerCallback
  <2>1. PICK ev \in LocalEvents : QueueLocalEvent(ev)
    BY <1>2 DEF PeerCallback, LocalEvents
  <2>2. /\ \/ Len(events) < EventCap /\ events' = Append(events, ev) /\ overflowed' = overflowed
           \/ overflowed' = TRUE /\ events' = events
        /\ UNCHANGED shellVars /\ UNCHANGED threadVars /\ flow' = flow /\ peer' = peer
        /\ UNCHANGED <<ctlVars, dogVars>>
    BY <2>1 DEF QueueLocalEvent
  <2>3. events' \in Seq(LocalEvents) /\ Len(events') <= EventCap
    BY <1>0, <2>1, <2>2, LadderConstants
  <2>8. overflowed' \in BOOLEAN
    BY <1>0, <2>2, Zenon
  <2>4. /\ trouble' = trouble /\ shell' = shell /\ sessions' = sessions /\ loop' = loop /\ exit' = exit
        /\ sessionState' = sessionState /\ rxLease' = rxLease /\ stop' = stop
    BY <2>2 DEF shellVars, threadVars
  <2>5. ThreadTypes' /\ ThreadInv' /\ (SessionRunning' => SessionRunning)
    BY <2>4, Zenon DEF SessionInv, ThreadTypes, ThreadInv, SessionRunning
  <2>6. FlowTypes'
    BY <2>2, <2>3, <2>8, Zenon DEF SessionInv, FlowTypes
  <2>7. PeerInv'
    BY <2>2, <2>5, Zenon DEF SessionInv, PeerInv
  <2> QED BY <2>2, <2>4, <2>5, <2>6, <2>7, OtherStep
<1> QED BY <1>1, <1>2

\* The connection completes, or breaks the protocol.
LEMMA CompleteKeeps ==
  ASSUME SessionInv, NEW version, NEW epoch, OnConnectionComplete(version, epoch)
  PROVE  SessionInv'
<1>1. /\ loop = "select" /\ UNCHANGED <<shellVars, rxLease>> /\ peer' = peer
      /\ events' = events /\ overflowed' = overflowed /\ UNCHANGED ctlVars
      /\ status' = status /\ stop' = stop
  BY DEF OnConnectionComplete
<1>2. SessionRunning /\ stop' \in BOOLEAN
  BY <1>1 DEF SessionRunning, SessionInv, ThreadTypes
<1>3. CASE flow = "Negotiating" /\ NegotiatedFec(version, epoch)
  <2>1. /\ flow' = "Streaming" /\ sessionState' = SetState(Streaming) /\ loop' = loop /\ exit' = exit
        /\ dog' = [IdleDog EXCEPT !.running = TRUE, !.paused = dog.paused]
        /\ silent' = [s \in All |-> 0]
    BY <1>3, Zenon DEF OnConnectionComplete, StartDog
  <2>2. sessionState' = sessionState \/ sessionState' \in {PeerConnected, Streaming}
    BY <2>1, StateUp
  <2>3. ThreadTypes' /\ ThreadInv' /\ (SessionRunning' => SessionRunning)
    BY <1>1, <1>2, <2>1, <2>2, LoopStep DEF SessionInv
  <2>4. FlowTypes'
    BY <1>1, <2>1 DEF SessionInv, FlowTypes
  <2>5. PeerInv'
    BY <1>1, <2>3, Zenon DEF SessionInv, PeerInv
  <2>6. ControlTypes' /\ ControlInv'
    BY <1>1, <2>1, ControlKept DEF SessionInv
  <2>7. dog \in Dogs /\ ~dog.shown /\ dog.paused \in BOOLEAN /\ status \in Statuses /\ status.stalled = dog.shown
    BY <1>3, DogFields DEF SessionInv, DogInv, DogTypes
  <2>8. /\ dog' \in Dogs /\ dog'.shown = FALSE /\ dog'.age = [s \in All |-> 0] /\ dog'.running
    <3>1. IdleDog.age = [s \in All |-> 0] /\ IdleDog.shown = FALSE
      BY Zenon DEF IdleDog
    <3> QED BY <2>1, <2>7, <3>1, IdleDogFine, Zenon DEF Dogs
  <2>9. silent' \in [All -> Nat] /\ \A s \in All : silent'[s] = 0 /\ dog'.age[s] = 0
    BY <2>1, <2>8
  <2>10. ClocksHonest(dog', silent')
    BY <2>9 DEF ClocksHonest
  <2>11. status'.stalled = dog'.shown
    <3>1. dog.shown \in BOOLEAN
      BY <2>7, DogFields
    <3> QED BY <1>1, <2>7, <2>8, <3>1, Zenon
  <2>12. DogTypes'
    BY <1>1, <2>7, <2>8, <2>9 DEF DogTypes
  <2>13. exit' = "none" /\ flow' \notin {"AwaitSetup", "Negotiating"}
    BY <1>2, <2>1 DEF SessionInv, ThreadInv
  <2>14. exit' # "receive" /\ \A s \in DogStages : exit' # s
    BY <2>13 DEF DogStages
  <2>15. DogInv'
    BY <2>8, <2>10, <2>11, <2>13, <2>14, Zenon DEF DogInv
  <2> QED BY <2>3, <2>4, <2>5, <2>6, <2>12, <2>15 DEF SessionInv
<1>4. CASE ~(flow = "Negotiating" /\ NegotiatedFec(version, epoch))
  <2>1. /\ flow' = "Terminated" /\ loop' = "ended" /\ exit' = "protocol" /\ sessionState' = sessionState
        /\ dog' = dog /\ silent' = silent
    BY <1>4, Zenon DEF OnConnectionComplete, Ends
  <2>2. ThreadTypes' /\ ThreadInv' /\ (SessionRunning' => SessionRunning)
    BY <1>1, <1>2, <2>1, LoopStep DEF SessionInv
  <2>3. FlowTypes'
    BY <1>1, <2>1 DEF SessionInv, FlowTypes
  <2>4. PeerInv'
    BY <1>1, <2>2, Zenon DEF SessionInv, PeerInv
  <2>5. UNCHANGED <<ctlVars, dogVars>> /\ (flow' \in EarlyFlows => flow \in EarlyFlows)
    BY <1>1, <2>1 DEF dogVars, EarlyFlows
  <2> QED BY <2>1, <2>2, <2>3, <2>4, <2>5, OtherStep
<1> QED BY <1>3, <1>4

\* The shell's own steps.
LEMMA ShellKeeps ==
  ASSUME SessionInv, Shell
  PROVE  SessionInv'
<1>1. CASE ShellStop \/ ShellJoins
  <2>1. /\ trouble' = trouble /\ sessions' = sessions /\ loop' = loop /\ exit' = exit
        /\ sessionState' = sessionState /\ rxLease' = rxLease /\ stop' \in {stop, TRUE}
        /\ shell' \in {"joining", "idle"} /\ UNCHANGED flowVars /\ UNCHANGED <<ctlVars, dogVars>>
    BY <1>1 DEF ShellStop, ShellJoins, threadVars
  <2>2. ThreadTypes'
    BY <2>1 DEF SessionInv, ThreadTypes
  <2>3. ThreadInv' /\ (SessionRunning' => SessionRunning)
    BY <2>1, Zenon DEF SessionInv, ThreadInv, SessionRunning
  <2>4. FlowTypes' /\ PeerInv' /\ flow' = flow
    BY <2>1, <2>3, FlowKept DEF SessionInv, flowVars
  <2> QED BY <2>1, <2>2, <2>3, <2>4, OtherStep
<1>2. CASE Connect \/ Rebuild
  BY <1>2, TryStartKeeps DEF Connect, Rebuild
<1>3. ASSUME NEW s \in DogStages, PollStall(s)
      PROVE  SessionInv'
  <2>1. /\ status' = [status EXCEPT !.latch[s] = FALSE] /\ dog' = dog /\ silent' = silent
        /\ UNCHANGED shellVars /\ UNCHANGED threadVars /\ UNCHANGED flowVars /\ UNCHANGED ctlVars
    BY <1>3 DEF PollStall
  <2>2. /\ trouble' = trouble /\ shell' = shell /\ sessions' = sessions /\ loop' = loop /\ exit' = exit
        /\ sessionState' = sessionState /\ rxLease' = rxLease /\ stop' = stop
    BY <2>1 DEF shellVars, threadVars
  <2>3. ThreadTypes' /\ ThreadInv' /\ (SessionRunning' => SessionRunning)
    BY <2>2, Zenon DEF SessionInv, ThreadTypes, ThreadInv, SessionRunning
  <2>4. FlowTypes' /\ PeerInv' /\ flow' = flow
    BY <2>1, <2>3, FlowKept DEF SessionInv, flowVars
  <2>5. ControlTypes' /\ ControlInv'
    BY <2>1, <2>2, ControlKept DEF SessionInv
  <2>6. status' \in Statuses /\ status'.stalled = status.stalled
    <3>1. status \in Statuses
      BY DEF SessionInv, DogTypes
    <3>2. [status.latch EXCEPT ![s] = FALSE] \in [DogStages -> BOOLEAN]
      BY <3>1, Zenon DEF Statuses
    <3>3. status' = [status EXCEPT !.latch = [status.latch EXCEPT ![s] = FALSE]]
      BY <2>1
    <3> QED BY <3>1, <3>2, <3>3, Zenon DEF Statuses
  <2>7. DogTypes'
    BY <2>1, <2>6, Zenon DEF SessionInv, DogTypes
  <2>8. DogInv'
    BY <2>1, <2>2, <2>4, <2>6, Zenon DEF SessionInv, DogInv
  <2> QED BY <2>3, <2>4, <2>5, <2>7, <2>8 DEF SessionInv
<1> QED BY <1>1, <1>2, <1>3, Zenon DEF Shell

\* A step in which the session does nothing.
LEMMA SessionStill ==
  ASSUME SessionInv, UNCHANGED sessionVars
  PROVE  SessionInv'
<1>1. UNCHANGED shellVars /\ UNCHANGED threadVars /\ UNCHANGED flowVars /\ UNCHANGED <<ctlVars, dogVars>>
  BY DEF sessionVars
<1>2. /\ trouble' = trouble /\ shell' = shell /\ sessions' = sessions /\ loop' = loop /\ exit' = exit
      /\ sessionState' = sessionState /\ rxLease' = rxLease /\ stop' = stop
  BY <1>1 DEF shellVars, threadVars
<1>3. ThreadTypes' /\ ThreadInv' /\ (SessionRunning' => SessionRunning)
  BY <1>2, Zenon DEF SessionInv, ThreadTypes, ThreadInv, SessionRunning
<1>4. FlowTypes' /\ PeerInv' /\ flow' = flow
  BY <1>1, <1>3, FlowKept DEF SessionInv, flowVars
<1> QED BY <1>1, <1>2, <1>3, <1>4, OtherStep

\* It implies what the run checks.
LEMMA SessionInvGives == SessionInv => SessionEarned
<1> SUFFICES ASSUME SessionInv PROVE SessionEarned
  OBVIOUS
<1>1. SessionTypeOK
  <2>1. retry.step \in 0 .. 5 /\ idr.resends \in 0 .. 2
    BY RetryFields, IdrFields DEF SessionInv, ControlTypes
  <2>2. dog.idrs \in 0 .. IdrMax /\ \A s \in DogStages : dog.tries[s] \in 0 .. StageMax
    BY DogFields DEF SessionInv, DogTypes
  <2> QED BY <2>1, <2>2, Zenon DEF SessionInv, SessionTypeOK, ThreadTypes, FlowTypes, ControlTypes
<1>2. FailureEarned /\ DrainedSignalKept
  BY DEF SessionInv, ControlInv, FailureEarned, DrainedSignalKept
<1>3. ReconnectEarned
  BY Zenon DEF SessionInv, DogInv, ReconnectEarned
<1>4. CandidatesFollowOffer
  BY DEF SessionInv, PeerInv, CandidatesFollowOffer
<1>5. TerminalMeansReleased
  BY DEF SessionInv, ThreadInv, TerminalMeansReleased
<1>6. IndicatorTruthful
  BY Zenon DEF SessionInv, DogInv, IndicatorTruthful
<1> QED BY <1>1, <1>2, <1>3, <1>4, <1>5, <1>6 DEF SessionEarned

\* A session ends, reconnects and reports for a reason, whatever the order of signaling messages,
\* callbacks, ticks, window changes and failed sends: the control ladder gives up after five failures
\* of one episode, a watchdog after its whole ladder of visible silence, and neither a drained signal
\* nor an early candidate is lost on the way (run_session, ControlRetry, StallWatchdog).
THEOREM SessionsEarned == SessionSpec => []SessionEarned
<1>1. SessionInit => SessionInv
  <2> SUFFICES ASSUME SessionInit PROVE SessionInv
    OBVIOUS
  <2>1. FreshSession
    BY Zenon DEF SessionInit, FreshSession
  <2>2. sessions \in 1 .. MaxSessions
    BY LadderConstants DEF SessionInit
  <2> QED BY <2>1, <2>2, FreshSessionFine
<1>2. SessionInv /\ [SessionNext]_sessionVars => SessionInv'
  <2> SUFFICES ASSUME SessionInv, [SessionNext]_sessionVars PROVE SessionInv'
    OBVIOUS
  <2>1. CASE ServerMessage
    BY <2>1, ServerSetupKeeps, OfferKeeps, CompleteKeeps, StopKeeps, LoginKeeps, Zenon DEF ServerMessage
  <2>2. CASE PeerCallback
    BY <2>2, EventsKeep
  <2>3. CASE Session
    BY <2>3, LoginKeeps, StopKeeps, EventsKeep, TickControlKeeps, TickWatchdogKeeps, CleanupKeeps, Zenon
       DEF Session
  <2>4. CASE Shell
    BY <2>4, ShellKeeps
  <2>5. CASE UNCHANGED sessionVars
    BY <2>5, SessionStill
  <2> QED BY <2>1, <2>2, <2>3, <2>4, <2>5, Zenon DEF SessionNext
<1> QED BY <1>1, <1>2, SessionInvGives, PTL DEF SessionSpec

===============================================================================
