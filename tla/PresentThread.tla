---------------------------- MODULE PresentThread ----------------------------
(***************************************************************************)
(* Putting pictures on the screen (app-native/src/present.rs and the video *)
(* part of App::update in main.rs): the decoder fills a one-picture slot,  *)
(* the present thread draws what it takes from it on the D3D11 swap chain, *)
(* and when that path gives up the UI thread takes over with an egui       *)
(* texture.  A picture is its number, its form and its size; a D3D11 call  *)
(* succeeds or fails.  Windows decides when a call fails.                  *)
(***************************************************************************)
EXTENDS Naturals

CONSTANTS MaxRecreates,  \* PRESENT_STALL_MAX_RECREATES
          MaxPictures, MaxMishaps

ASSUME PresentAssumption == {MaxRecreates, MaxPictures, MaxMishaps} \subseteq Nat

VARIABLES
    frame,     \* VideoShared::frame
    decoding,  \* on_unit: the form it decodes into, "stored" or "none"
    generation,
    nv12, hw, sharpen,     \* VideoShared flags; sharpen_pct > 0
    removed, device_removed, \* the device is gone; the pump was told
    raw_failed, present_stop, stall_pending,
    pt,        \* the present thread
    rend,      \* its Renderer
    attempts,  \* PresentStallLadder
    surface,   \* App::surface and where its frame of App::update stands
    surface_failed,
    tex, video_gen,        \* App::video_tex is Some; App::video_gen
    shown,     \* history: the picture last put on the swap chain
    gpuSkipped,   \* history: GPU pictures the egui path had to skip
    mishaps

presentVars == <<frame, decoding, generation, nv12, hw, sharpen, removed, device_removed,
                 raw_failed, present_stop, stall_pending, pt, rend, attempts, surface,
                 surface_failed, tex, video_gen, shown, gpuSkipped, mishaps>>

Forms == {"rgba", "gpu"}
Dims  == {1, 2}
NoPicture == [n |-> 0, form |-> "none", size |-> 0]
Picture(n, form, size) == [n |-> n, form |-> form, size |-> size]

\* Renderer: the size of the swap chain, of the upload texture and of the
\* texture the shader view was made for (0: none), and the deep backbuffer.
NoRenderer == [up |-> FALSE, size |-> 0, upload |-> 0, srv |-> 0, deep |-> FALSE]
NewRenderer(size, deep) == [up |-> TRUE, size |-> size, upload |-> 0, srv |-> 0, deep |-> deep]

\* Decoder::new_inner: the D3D11VA device is attached, or software decodes.
NewDecoder == hw \in BOOLEAN

PresentInit ==
    /\ frame = NoPicture /\ decoding = "none" /\ generation = 0
    /\ NewDecoder
    /\ nv12 = FALSE /\ sharpen = FALSE /\ removed = FALSE /\ device_removed = FALSE
    /\ raw_failed = FALSE /\ present_stop = FALSE /\ stall_pending = FALSE
    /\ pt = [at |-> "none", pic |-> NoPicture] /\ rend = NoRenderer /\ attempts = 0
    /\ surface = "none" /\ surface_failed = FALSE
    /\ tex = FALSE /\ video_gen = 0 /\ shown = 0 /\ gpuSkipped = 0 /\ mishaps = 0

\* A call of Windows fails, or the watchdog reports a stall; the bound is on both.
Fails == mishaps < MaxMishaps /\ mishaps' = mishaps + 1
Works == UNCHANGED mishaps

-----------------------------------------------------------------------------
(* The decoder thread: DecodeState::on_unit.                               *)

\* The form is chosen before the picture is decoded ...
StartDecode ==
    /\ decoding = "none" /\ generation < MaxPictures
    /\ decoding' = IF nv12 /\ ~raw_failed /\ hw /\ ~sharpen THEN "gpu" ELSE "rgba"
    /\ UNCHANGED <<frame, generation, nv12, hw, sharpen, removed, device_removed, raw_failed,
                   present_stop, stall_pending, pt, rend, attempts, surface, surface_failed,
                   tex, video_gen, shown, gpuSkipped, mishaps>>

\* ... a decode may fail, which ends the GPU path, and is demoted at once on a
\* removed device ...
DecodeFails ==
    /\ decoding \in Forms /\ Fails
    /\ decoding' = "none"
    /\ IF removed THEN hw' = FALSE /\ nv12' = FALSE /\ device_removed' = FALSE
       ELSE nv12' = (nv12 /\ decoding # "gpu") /\ UNCHANGED <<hw, device_removed>>
    /\ UNCHANGED <<frame, generation, sharpen, removed, raw_failed, present_stop, stall_pending,
                   pt, rend, attempts, surface, surface_failed, tex, video_gen, shown, gpuSkipped>>

\* ... or give no picture yet ...
DecodesNothing ==
    /\ decoding \in Forms
    /\ decoding' = "none"
    /\ UNCHANGED <<frame, generation, nv12, hw, sharpen, removed, device_removed, raw_failed,
                   present_stop, stall_pending, pt, rend, attempts, surface, surface_failed,
                   tex, video_gen, shown, gpuSkipped, mishaps>>

\* Decoder::decode converts into main memory; decode_gpu keeps the surface when
\* the codec really negotiated D3D11VA.
DecodeOutput(want) == IF want = "gpu" THEN Forms ELSE {"rgba"}

\* ... the newest picture replaces whatever is in the slot ...
StorePicture ==
    /\ decoding \in Forms
    /\ \E size \in Dims, form \in DecodeOutput(decoding) :
          frame' = Picture(generation + 1, form, size)
    /\ decoding' = "stored"
    /\ UNCHANGED <<generation, nv12, hw, sharpen, removed, device_removed, raw_failed,
                   present_stop, stall_pending, pt, rend, attempts, surface, surface_failed,
                   tex, video_gen, shown, gpuSkipped, mishaps>>

\* ... and the generation follows it, outside the lock.
BumpGeneration ==
    /\ decoding = "stored"
    /\ generation' = generation + 1
    /\ decoding' = "none"
    /\ UNCHANGED <<frame, nv12, hw, sharpen, removed, device_removed, raw_failed, present_stop,
                   stall_pending, pt, rend, attempts, surface, surface_failed, tex, video_gen,
                   shown, gpuSkipped, mishaps>>

\* demote_removed_device: the pump was told and decodes in software from now on.
Demote ==
    /\ device_removed /\ decoding = "none"
    /\ device_removed' = FALSE /\ hw' = FALSE /\ nv12' = FALSE
    /\ UNCHANGED <<frame, decoding, generation, sharpen, removed, raw_failed, present_stop,
                   stall_pending, pt, rend, attempts, surface, surface_failed, tex, video_gen,
                   shown, gpuSkipped, mishaps>>

-----------------------------------------------------------------------------
(* The present thread: render_loop.                                        *)

SharedByThread == <<decoding, generation, hw, sharpen, removed, present_stop, surface,
                    surface_failed, tex, video_gen, gpuSkipped>>

\* The thread returns; a picture in main memory goes back to the slot, whatever
\* the slot holds by then.  The flag is up first, so the egui path may already
\* be looking.
GiveUp ==
    /\ raw_failed' = TRUE
    /\ device_removed' = (device_removed \/ removed)
    /\ rend' = NoRenderer
    /\ pt' = [pt EXCEPT !.at = IF pt.pic.form = "rgba" THEN "handback" ELSE "done"]
    /\ UNCHANGED <<frame, attempts, stall_pending, shown>>

HandBack ==
    /\ pt.at = "handback"
    /\ frame' = pt.pic
    /\ pt' = [pt EXCEPT !.at = "done"]
    /\ UNCHANGED <<SharedByThread, nv12, device_removed, raw_failed, stall_pending, rend,
                   attempts, shown, mishaps>>

SeeStop ==
    /\ pt.at = "wait" /\ present_stop
    /\ pt' = [pt EXCEPT !.at = "done"] /\ rend' = NoRenderer
    /\ UNCHANGED <<SharedByThread, frame, nv12, device_removed, raw_failed, stall_pending,
                   attempts, shown, mishaps>>

\* Mutant: the ladder never runs out.
SeeStallForever ==
    /\ pt.at = "wait" /\ stall_pending
    /\ stall_pending' = FALSE
    /\ attempts' = attempts + 1
    /\ rend' = NoRenderer
    /\ UNCHANGED <<SharedByThread, frame, nv12, device_removed, raw_failed, pt, shown, mishaps>>

\* PresentStallLadder::on_present_stall: a fresh device, or the fallback.
SeeStall ==
    /\ pt.at = "wait" /\ stall_pending
    /\ stall_pending' = FALSE
    /\ attempts' = attempts + 1
    /\ rend' = NoRenderer
    /\ IF attempts + 1 > MaxRecreates
       THEN raw_failed' = TRUE /\ pt' = [pt EXCEPT !.at = "done"]
       ELSE UNCHANGED <<raw_failed, pt>>
    /\ UNCHANGED <<SharedByThread, frame, nv12, device_removed, shown, mishaps>>

\* The stop and stall flags may rise after they were read and before this.
TakePicture ==
    /\ pt.at = "wait" /\ frame # NoPicture
    /\ frame' = NoPicture
    /\ pt' = [at |-> "draw", pic |-> frame]
    /\ UNCHANGED <<SharedByThread, nv12, device_removed, raw_failed, stall_pending, rend,
                   attempts, shown, mishaps>>

\* Renderer::new_inner: ten bits only where the caller wants them and the
\* display takes them, eight otherwise; it may fail on a removed device.
NewInner(size) ==
    \/ /\ ~removed /\ Works
       /\ \E deep \in BOOLEAN : rend' = NewRenderer(size, deep)
       /\ UNCHANGED <<frame, raw_failed, device_removed, stall_pending, attempts, shown, pt>>
    \/ ((removed /\ Works) \/ Fails) /\ GiveUp

InitRenderer ==
    /\ pt.at = "draw" /\ ~rend.up
    /\ NewInner(pt.pic.size)
    /\ UNCHANGED <<SharedByThread, nv12>>

\* Renderer::ensure_size: a new size releases the texture and its view.
EnsureSize(r, size) ==
    IF size = r.size THEN r ELSE NewRenderer(size, r.deep)

\* A new upload texture drops the view of the one before.
Upload(r) ==
    IF r.upload = 0 THEN [NewRenderer(r.size, r.deep) EXCEPT !.upload = r.size] ELSE r

\* Renderer::draw_sharpen: the shader pass makes the view it samples, once.
DrawSharpen(r) == IF r.srv = 0 THEN [r EXCEPT !.srv = r.upload] ELSE r

\* Renderer::draw: a plain copy, or the shader pass for a sharpened picture and
\* for a deep backbuffer, into which an 8-bit texture cannot be copied.
Draw(r, size, sharp) ==
    LET up == Upload(EnsureSize(r, size))
    IN  IF sharp \/ r.deep THEN DrawSharpen(up) ELSE up

\* Renderer::draw_gpu and draw_nv12_views: the views of the decoder's own texture
\* last for one picture.
DrawGpu(r, size) == EnsureSize(r, size)

\* The picture is drawn and presented; a real present resets the ladder.  The
\* live strength is set on the first try only, a retry has the renderer's own.
PresentWorks(at) ==
    /\ pt.at = at /\ rend.up /\ ~removed /\ ~present_stop /\ Works
    /\ \E sharp \in IF at = "draw" THEN {sharpen} ELSE BOOLEAN :
          rend' = IF pt.pic.form = "gpu" THEN DrawGpu(rend, pt.pic.size)
                  ELSE Draw(rend, pt.pic.size, sharp)
    /\ shown' = pt.pic.n
    /\ attempts' = 0
    /\ pt' = [at |-> "wait", pic |-> NoPicture]
    /\ UNCHANGED <<SharedByThread, frame, nv12, device_removed, raw_failed, stall_pending>>

\* The stop flag ends the retries of present_interruptible, and the thread,
\* before or after the picture was shown.
PresentStopped ==
    /\ pt.at \in {"draw", "redraw"} /\ rend.up /\ present_stop
    /\ shown' \in {shown, pt.pic.n}
    /\ pt' = [pt EXCEPT !.at = "done"] /\ rend' = NoRenderer
    /\ UNCHANGED <<SharedByThread, frame, nv12, device_removed, raw_failed, stall_pending,
                   attempts, mishaps>>

\* A GPU picture is given up for an IDR and the memory path; any other gets one
\* fresh renderer.
PresentFails ==
    /\ pt.at = "draw" /\ rend.up /\ ~present_stop
    /\ (removed /\ Works) \/ Fails
    /\ \/ pt.pic.form = "gpu" /\ nv12' = FALSE /\ GiveUp
       \/ /\ pt.pic.form = "rgba"
          /\ device_removed' = (device_removed \/ removed)
          /\ rend' = NoRenderer
          /\ pt' = [pt EXCEPT !.at = "recreate"]
          /\ UNCHANGED <<frame, nv12, raw_failed, stall_pending, attempts, shown>>
    /\ UNCHANGED SharedByThread

Recreate ==
    /\ pt.at = "recreate"
    /\ \/ /\ ~removed /\ Works
          /\ \E deep \in BOOLEAN : rend' = NewRenderer(pt.pic.size, deep)
          /\ pt' = [pt EXCEPT !.at = "redraw"]
          /\ UNCHANGED <<frame, raw_failed, device_removed, stall_pending, attempts, shown>>
       \/ ((removed /\ Works) \/ Fails) /\ GiveUp
    /\ UNCHANGED <<SharedByThread, nv12>>

RetryFails ==
    /\ pt.at = "redraw" /\ rend.up /\ ~present_stop
    /\ (removed /\ Works) \/ Fails
    /\ GiveUp
    /\ UNCHANGED <<SharedByThread, nv12>>

-----------------------------------------------------------------------------
(* The UI thread: App::update.                                             *)

UiLeaves == <<decoding, generation, removed, device_removed, shown, rend, attempts, mishaps>>

\* StreamSurface::create: the child window and its thread, or the fallback.
CreateSurface ==
    /\ surface = "none" /\ ~surface_failed
    /\ \/ /\ surface' = "up" /\ Works
          /\ pt' = [at |-> "wait", pic |-> NoPicture]
          /\ UNCHANGED <<raw_failed, surface_failed>>
       \/ /\ Fails
          /\ raw_failed' = TRUE /\ surface_failed' = TRUE
          /\ UNCHANGED <<surface, pt>>
    /\ UNCHANGED <<frame, decoding, generation, nv12, hw, sharpen, removed, device_removed,
                   present_stop, stall_pending, rend, attempts, tex, video_gen, shown, gpuSkipped>>

\* A frame of the UI looks at the surface first; the egui path further down sees
\* whatever the thread did in between ...
SurfaceFine ==
    /\ surface = "up" /\ ~raw_failed
    /\ surface' = "checked"
    /\ UNCHANGED <<UiLeaves, frame, nv12, hw, sharpen, raw_failed, present_stop, stall_pending,
                   surface_failed, pt, tex, video_gen, gpuSkipped>>

\* ... it drops a failed one: StreamSurface::drop stops the thread ...
DropSurface ==
    /\ surface = "up" /\ raw_failed
    /\ surface' = "dropping" /\ present_stop' = TRUE /\ surface_failed' = TRUE
    /\ UNCHANGED <<UiLeaves, frame, nv12, hw, sharpen, raw_failed, stall_pending, pt, tex,
                   video_gen, gpuSkipped>>

\* ... as does a disconnect, after which nothing is painted any more ...
Disconnect ==
    /\ surface = "up"
    /\ surface' = "closing" /\ present_stop' = TRUE
    /\ UNCHANGED <<UiLeaves, frame, nv12, hw, sharpen, raw_failed, stall_pending,
                   surface_failed, pt, tex, video_gen, gpuSkipped>>

\* ... and joins it before the window goes.
Joined ==
    /\ surface \in {"dropping", "closing"} /\ pt.at = "done"
    /\ surface' = IF surface = "dropping" THEN "none" ELSE "gone"
    /\ UNCHANGED <<UiLeaves, frame, nv12, hw, sharpen, raw_failed, present_stop, stall_pending,
                   surface_failed, pt, tex, video_gen, gpuSkipped>>

\* The watchdog's present stall is relayed to the thread that owns the device.
RelayStall ==
    /\ Fails /\ surface \in {"none", "up"}
    /\ stall_pending' = TRUE
    /\ UNCHANGED <<decoding, generation, removed, device_removed, shown, rend, attempts, frame,
                   nv12, hw, sharpen, raw_failed, present_stop, surface, surface_failed, pt, tex,
                   video_gen, gpuSkipped>>

\* The two live controls: the NV12 box and the sharpen slider.
Toggle ==
    /\ surface \in {"none", "up"}
    /\ \/ nv12' = ~nv12 /\ UNCHANGED sharpen
       \/ sharpen' = ~sharpen /\ UNCHANGED nv12
    /\ UNCHANGED <<UiLeaves, frame, hw, raw_failed, present_stop, stall_pending, surface,
                   surface_failed, pt, tex, video_gen, gpuSkipped>>

\* The egui path: a new generation takes the slot; only a picture in main memory
\* becomes the texture.
EguiPaint ==
    /\ surface = "checked" \/ (surface = "none" /\ surface_failed)
    /\ raw_failed /\ generation # video_gen /\ frame # NoPicture
    /\ surface' = IF surface = "checked" THEN "up" ELSE surface
    /\ frame' = NoPicture
    /\ video_gen' = generation
    /\ tex' = (tex \/ frame.form = "rgba")
    /\ gpuSkipped' = IF frame.form = "gpu" THEN gpuSkipped + 1 ELSE gpuSkipped
    /\ UNCHANGED <<UiLeaves, nv12, hw, sharpen, raw_failed, present_stop, stall_pending,
                   surface_failed, pt>>

EguiIdle ==
    /\ surface = "checked"
    /\ raw_failed => generation = video_gen \/ frame = NoPicture
    /\ surface' = "up"
    /\ UNCHANGED <<UiLeaves, frame, nv12, hw, sharpen, raw_failed, present_stop, stall_pending,
                   surface_failed, pt, tex, video_gen, gpuSkipped>>

\* The device is removed or reset (external).
RemoveDevice ==
    /\ ~removed /\ Fails
    /\ removed' = TRUE
    /\ UNCHANGED <<frame, decoding, generation, nv12, hw, sharpen, device_removed, raw_failed,
                   present_stop, stall_pending, pt, rend, attempts, surface, surface_failed,
                   tex, video_gen, shown, gpuSkipped>>

-----------------------------------------------------------------------------
ThreadStep ==
    \/ SeeStop \/ SeeStall \/ TakePicture \/ InitRenderer
    \/ PresentWorks("draw") \/ PresentWorks("redraw") \/ PresentStopped
    \/ PresentFails \/ Recreate \/ RetryFails \/ HandBack

PresentNext ==
    \/ StartDecode \/ DecodeFails \/ DecodesNothing \/ StorePicture \/ BumpGeneration \/ Demote \/ ThreadStep
    \/ CreateSurface \/ SurfaceFine \/ DropSurface \/ Disconnect \/ Joined
    \/ RelayStall \/ Toggle \/ EguiPaint \/ EguiIdle \/ RemoveDevice

PresentSpec == PresentInit /\ [][PresentNext]_presentVars

-----------------------------------------------------------------------------
(* Properties.                                                             *)

\* On the swap chain the picture never goes back: what the thread holds is newer
\* than what it showed, and what the slot holds newer than both, until the thread
\* gives up.
ForwardOnly ==
    /\ pt.at \in {"draw", "recreate", "redraw"} =>
          /\ shown < pt.pic.n
          /\ frame # NoPicture => pt.pic.n < frame.n
    /\ pt.at = "wait" /\ frame # NoPicture => shown < frame.n

\* The shader view is a view of the texture that is uploaded to, and that texture
\* has the size of the swap chain, over every resize and change of path.
ViewsCurrent ==
    /\ rend.srv # 0 => rend.srv = rend.upload
    /\ rend.upload # 0 => rend.upload = rend.size

\* Giving up loses no picture the fallback could show: a picture in main memory
\* that the thread could not present is in the slot, was painted, or made way for
\* one behind it; and the fallback skips at most the two GPU pictures in flight.
FallbackFed ==
    /\ gpuSkipped <= 2
    /\ (raw_failed /\ pt.at = "done" /\ pt.pic.form = "rgba" /\ ~present_stop)
          => (frame # NoPicture \/ tex \/ gpuSkipped > 0)

\* The ladder ends: no more than MaxRecreates fresh devices in a row without a
\* present, and a thread that has ended is not asked to present again.
LadderEnds ==
    /\ attempts <= MaxRecreates + 1
    /\ attempts > MaxRecreates => raw_failed /\ pt.at = "done"

\* Pictures go forward, views are current, the fallback is fed, the ladder ends.
PresentSound == ForwardOnly /\ ViewsCurrent /\ FallbackFed /\ LadderEnds

=============================================================================
