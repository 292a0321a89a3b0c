---------------------------- MODULE AudioPlayout ----------------------------
(***************************************************************************)
(* The native client's audio path: the opus packet queue the session fills *)
(* (SampleQueue), the audio thread that drains, decodes and plays it       *)
(* (audio::run with its shared and exclusive sinks), the exclusive sink's  *)
(* render thread, and the shell's stop(), which joins the audio thread.    *)
(* The render endpoint (WASAPI) is external: it may disappear, come back,  *)
(* and invalidate the sink that is open on it.                             *)
(***************************************************************************)
EXTENDS Integers, FiniteSets

CONSTANTS QueueCap,        \* SampleQueue::cap
          SourceRate,      \* opus is always decoded at this rate
          PacketFrames,    \* frames of one decoded packet
          DeviceRates,     \* rates a render endpoint may have
          DeviceChannels,  \* channel counts a shared endpoint may have
          MaxDeviceEvents  \* bound: endpoint changes in one session

ASSUME AudioAssumption ==
    /\ QueueCap \in Nat \ {0} /\ SourceRate \in Nat \ {0}
    /\ PacketFrames \in Nat \ {0} /\ MaxDeviceEvents \in Nat
    /\ DeviceRates \subseteq Nat \ {0} /\ DeviceChannels \subseteq Nat \ {0}

VARIABLES audioMode,   \* where audio::run is
          dec,         \* channels the open decoder was opened for, 0 = none
          sink,        \* the sink: none, live, or dead (invalidated under us)
          format,      \* rate and channels of the open sink
          retryDue,    \* SINK_RETRY has passed since the last failure
          uiState,     \* AudioShared::state
          fifo,        \* samples between decode and fill
          render,      \* the exclusive sink's render thread
          renderFailed,\* run_exclusive's failed flag
          packets,     \* packets in the SampleQueue
          audioClosed, \* SampleQueue::closed
          quit,        \* stats.stopped
          negotiated,  \* RxCore::audio_channels
          endpoint,    \* a default render endpoint exists
          delayed,     \* BP_AUDIO_DEBUG_DELAY_MS is set
          deviceEvents,
          born         \* history: the first decoder opened

audioVars == <<audioMode, dec, sink, format, retryDue, uiState, fifo, render,
               renderFailed, packets, audioClosed, quit, negotiated, endpoint,
               delayed, deviceEvents, born>>

NoFormat == [rate |-> 0, ch |-> 0]
Formats == [rate : DeviceRates, ch : DeviceChannels]

AudioInit ==
    /\ audioMode = "start" /\ dec = 0 /\ sink = "none" /\ format = NoFormat
    /\ retryDue = TRUE /\ uiState = "starting" /\ fifo = 0
    /\ render = "none" /\ renderFailed = FALSE
    /\ packets = 0 /\ audioClosed = FALSE /\ quit = FALSE
    /\ negotiated = 0 /\ endpoint \in BOOLEAN /\ delayed \in BOOLEAN
    /\ deviceEvents = 0 /\ born = TRUE

-----------------------------------------------------------------------------
\* ----- format conversion

(* Samples one source frame of sch channels becomes on a dch-channel sink. *)
MapChannels(sch, dch) ==
    CASE sch = dch -> sch
      [] sch = 1 /\ dch # 1 -> 2 + (dch - 2)
      [] sch = 2 /\ dch = 1 -> 1
      [] sch = 2 /\ dch > 2 -> 2 + (dch - 2)
      [] sch = 6 /\ dch = 2 -> 2
      [] OTHER -> LET n == IF sch < dch THEN sch ELSE dch IN n + (dch - n)

ConvertedLength(sch, f) ==
    LET frames == IF f.rate = SourceRate THEN PacketFrames
                  ELSE (PacketFrames * f.rate) \div SourceRate
    IN frames * MapChannels(sch, f.ch)

(* A quarter of a second of device audio; the exclusive sink holds half that *)
(* (40 ms in the code); the debug delay's silence is added to either.        *)
DebugDelaySamples(f) == IF delayed THEN (f.rate \div 4) * f.ch ELSE 0
SharedCap(f) == (f.rate \div 4) * f.ch + DebugDelaySamples(f)
ExclusiveCap(f) == (f.rate \div 8) * f.ch + DebugDelaySamples(f)

DropOldest(n, cap) == IF n > cap THEN cap ELSE n

-----------------------------------------------------------------------------
\* ----- the packet queue and its producers

Push ==
    /\ ~audioClosed
    /\ packets' = IF packets = QueueCap THEN QueueCap ELSE packets + 1
    /\ UNCHANGED <<audioMode, dec, sink, format, retryDue, uiState, fifo, render,
                   renderFailed, audioClosed, quit, negotiated, endpoint, delayed,
                   deviceEvents, born>>

SetAudioChannels ==
    /\ negotiated = 0
    /\ negotiated' \in {1, 2, 6}
    /\ UNCHANGED <<audioMode, dec, sink, format, retryDue, uiState, fifo, render,
                   renderFailed, packets, audioClosed, quit, endpoint, delayed,
                   deviceEvents, born>>

-----------------------------------------------------------------------------
\* ----- decoders and sinks

(* OpusDecoder::new: 0 channels falls back to stereo; 0 is a failed open. *)
OpenDecoder(channels) == {0, IF channels = 0 THEN 2 ELSE channels}

(* maybe_reopen_decoder: a failed reopen keeps the previous decoder. *)
MaybeReopenDecoder(d) ==
    IF negotiated = 0 \/ d = negotiated THEN {d}
    ELSE {IF o = 0 THEN d ELSE o : o \in OpenDecoder(negotiated)}

(* build_sink: nothing to open without an endpoint, and even with one the  *)
(* open may fail (a mix format that is not float32, a busy device).        *)
SinkUp(f) == /\ endpoint
             /\ sink' = "live" /\ format' = f /\ fifo' = DebugDelaySamples(f)
SinkDown(n) == sink' = "none" /\ format' = NoFormat /\ fifo' = n

-----------------------------------------------------------------------------
\* ----- audio::run

(* run_shared's prologue. *)
EnterShared(d) ==
    /\ audioMode' = "shared" /\ retryDue' = TRUE
    /\ \/ /\ \E f \in Formats : SinkUp(f)
          /\ uiState' = IF d # 0 THEN "running" ELSE "failed"
       \/ SinkDown(0) /\ uiState' = "failed"

Run ==
    /\ audioMode = "start"
    /\ dec' \in OpenDecoder(negotiated)
    /\ born' = (dec' # 0)
    /\ \/ EnterShared(dec') /\ UNCHANGED render
       \/ /\ audioMode' = "exclusive"
          /\ \E r \in DeviceRates : SinkUp([rate |-> r, ch |-> 2])
          /\ uiState' = "running" /\ render' = "running"
          /\ UNCHANGED retryDue
    /\ UNCHANGED <<renderFailed, packets, audioClosed, quit, negotiated, endpoint,
                   delayed, deviceEvents>>

(* One packet taken off the queue: the decoder follows the negotiated      *)
(* count, and a decoded packet is converted and the oldest samples beyond  *)
(* the cap dropped; a decode error leaves the samples alone.               *)
DecodePacket(cap, n, d) ==
    /\ packets > 0 /\ packets' = packets - 1
    /\ d \in MaybeReopenDecoder(dec)
    /\ n \in {fifo} \union
             (IF d # 0 /\ sink # "none"
                THEN {DropOldest(fifo + ConvertedLength(d, format), cap)} ELSE {})

(* wait_audio gives nothing, and the session is not over. *)
NoPacket(n, d) ==
    packets = 0 /\ ~quit /\ n = fifo /\ d = dec /\ UNCHANGED packets

(* The tail of the shared loop: fill the sink, drop one that fails, and    *)
(* rebuild a missing one when its retry is due.                            *)
FillAndRebuild(n, d) ==
    \/ /\ sink = "live"
       /\ \E k \in 0 .. n \div format.ch : fifo' = n - k * format.ch
       /\ UNCHANGED <<sink, format, retryDue, uiState>>
    \/ sink = "dead" /\ SinkDown(0) /\ uiState' = "failed" /\ retryDue' = FALSE
    \/ /\ sink = "none" /\ d # 0 /\ retryDue
       /\ \/ (\E f \in Formats : SinkUp(f)) /\ uiState' = "running" /\ UNCHANGED retryDue
          \/ SinkDown(n) /\ retryDue' = FALSE /\ UNCHANGED uiState
    \/ /\ sink = "none" /\ ~(d # 0 /\ retryDue) /\ SinkDown(n)
       /\ UNCHANGED <<retryDue, uiState>>

SharedIteration ==
    /\ audioMode = "shared"
    /\ \E d \in {0, 1, 2, 6}, n \in 0 .. fifo + (IF sink = "none" THEN 0
                                             ELSE ConvertedLength(6, format)) :
          /\ DecodePacket(SharedCap(format), n, d) \/ NoPacket(n, d)
          /\ dec' = d
          /\ FillAndRebuild(n, d)
    /\ UNCHANGED <<audioMode, render, renderFailed, audioClosed, quit, negotiated,
                   endpoint, delayed, deviceEvents, born>>

(* Only an empty queue makes the thread look at `stopped`. *)
Leave ==
    /\ packets = 0 /\ quit
    /\ audioMode' = "done" /\ SinkDown(0)
    /\ UNCHANGED <<dec, retryDue, uiState, packets>>

SharedStop ==
    /\ audioMode = "shared" /\ Leave
    /\ UNCHANGED <<render, renderFailed, audioClosed, quit, negotiated, endpoint,
                   delayed, deviceEvents, born>>

(* run_exclusive's producer: the same loop without the fill; a failed      *)
(* render thread ends it, and run() goes on in shared mode.                *)
ExclusiveIteration ==
    /\ audioMode = "exclusive" /\ ~renderFailed
    /\ \E d \in {0, 1, 2, 6}, n \in 0 .. fifo + ConvertedLength(6, format) :
          /\ DecodePacket(ExclusiveCap(format), n, d) \/ NoPacket(n, d)
          /\ dec' = d /\ fifo' = n
    /\ UNCHANGED <<audioMode, sink, format, retryDue, uiState, render, renderFailed,
                   audioClosed, quit, negotiated, endpoint, delayed, deviceEvents, born>>

ExclusiveFallback ==
    /\ audioMode = "exclusive" /\ renderFailed
    /\ EnterShared(dec)
    /\ UNCHANGED <<dec, render, renderFailed, packets, audioClosed, quit, negotiated,
                   endpoint, delayed, deviceEvents, born>>

(* The scope joins the render thread before run_exclusive returns. *)
ExclusiveStop ==
    /\ audioMode = "exclusive" /\ ~renderFailed /\ render = "exited" /\ Leave
    /\ UNCHANGED <<render, renderFailed, audioClosed, quit, negotiated, endpoint,
                   delayed, deviceEvents, born>>

(* The render thread: stopped is looked at first, a buffer event fills the *)
(* device with samples or silence, and a dead device either fails the fill *)
(* or never signals again, in which case the thread polls every 50 ms.     *)
RenderFill ==
    /\ render = "running" /\ ~quit /\ sink = "live"
    /\ \E k \in 1 .. 2 : fifo' = IF fifo > k * format.ch THEN fifo - k * format.ch ELSE 0
    /\ UNCHANGED <<audioMode, dec, sink, format, retryDue, uiState, render,
                   renderFailed, packets, audioClosed, quit, negotiated, endpoint,
                   delayed, deviceEvents, born>>

RenderFailsQuietly ==
    /\ render = "running" /\ ~quit /\ sink = "dead"
    /\ renderFailed' = TRUE /\ render' = "exited"
    /\ SinkDown(fifo)
    /\ UNCHANGED <<audioMode, dec, retryDue, uiState, packets, audioClosed, quit,
                   negotiated, endpoint, delayed, deviceEvents, born>>

RenderFails ==
    /\ render = "running" /\ ~quit /\ sink = "dead"
    /\ uiState' = "failed" /\ renderFailed' = TRUE /\ render' = "exited"
    /\ SinkDown(fifo)
    /\ UNCHANGED <<audioMode, dec, retryDue, packets, audioClosed, quit, negotiated,
                   endpoint, delayed, deviceEvents, born>>

RenderStops ==
    /\ render = "running" /\ quit
    /\ render' = "exited"
    /\ UNCHANGED <<audioMode, dec, sink, format, retryDue, uiState, fifo, renderFailed,
                   packets, audioClosed, quit, negotiated, endpoint, delayed,
                   deviceEvents, born>>

-----------------------------------------------------------------------------
\* ----- the shell, the clock and the device

(* stop(): the flag first, then close(), then the join. *)
SetStopped ==
    /\ ~quit /\ quit' = TRUE
    /\ UNCHANGED <<audioMode, dec, sink, format, retryDue, uiState, fifo, render,
                   renderFailed, packets, audioClosed, negotiated, endpoint, delayed,
                   deviceEvents, born>>

\* Mutant: only the video core is closed.
CloseVideoOnly == quit /\ ~audioClosed /\ UNCHANGED audioVars

CloseCore ==
    /\ quit /\ ~audioClosed /\ audioClosed' = TRUE
    /\ UNCHANGED <<audioMode, dec, sink, format, retryDue, uiState, fifo, render,
                   renderFailed, packets, quit, negotiated, endpoint, delayed,
                   deviceEvents, born>>

RetryElapses ==
    /\ audioMode = "shared" /\ ~retryDue /\ retryDue' = TRUE
    /\ UNCHANGED <<audioMode, dec, sink, format, uiState, fifo, render, renderFailed,
                   packets, audioClosed, quit, negotiated, endpoint, delayed,
                   deviceEvents, born>>

DeviceChanges ==
    /\ deviceEvents < MaxDeviceEvents /\ deviceEvents' = deviceEvents + 1
    /\ endpoint' \in BOOLEAN
    /\ sink' = IF sink = "live" THEN "dead" ELSE sink
    /\ UNCHANGED <<audioMode, dec, format, retryDue, uiState, fifo, render,
                   renderFailed, packets, audioClosed, quit, negotiated, delayed, born>>

AudioNext ==
    \/ Push \/ SetAudioChannels \/ Run \/ SharedIteration \/ SharedStop
    \/ ExclusiveIteration \/ ExclusiveFallback \/ ExclusiveStop
    \/ RenderFill \/ RenderFails \/ RenderStops
    \/ SetStopped \/ CloseCore \/ RetryElapses \/ DeviceChanges

AudioSpec == AudioInit /\ [][AudioNext]_audioVars

-----------------------------------------------------------------------------
\* ----- properties

(* Samples in the fifo are always whole device frames: the channel map, the *)
(* resampling length and the cap each keep the interleave, so a dropped     *)
(* sample never swaps the speakers.                                         *)
InterleaveKept == sink # "none" => fifo % format.ch = 0

(* What the UI says of audio agrees with the threads: running means a sink  *)
(* is there to be filled, and failed means nothing is being played, unless  *)
(* the very first decoder could not be opened.                              *)
UiTellsTheTruth ==
    audioMode \in {"shared", "exclusive"} /\ ~quit =>
        /\ uiState = "running" => sink # "none"
        /\ uiState = "failed" /\ born => sink = "none"

\* The samples stay whole frames and the indicator stays true (audio.rs run).
PlayoutHonest == InterleaveKept /\ UiTellsTheTruth

=============================================================================
