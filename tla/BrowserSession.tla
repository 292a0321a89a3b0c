--------------------------- MODULE BrowserSession ---------------------------
(***************************************************************************)
(* The browser client's session: web/stream/index.ts (class Stream), its   *)
(* two transports and the stall watchdog of session_ux.ts.                 *)
(*                                                                         *)
(* JavaScript runs one task at a time, but every await is a point where    *)
(* other tasks run: several startConnection() calls and several            *)
(* restartSessionWithFreshWs() calls may be suspended at once, each of     *)
(* them holding values it read before it was suspended.  A socket, the     *)
(* startConnection() call its Setup message starts and the transport that  *)
(* call builds share one number; this.ws is always the newest socket.      *)
(*                                                                         *)
(* Time is abstract: a timer may fire at any moment after it was set, and  *)
(* the ladder climbs at most one rung per tick, in the order its default   *)
(* thresholds fix.  The await of transport.close() resolves in the task    *)
(* that made the call and is part of it.                                   *)
(***************************************************************************)
EXTENDS Integers, Sequences, FiniteSets

CONSTANTS MaxSockets,   \* bound on the control sockets ever created
          RestartMax,   \* RESTART_MAX_ATTEMPTS
          TabIdrMax        \* idrMaxAttempts of the ladder

ASSUME BrowserBounds == {MaxSockets, RestartMax, TabIdrMax} \subseteq Nat \ {0}

VARIABLES
    desired,     \* settings.dataTransport
    override,    \* transportOverride = "websocket"
    ws,          \* this.ws, the newest socket
    sock,        \* readyState of each socket
    server,      \* what the web server made of each socket
    sendBuf,     \* wsSendBuffer
    conn,        \* where each startConnection() call is suspended
    kind,        \* the transport each call built
    tabPeer,        \* the RTCPeerConnection of each WebRTC transport
    transport,   \* this.transport (0 = null)
    completing,  \* ConnectionComplete handlers awaiting renderer and audio setup
    complete,    \* hasConnectionComplete
    video,       \* hasVideoReady
    ready,       \* hasDispatchedVideoReady
    restartAttempts,  \* restarts since video was last ready
    timer,       \* restartRetryTimer is set
    restarting,  \* restartSessionWithFreshWs() calls suspended
    wd,          \* the StallWatchdog
    polling,     \* watchdogBusy: a tick awaits getVideoFramesDecoded()
    hidden,      \* the page is hidden
    told,        \* history: the last word to the user is a failure
    overlapped,  \* history: two restarts have been suspended together
    stray        \* history: a retired connection attempt wrote to the send buffer

browserVars == <<desired, override, ws, sock, server, sendBuf, conn, kind, tabPeer, transport,
                 completing, complete, video, ready, restartAttempts, timer, restarting, wd,
                 polling, hidden, told, overlapped, stray>>

Sockets == 1..MaxSockets
LastRung == TabIdrMax + 3          \* stall, IdrMax requests, ICE restart, reconnect
IceRung == TabIdrMax + 2
WatchdogOff == [run |-> FALSE, paused |-> FALSE, rung |-> 0]

BrowserTypeOK ==
    /\ desired \in {"auto", "webrtc", "websocket"}
    /\ override \in BOOLEAN /\ complete \in BOOLEAN /\ video \in BOOLEAN /\ ready \in BOOLEAN
    /\ timer \in BOOLEAN /\ polling \in BOOLEAN /\ hidden \in BOOLEAN
    /\ told \in BOOLEAN /\ overlapped \in BOOLEAN /\ stray \in BOOLEAN
    /\ ws \in Sockets /\ transport \in 0..MaxSockets
    /\ sock \in [Sockets -> {"none", "connecting", "open", "closing", "closed"}]
    /\ server \in [Sockets -> {"idle", "refused", "init", "ready", "started"}]
    /\ sendBuf \in Seq({"Init", "StartStream", "Other"})
    /\ conn \in [Sockets -> {"none", "pipelines", "negotiating", "connected", "done"}]
    /\ kind \in [Sockets -> {"none", "webrtc", "websocket"}]
    /\ tabPeer \in [Sockets -> {"none", "new", "up", "dead"}]
    /\ completing \subseteq Sockets
    /\ restartAttempts \in 0..(MaxSockets + 1) /\ restarting \in 0..MaxSockets
    /\ wd \in [run : BOOLEAN, paused : BOOLEAN, rung : 0..LastRung]

BrowserInit ==
    /\ desired \in {"auto", "webrtc", "websocket"} /\ override = FALSE
    /\ ws = 1
    /\ sock = [s \in Sockets |-> IF s = 1 THEN "connecting" ELSE "none"]
    /\ server = [s \in Sockets |-> "idle"]
    /\ sendBuf = <<"Init">>
    /\ conn = [s \in Sockets |-> "none"]
    /\ kind = [s \in Sockets |-> "none"]
    /\ tabPeer = [s \in Sockets |-> "none"]
    /\ transport = 0 /\ completing = {}
    /\ complete = FALSE /\ video = FALSE /\ ready = FALSE
    /\ restartAttempts = 0 /\ timer = FALSE /\ restarting = 0
    /\ wd = WatchdogOff /\ polling = FALSE
    /\ hidden \in BOOLEAN
    /\ told = FALSE /\ overlapped = FALSE /\ stray = FALSE

----------------------------------------------------------------------------
(* The control socket. *)

\* What the server makes of one text message: the first one must be Init, and a
\* StartStream counts once Setup has been answered.
ServerTakes(phase, msg) ==
    CASE phase = "idle" -> IF msg = "Init" THEN "init" ELSE "refused"
      [] phase = "ready" /\ msg = "StartStream" -> "started"
      [] OTHER -> phase

\* sendWsMessage.  An uninteresting message behind another one is not recorded.
SendWs(msg) ==
    IF sock[ws] = "open"
    THEN /\ server' = [server EXCEPT ![ws] = ServerTakes(@, msg)]
         /\ UNCHANGED sendBuf
    ELSE /\ sendBuf' = IF msg = "Other" /\ sendBuf # <<>> THEN sendBuf ELSE Append(sendBuf, msg)
         /\ UNCHANGED server

\* onWsOpen: the buffer is written to the socket that opened, if it is this.ws.
OnWsOpen(s) ==
    /\ sock[s] = "connecting"
    /\ sock' = [sock EXCEPT ![s] = "open"]
    /\ IF s = ws
       THEN /\ server' = [server EXCEPT ![s] =
                 IF sendBuf = <<>> THEN @ ELSE ServerTakes(@, Head(sendBuf))]
            /\ sendBuf' = <<>>
       ELSE UNCHANGED <<server, sendBuf>>
    /\ UNCHANGED <<desired, override, ws, conn, kind, tabPeer, transport, completing, complete,
                   video, ready, restartAttempts, timer, restarting, wd, polling, hidden, told,
                   overlapped, stray>>

----------------------------------------------------------------------------
(* Readiness, the watchdog's start and stop, and the restart. *)

StopWatchdog(w) == [w EXCEPT !.run = FALSE, !.rung = 0]

\* startWatchdog -> StallWatchdog.start: the pause of a hidden page is forgotten.
StartedWatchdog == [run |-> TRUE, paused |-> FALSE, rung |-> 0]

\* tryDispatchVideoReady, with the two flags as they now are.
Dispatch(isComplete, isVideo) ==
    /\ complete' = isComplete /\ video' = isVideo
    /\ IF isComplete /\ isVideo /\ ~ready
       THEN /\ ready' = TRUE /\ restartAttempts' = 0 /\ timer' = FALSE
            /\ wd' = StartedWatchdog /\ told' = FALSE
       ELSE UNCHANGED <<ready, restartAttempts, timer, wd, told>>

\* armRestartRetry, and a one-shot restart that arms nothing.
ArmNothing ==
    /\ restartAttempts' = restartAttempts + 1
    /\ timer' = FALSE
    /\ told' = (restartAttempts + 1 > RestartMax)
Arm ==
    /\ restartAttempts' = restartAttempts + 1
    /\ timer' = (restartAttempts + 1 <= RestartMax)
    /\ told' = (restartAttempts + 1 > RestartMax)

\* What a restart retires of the old session: its transport is closed and the
\* old control socket with it.
OldSocketClosed ==
    [sock EXCEPT ![ws] = IF @ \in {"connecting", "open"} THEN "closing" ELSE @]
OldBufferCleared == <<>>
WatchdogRetired == StopWatchdog(wd)

\* restartSessionWithFreshWs up to the wait for the old socket and the delay.
BeginRestart ==
    /\ ws + restarting < MaxSockets
    /\ wd' = WatchdogRetired
    /\ complete' = FALSE /\ video' = FALSE /\ ready' = FALSE
    /\ Arm
    /\ tabPeer' = [tabPeer EXCEPT ![IF transport = 0 THEN ws ELSE transport] =
                   IF transport # 0 /\ kind[transport] = "webrtc" THEN "dead" ELSE @]
    /\ transport' = 0
    /\ sendBuf' = OldBufferCleared
    /\ sock' = OldSocketClosed
    /\ restarting' = restarting + 1
    /\ overlapped' = (overlapped \/ restarting > 0)

\* ... and after it: a new socket and its Init.  (A socket still connecting
\* takes the message from the buffer when it opens.)
FreshSocket ==
    /\ restarting > 0
    /\ restarting' = restarting - 1
    /\ ws' = ws + 1
    /\ sock' = [sock EXCEPT ![ws + 1] = "connecting"]
    /\ sendBuf' = Append(sendBuf, "Init")
    /\ UNCHANGED <<desired, override, server, conn, kind, tabPeer, transport, completing,
                   complete, video, ready, restartAttempts, timer, wd, polling, hidden, told,
                   overlapped, stray>>

\* The retry timer of armRestartRetry.
RetryTimer ==
    /\ timer /\ ~ready
    /\ BeginRestart
    /\ UNCHANGED <<desired, override, ws, server, conn, kind, completing, polling, hidden, stray>>

----------------------------------------------------------------------------
(* startConnection: one call per Setup message. *)

\* The end of the call: an "auto" attempt that never connected falls back to
\* the WebSocket transport, any other end is fatal.
EndConnection(s, connected) ==
    /\ conn' = [conn EXCEPT ![s] = "done"]
    /\ IF desired = "auto" /\ kind[s] = "webrtc" /\ ~connected
       THEN override' = TRUE /\ BeginRestart
       ELSE /\ wd' = StopWatchdog(wd) /\ told' = TRUE
            /\ UNCHANGED <<override, complete, video, ready, restartAttempts, timer, transport,
                           sendBuf, restarting, overlapped>>

\* The transport a call builds ...
ChosenKind == IF desired = "websocket" \/ override THEN "websocket" ELSE "webrtc"

\* ... and setTransport, which closes the peer of the transport it replaces.
PeersAfterSet(s) ==
    [t \in Sockets |->
        IF t = s THEN (IF ChosenKind = "webrtc" THEN "new" ELSE "none")
        ELSE IF t = transport /\ tabPeer[t] # "none" THEN "dead" ELSE tabPeer[t]]

\* Setup arrives on this.ws: SetTransport is sent, the transport is built and
\* installed, and createPipelines begins.
TabOnSetup(s) ==
    /\ s = ws /\ sock[s] = "open" /\ server[s] = "init" /\ conn[s] = "none"
    /\ kind' = [kind EXCEPT ![s] = ChosenKind]
    /\ tabPeer' = PeersAfterSet(s)
    /\ server' = [server EXCEPT ![s] = "ready"]
    /\ conn' = [conn EXCEPT ![s] = "pipelines"]
    /\ transport' = s
    /\ UNCHANGED <<desired, override, ws, sock, sendBuf, completing, complete, video, ready,
                   restartAttempts, timer, restarting, wd, polling, hidden, told, overlapped, stray>>

\* startStream: StartStream goes to whatever this.ws is now.
StartStream(s) ==
    /\ SendWs("StartStream")
    /\ stray' = (stray \/ s # ws \/ restarting > 0)

\* What the call awaits next: the negotiation, or the end of its socket.
AfterStart(s) == IF kind[s] = "webrtc" THEN "negotiating" ELSE "connected"

\* createPipelines resolved, be this call's session current, replaced or being
\* replaced.
PipelinesReady(s) ==
    /\ conn[s] = "pipelines"
    /\ StartStream(s)
    /\ conn' = [conn EXCEPT ![s] = AfterStart(s)]
    /\ UNCHANGED <<desired, override, ws, sock, kind, tabPeer, transport, completing, complete,
                   video, ready, restartAttempts, timer, restarting, wd, polling, hidden, told, overlapped>>

\* A restart set this.transport to null between two awaits of createPipelines:
\* the next call made on it throws, and nothing catches it.
PipelinesOrphaned(s) ==
    /\ conn[s] = "pipelines" /\ transport = 0
    /\ conn' = [conn EXCEPT ![s] = "done"]
    /\ UNCHANGED <<desired, override, ws, sock, server, sendBuf, kind, tabPeer, transport,
                   completing, complete, video, ready, restartAttempts, timer, restarting, wd, polling,
                   hidden, told, overlapped, stray>>

\* No pipeline for the codec: the WebRTC transport is closed, the call ends.
\* (A transport the user may not use ends the call the same way, before it is built.)
PipelinesFailed(s) ==
    /\ conn[s] = "pipelines" /\ EndConnection(s, FALSE)
    /\ UNCHANGED <<desired, ws, server, kind, completing, polling, hidden, stray>>
    /\ IF desired = "auto" /\ kind[s] = "webrtc" THEN TRUE
       ELSE /\ tabPeer' = [tabPeer EXCEPT ![s] = IF @ = "none" THEN @ ELSE "dead"]
            /\ UNCHANGED sock

\* The peer of an unretired transport connects: onconnect.
PeerConnects(s) ==
    /\ tabPeer[s] = "new" /\ server[s] = "started"
    /\ tabPeer' = [tabPeer EXCEPT ![s] = "up"]
    /\ conn' = [conn EXCEPT ![s] = IF @ = "negotiating" THEN "connected" ELSE @]
    /\ UNCHANGED <<desired, override, ws, sock, server, sendBuf, kind, transport, completing,
                   complete, video, ready, restartAttempts, timer, restarting, wd, polling, hidden,
                   told, overlapped, stray>>

\* The peer fails: onclose, heard only while the call waits for it.
PeerFails(s) ==
    /\ tabPeer[s] \in {"new", "up"}
    /\ conn[s] \in {"negotiating", "connected"}
    /\ EndConnection(s, conn[s] = "connected")
    /\ IF desired = "auto" /\ conn[s] = "negotiating" THEN TRUE
       ELSE tabPeer' = [tabPeer EXCEPT ![s] = "dead"] /\ UNCHANGED sock
    /\ UNCHANGED <<desired, ws, server, kind, completing, polling, hidden, stray>>

\* The 15 s negotiation timeout.  Closing the peer in a restart raises no event
\* and does not cancel it.
NegotiationTimeout(s) ==
    /\ conn[s] = "negotiating"
    /\ EndConnection(s, FALSE)
    /\ IF desired = "auto" THEN TRUE
       ELSE tabPeer' = [tabPeer EXCEPT ![s] = "dead"] /\ UNCHANGED sock
    /\ UNCHANGED <<desired, ws, server, kind, completing, polling, hidden, stray>>

\* The close event of a socket.  this.ws only logs it; the WebSocket transport
\* built on the socket reports the shutdown to the call that awaits it.
OnWsClose(s) ==
    /\ sock[s] \in {"connecting", "open", "closing"}
    /\ sock' = [sock EXCEPT ![s] = "closed"]
    /\ IF kind[s] = "websocket" /\ conn[s] = "connected"
       THEN EndConnection(s, TRUE) /\ UNCHANGED tabPeer
       ELSE UNCHANGED <<conn, override, complete, video, ready, restartAttempts, timer, tabPeer,
                        transport, sendBuf, restarting, overlapped, wd, told>>
    /\ UNCHANGED <<desired, ws, server, kind, completing, polling, hidden, stray>>

----------------------------------------------------------------------------
(* Messages and frames of the running session. *)

\* ConnectionComplete on this.ws, up to the await of the two setups ...
TabOnConnectionComplete(s) ==
    /\ s = ws /\ sock[s] = "open" /\ server[s] = "started" /\ s \notin completing /\ ~complete
    /\ completing' = completing \union {s}
    /\ UNCHANGED <<desired, override, ws, sock, server, sendBuf, conn, kind, tabPeer, transport,
                   complete, video, ready, restartAttempts, timer, restarting, wd, polling, hidden,
                   told, overlapped, stray>>

\* ... and after it, whatever session is current by then.
MarkConnectionComplete(s) ==
    /\ s \in completing
    /\ completing' = completing \ {s}
    /\ Dispatch(TRUE, video)
    /\ UNCHANGED <<desired, override, ws, sock, server, sendBuf, conn, kind, tabPeer, transport,
                   restarting, polling, hidden, overlapped, stray>>

TabOnConnectionTerminated(s) ==
    /\ s = ws /\ sock[s] = "open" /\ server[s] = "started" /\ ~told
    /\ wd' = StopWatchdog(wd) /\ told' = TRUE
    /\ UNCHANGED <<desired, override, ws, sock, server, sendBuf, conn, kind, tabPeer, transport,
                   completing, complete, video, ready, restartAttempts, timer, restarting, polling,
                   hidden, overlapped, stray>>

\* Media of transport s arrives: the track of a connected peer, announced once,
\* or packets on an open socket.
MediaFlows(s) == IF kind[s] = "webrtc" THEN tabPeer[s] = "up" /\ ~video ELSE sock[s] = "open"

\* A track or a video packet: markVideoReady, and for data pipelines the
\* watchdog's frame signal.
OnVideo(s) ==
    /\ s = transport /\ server[s] = "started"
    /\ MediaFlows(s)
    /\ IF kind[s] = "websocket" /\ video
       THEN /\ wd.run /\ wd.rung > 0
            /\ wd' = [wd EXCEPT !.rung = 0]
            /\ UNCHANGED <<complete, video, ready, restartAttempts, timer, told>>
       ELSE Dispatch(complete, TRUE)
    /\ UNCHANGED <<desired, override, ws, sock, server, sendBuf, conn, kind, tabPeer, transport,
                   completing, restarting, polling, hidden, overlapped, stray>>

----------------------------------------------------------------------------
(* The stall watchdog. *)

\* One tick of the ladder climbs at most one rung.
Climb ==
    /\ wd.run /\ ~wd.paused /\ wd.rung < LastRung
    /\ IF wd.rung + 1 = LastRung
       THEN BeginRestart /\ UNCHANGED server
       ELSE /\ wd' = [wd EXCEPT !.rung = @ + 1]
            /\ IF wd.rung >= 1 /\ (wd.rung + 1 = IceRung => transport # 0 /\ kind[transport] = "webrtc")
               THEN SendWs("Other") ELSE UNCHANGED <<sendBuf, server>>
            /\ UNCHANGED <<sock, complete, video, ready, restartAttempts, timer, told, tabPeer, transport,
                           restarting, overlapped>>

\* watchdogTick: a WebRTC transport is asked for its frame counter first.
TickBegins ==
    /\ wd.run /\ ~polling /\ transport # 0 /\ kind[transport] = "webrtc"
    /\ polling' = TRUE
    /\ UNCHANGED <<desired, override, ws, sock, server, sendBuf, conn, kind, tabPeer, transport,
                   completing, complete, video, ready, restartAttempts, timer, restarting, wd, hidden,
                   told, overlapped, stray>>

\* The counter is read and no rung is due: it moved, which is a frame, or not.
TickIdle ==
    /\ polling /\ polling' = FALSE
    /\ wd' \in {wd, IF wd.run THEN [wd EXCEPT !.rung = 0] ELSE wd}
    /\ UNCHANGED <<desired, override, ws, sock, server, sendBuf, conn, kind, tabPeer, transport,
                   completing, complete, video, ready, restartAttempts, timer, restarting, hidden,
                   told, overlapped, stray>>

\* The counter stood still, or the transport has none, and a rung is due.
TickDue ==
    /\ polling \/ (wd.run /\ (transport = 0 \/ kind[transport] # "webrtc"))
    /\ polling' = FALSE
    /\ Climb
    /\ UNCHANGED <<desired, override, ws, conn, kind, completing, hidden, stray>>

\* The visibilitychange listener.
VisibilityChange ==
    /\ hidden' = ~hidden
    /\ wd' = [wd EXCEPT !.paused = ~hidden]
    /\ UNCHANGED <<desired, override, ws, sock, server, sendBuf, conn, kind, tabPeer, transport,
                   completing, complete, video, ready, restartAttempts, timer, restarting, polling,
                   told, overlapped, stray>>

BrowserNext ==
    \/ \E s \in Sockets :
         \/ OnWsOpen(s) \/ OnWsClose(s) \/ TabOnSetup(s)
         \/ PipelinesReady(s) \/ PipelinesOrphaned(s) \/ PipelinesFailed(s)
         \/ PeerConnects(s) \/ PeerFails(s) \/ NegotiationTimeout(s)
         \/ TabOnConnectionComplete(s) \/ MarkConnectionComplete(s) \/ TabOnConnectionTerminated(s)
         \/ OnVideo(s)
    \/ FreshSocket \/ RetryTimer
    \/ TickBegins \/ TickIdle \/ TickDue \/ VisibilityChange

BrowserSpec == BrowserInit /\ [][BrowserNext]_browserVars

----------------------------------------------------------------------------
(* Properties. *)

\* Once a session has been restarted there is always somebody left to bring it
\* back (a restart under way, the retry timer or the watchdog), or the last
\* thing the user was told is that recovery has failed.
NoSilentStall ==
    (ws > 1 \/ restarting > 0) => restarting > 0 \/ timer \/ wd.run \/ told

\* The ladder and the retry timer never own recovery at the same time, and the
\* ladder only watches a session that has shown video.
OneRecoveryOwner == wd.run => ready /\ ~timer /\ restartAttempts = 0

\* A control socket other than this.ws that nobody has closed (its streamer
\* session would live on) exists only when two restarts overlapped.
LeakNeedsOverlap ==
    \A s \in Sockets : (s < ws /\ sock[s] \in {"connecting", "open"}) => overlapped

\* The server refuses a control socket (its first message was not Init) only
\* when a retired connection attempt wrote to the buffer of the next session,
\* or two restarts shared one buffer.
RefusalNeedsStray ==
    \A s \in Sockets : server[s] = "refused" => stray \/ overlapped

\* The tab recovers or says so: one owner of recovery at a time, none only
\* after the user was told, and sockets leak or are refused only through
\* overlapping restarts (Stream.restart, scheduleRetry, onWsClose).
TabRecovers ==
    /\ BrowserTypeOK /\ NoSilentStall /\ OneRecoveryOwner
    /\ LeakNeedsOverlap /\ RefusalNeedsStray

=============================================================================
