-------------------------- MODULE StreamerSession --------------------------
(***************************************************************************)
(* One streaming session on the host: the web server's start_host, which   *)
(* relays between the client's socket and a streamer child process, and    *)
(* the streamer itself: its IPC task, the event listener of each           *)
(* transport, start_stream, the media callbacks, the terminate timers, and *)
(* the one stop() they all may call.                                       *)
(*                                                                         *)
(* The mutex around the transport sender is kept, because media callbacks  *)
(* and the IPC task hold it while they wait for room in the transport's    *)
(* event channel.  The client asks for one stream in a session.            *)
(***************************************************************************)
EXTENDS Integers, Sequences, FiniteSets

CONSTANTS
    Kinds,         \* transports the permissions allow: "webrtc", "websocket"
    EventCap,      \* capacity of a transport's event channel
    MaxPackets,    \* bound on client packets queued in it
    PipeCap,       \* bound on client messages in the pipe down, and on the pipe up
    MaxTransports, \* bound on SetTransport messages
    Timeout,       \* TIMEOUT_DURATION in ticks
    Modes          \* sets of things that happen in one session, drawn from Events

Events == {"switch", "packet", "quit", "peer", "host", "fec", "crash", "failure"}

ASSUME SessionAssumption ==
    /\ Modes \subseteq SUBSET Events
    /\ Kinds \subseteq {"webrtc", "websocket"}
    /\ {EventCap, PipeCap, MaxTransports, Timeout} \subseteq Nat \ {0}
    /\ MaxPackets \in 0 .. EventCap

Ids == 1 .. MaxTransports
None == 0 - 1

VARIABLES
    may,       \* the events of this session
    ws,        \* the client's socket: "open" or "closed"
    wsLoop,    \* start_host's socket-to-IPC loop: "run" or "done"
    relay,     \* its IPC-to-socket task: [pc, code, graceful, warned]
    down,      \* IPC messages to the streamer
    up,        \* IPC messages to the server
    child,     \* the process: "up", "crashed", "exited" or "killed"
    main,      \* main(): "boot", "wait" or "linger"
    ipc,       \* the IPC task: [pc, msg]
    sender,    \* transport_sender: a transport or 0
    lock,      \* holder of its mutex: "free", "ipc", "stop", "start", "media"
    kind,      \* transport -> its kind
    open,      \* transport -> not closed yet
    ev,        \* transport -> its event channel
    lis,       \* transport -> its listener: "off", "run", "callstop", "instop", "ending", "done"
    start,     \* start_stream: "none", "clear", "connect", "epoch", "store", "setup", "failed" or "done"
    stream,    \* StreamConnection.stream is set
    running,   \* the host connection runs
    media,     \* a media callback: "idle", the event it waits to queue, or "dead"
    host,      \* connection_terminated: "idle", "callstop" or "done"
    stop,      \* the body of stop(): "none", "lock", "ipc" or "done"
    stopBy,    \* who runs it
    request,   \* timeout_terminate_request: its age or None
    timers,    \* ages of the sleeping terminate timers
    cause,     \* history: what made the first stop() call
    deaf,      \* history: ticks without an open transport
    late       \* history: the request was made after another transport was chosen

server == <<may, ws, wsLoop, relay>>
pipes == <<down, up>>
transports == <<sender, lock, kind, open, ev, lis>>
starting == <<start, stream, running, media, host>>
stopping == <<stop, stopBy, cause>>
timing == <<request, timers, deaf, late>>
streamerVars == <<server, pipes, child, main, ipc, transports, starting, stopping, timing>>

Up == child = "up"
Each(x) == [i \in Ids |-> x]
IdleIpc == [pc |-> "recv", msg |-> "none"]
\* Writes to a dead child are lost at once.
Down(m) == down' = IF Up THEN Append(down, m) ELSE down
Room(q) == Len(q) < PipeCap

StreamerInit ==
    /\ may \in Modes
    /\ ws = "open" /\ wsLoop = "run"
    /\ relay = [pc |-> "run", code |-> FALSE, graceful |-> FALSE, warned |-> FALSE]
    /\ down = <<>> /\ up = <<>> /\ child = "up" /\ main = "boot"
    /\ ipc = IdleIpc /\ sender = 0 /\ lock = "free"
    /\ kind = Each("none") /\ open = Each(FALSE) /\ ev = Each(<<>>) /\ lis = Each("off")
    /\ start = "none" /\ stream = FALSE /\ running = FALSE
    /\ media = "idle" /\ host = "idle"
    /\ stop = "none" /\ stopBy = "none" /\ cause = "none"
    /\ request = None /\ timers = <<>> /\ deaf = 0 /\ late = FALSE

\* ------------------------------------------------------------ the server

\* SetTransport is under way; the current transport is open.
Choosing == ipc.pc \in {"take", "install"}
Connected == sender # 0 /\ open[sender]

\* Transports asked for so far.
Chosen == Cardinality({i \in Ids : lis[i] # "off"})
          + Cardinality({n \in 1 .. Len(down) : down[n] = "set"})
          + IF Choosing THEN 1 ELSE 0

\* start_host forwards one client message: SetTransport, StartStream, or a
\* packet of the WebSocket transport (input, or the general Stop).
ClientSends(m) ==
    /\ ws = "open" /\ wsLoop = "run" /\ Room(down)
    /\ m = "set" => Chosen < IF "switch" \in may THEN MaxTransports ELSE 1
    /\ m = "start" => /\ start = "none" /\ sender # 0 /\ ipc.msg # "start"
                      /\ \A n \in 1 .. Len(down) : down[n] # "start"
                      /\ \A i \in Ids : \A n \in 1 .. Len(ev[i]) : ev[i][n] # "start"
    /\ m \in {"packet", "quit"} => m \in may /\ sender # 0 /\ kind[sender] = "websocket"
    /\ Down(m)
    /\ UNCHANGED <<server, up, child, main, ipc, transports, starting, stopping, timing>>

ClientCloses ==
    /\ ws = "open" /\ ws' = "closed"
    /\ UNCHANGED <<may, wsLoop, relay, pipes, child, main, ipc, transports, starting, stopping, timing>>

\* Mutant: the streamer is not told.
WsLoopEndsSilently ==
    /\ wsLoop = "run" /\ wsLoop' = "done"
    /\ UNCHANGED <<may, ws, relay, pipes, child, main, ipc, transports, starting, stopping, timing>>

\* The socket is gone, or a message does not parse: tell the streamer to stop.
WsLoopEnds ==
    /\ wsLoop = "run"
    /\ wsLoop' = "done" /\ Down("stop")
    /\ UNCHANGED <<may, ws, relay, up, child, main, ipc, transports, starting, stopping, timing>>

\* The relay takes one IPC message.  The first one it cannot deliver to a
\* closed socket makes it send Stop.
RelayForwards ==
    /\ relay.pc = "run" /\ up # <<>>
    /\ up' = Tail(up)
    /\ IF Head(up) = "stop"
       THEN /\ relay' = [relay EXCEPT !.pc = "close", !.graceful = TRUE]
            /\ UNCHANGED down
       ELSE /\ relay' = [relay EXCEPT !.code = @ \/ Head(up) = "terminated",
                                      !.warned = @ \/ ws = "closed"]
            /\ IF ws = "closed" /\ ~relay.warned
               THEN Down("stop")
               ELSE UNCHANGED down
    /\ UNCHANGED <<may, ws, wsLoop, child, main, ipc, transports, starting, stopping, timing>>

\* The pipe of a dead child ends: wait ten seconds, then clean up.
RelayEnds ==
    /\ relay.pc = "run" /\ up = <<>> /\ ~Up
    /\ relay' = [relay EXCEPT !.pc = "close"]
    /\ UNCHANGED <<may, ws, wsLoop, pipes, child, main, ipc, transports, starting, stopping, timing>>

\* The process is gone, and with it all it held; what it wrote stays in the pipe.
Dies(how) ==
    /\ child' = how /\ down' = <<>> /\ main' = "boot" /\ ipc' = IdleIpc
    /\ sender' = 0 /\ lock' = "free"
    /\ kind' = Each("none") /\ open' = Each(FALSE) /\ ev' = Each(<<>>) /\ lis' = Each("off")
    /\ start' = "none" /\ stream' = FALSE /\ running' = FALSE /\ media' = "idle" /\ host' = "idle"
    /\ stop' = "none" /\ stopBy' = "none" /\ UNCHANGED cause
    /\ request' = None /\ timers' = <<>> /\ deaf' = 0 /\ late' = FALSE

\* Close the socket, kill the child, publish Terminated and Exited.
RelayCloses ==
    /\ relay.pc = "close"
    /\ relay' = [relay EXCEPT !.pc = "done"] /\ ws' = "closed"
    /\ IF Up THEN Dies("killed")
       ELSE UNCHANGED <<down, child, main, ipc, transports, starting, stopping, timing>>
    /\ UNCHANGED <<may, wsLoop, up>>

Crash ==
    /\ Up /\ "crash" \in may /\ Dies("crashed")
    /\ UNCHANGED <<server, up>>

\* ------------------------------------------------------- stop and timers

\* stop(): the first caller runs the body, every other one returns at once.
\* The body begins by aborting the bitrate task and taking the stream, which
\* is stopped in the background.
CallStop(who, why) ==
    IF stop = "none"
    THEN /\ stop' = "lock" /\ stopBy' = who /\ cause' = why
         /\ stream' = FALSE /\ running' = (running /\ ~stream)
    ELSE UNCHANGED <<stopping, stream, running>>

\* The timer holds the request's mutex while it runs stop().
RequestLocked == stopBy = "timer" /\ stop # "done"

\* Take and close the transport; the mutex stays locked to the end.
StopCloses ==
    /\ Up /\ stop = "lock" /\ lock = "free"
    /\ stop' = "ipc" /\ lock' = "stop" /\ sender' = 0
    /\ open' = IF sender = 0 THEN open ELSE [open EXCEPT ![sender] = FALSE]
    /\ UNCHANGED <<server, pipes, child, main, ipc, kind, ev, lis, starting, stopBy, cause, timing>>

\* Tell the server, and wake main: notify_waiters reaches it only if it waits
\* already.
StopFinishes ==
    /\ Up /\ stop = "ipc" /\ Room(up)
    /\ stop' = "done" /\ up' = Append(up, "stop")
    /\ lock' = "free" /\ main' = IF main = "wait" THEN "linger" ELSE main
    /\ UNCHANGED <<server, down, child, ipc, sender, kind, open, ev, lis, starting, stopBy, cause, timing>>

\* main: announce Setup and wait; after a stop linger ten seconds and exit.
MainSendsSetup ==
    /\ Up /\ main = "boot" /\ Room(up)
    /\ main' = "wait" /\ up' = Append(up, "setup")
    /\ UNCHANGED <<server, down, child, ipc, transports, starting, stopping, timing>>

MainExits ==
    /\ Up /\ main = "linger" /\ Dies("exited")
    /\ UNCHANGED <<server, up>>

\* request_terminate on behalf of transport i, 0 for a stream without one.
RequestTerminate(i) ==
    /\ request' = 0 /\ timers' = Append(timers, 0) /\ UNCHANGED deaf
    /\ late' = (Choosing \/ sender \notin {0, i})
ClearTerminateRequest == request' = None /\ late' = FALSE /\ UNCHANGED deaf

Least(a, b) == IF a < b THEN a ELSE b
Due == Timeout + 1

TimeoutTick ==
    /\ Up /\ timers # <<>> /\ Head(timers) < Due
    /\ timers' = [i \in 1 .. Len(timers) |-> Least(timers[i] + 1, Due)]
    /\ request' = IF request = None THEN None ELSE Least(request + 1, Due)
    /\ deaf' = IF Connected THEN 0 ELSE Least(deaf + 1, Due)
    /\ UNCHANGED <<server, pipes, child, main, ipc, transports, starting, stopping, late>>

\* A timer wakes: it stops the session only if the request is still there and
\* old enough, which a newer request is not.
TimerFires ==
    /\ Up /\ timers # <<>> /\ Head(timers) = Due /\ ~RequestLocked
    /\ timers' = Tail(timers)
    /\ IF request # None /\ request > Timeout THEN CallStop("timer", "timeout")
       ELSE UNCHANGED <<stopping, stream, running>>
    /\ UNCHANGED <<server, pipes, child, main, ipc, transports, start, media, host, request, deaf, late>>

\* --------------------------------------------------------- the IPC task

\* Mutant: SetTransport leaves the terminate request of the old transport.
IpcRecvKeepsRequest ==
    /\ Up /\ ipc.pc = "recv" /\ down # <<>>
    /\ down' = Tail(down)
    /\ CASE Head(down) = "set" ->
              /\ ipc' = [msg |-> "none", pc |-> "take"]
              /\ UNCHANGED timing
              /\ UNCHANGED <<stopping, stream, running>>
         [] Head(down) = "stop" ->
              /\ ipc' = [msg |-> "none", pc |-> "instop"]
              /\ CallStop("ipc", "asked") /\ UNCHANGED timing
         [] OTHER ->
              /\ ipc' = [msg |-> Head(down), pc |-> "dispatch"]
              /\ UNCHANGED <<stopping, stream, running, timing>>
    /\ UNCHANGED <<server, up, child, main, transports, start, media, host>>

\* One message: SetTransport first clears the terminate request; Stop calls
\* stop(); any other goes to the transport.
IpcRecv ==
    /\ Up /\ ipc.pc = "recv" /\ down # <<>>
    /\ down' = Tail(down)
    /\ CASE Head(down) = "set" ->
              /\ ipc' = [msg |-> "none", pc |-> "take"]
              /\ ~RequestLocked /\ ClearTerminateRequest /\ UNCHANGED timers
              /\ UNCHANGED <<stopping, stream, running>>
         [] Head(down) = "stop" ->
              /\ ipc' = [msg |-> "none", pc |-> "instop"]
              /\ CallStop("ipc", "asked") /\ UNCHANGED timing
         [] OTHER ->
              /\ ipc' = [msg |-> Head(down), pc |-> "dispatch"]
              /\ UNCHANGED <<stopping, stream, running, timing>>
    /\ UNCHANGED <<server, up, child, main, transports, start, media, host>>

\* After Stop the task ends.
IpcEnds ==
    /\ Up /\ ipc.pc = "instop" /\ (stopBy = "ipc" => stop = "done")
    /\ ipc' = [ipc EXCEPT !.pc = "done"]
    /\ UNCHANGED <<server, pipes, child, main, transports, starting, stopping, timing>>

\* SetTransport takes and closes the old transport, creates the new one,
\* installs it and starts its listener.
IpcClosesOld ==
    /\ Up /\ ipc.pc = "take" /\ lock = "free"
    /\ ipc' = [ipc EXCEPT !.pc = "install"] /\ sender' = 0
    /\ open' = IF sender = 0 THEN open ELSE [open EXCEPT ![sender] = FALSE]
    /\ UNCHANGED <<server, pipes, child, main, lock, kind, ev, lis, starting, stopping, timing>>

NextTransport == CHOOSE i \in Ids : lis[i] = "off" /\ \A j \in Ids : lis[j] = "off" => i <= j

IpcInstalls(k) ==
    /\ Up /\ ipc.pc = "install" /\ lock = "free" /\ \E i \in Ids : lis[i] = "off"
    /\ ipc' = [ipc EXCEPT !.pc = "recv"]
    /\ sender' = NextTransport /\ kind' = [kind EXCEPT ![NextTransport] = k]
    /\ open' = [open EXCEPT ![NextTransport] = TRUE] /\ lis' = [lis EXCEPT ![NextTransport] = "run"]
    /\ deaf' = 0
    /\ UNCHANGED <<server, pipes, child, main, lock, ev, starting, stopping, request, timers, late>>

\* The permissions refuse the transport, or it cannot be created.
IpcInstallFails ==
    /\ Up /\ "failure" \in may /\ ipc.pc \in {"take", "install"} /\ ipc' = [ipc EXCEPT !.pc = "recv"]
    /\ UNCHANGED <<server, pipes, child, main, transports, starting, stopping, timing>>

\* Any other message goes to the transport under the mutex, which turns it
\* into an event; when its channel is full it waits for room with the mutex.
Listening == sender # 0 /\ lis[sender] # "done"
EventRoom == Len(ev[sender]) < EventCap
Event(m) == ev' = IF Listening THEN [ev EXCEPT ![sender] = Append(@, m)] ELSE ev

IpcDelivers ==
    /\ Up /\ ((ipc.pc = "dispatch" /\ lock = "free") \/ ipc.pc = "send")
    /\ Listening => EventRoom
    /\ Event(ipc.msg) /\ lock' = "free" /\ ipc' = IdleIpc
    /\ UNCHANGED <<server, pipes, child, main, sender, kind, open, lis, starting, stopping, timing>>

IpcBlocks ==
    /\ Up /\ ipc.pc = "dispatch" /\ lock = "free" /\ Listening /\ ~EventRoom
    /\ lock' = "ipc" /\ ipc' = [ipc EXCEPT !.pc = "send"]
    /\ UNCHANGED <<server, pipes, child, main, sender, kind, open, ev, lis, starting, stopping, timing>>

\* ------------------------------------------------- transport listeners

\* A data channel of an open WebRTC transport delivers a packet.
DataChannelPacket(i, m) ==
    /\ Up /\ m \in may /\ open[i] /\ kind[i] = "webrtc" /\ Len(ev[i]) < MaxPackets
    /\ ev' = [ev EXCEPT ![i] = Append(@, m)]
    /\ UNCHANGED <<server, pipes, child, main, ipc, sender, lock, kind, open, lis, starting, stopping, timing>>

\* The peer fails or closes; the transport reports it as closed.
PeerCloses(i) ==
    /\ Up /\ "peer" \in may /\ open[i] /\ kind[i] = "webrtc"
    /\ open' = [open EXCEPT ![i] = FALSE]
    /\ UNCHANGED <<server, pipes, child, main, ipc, sender, lock, kind, ev, lis, starting, stopping, timing>>

\* Mutant: the listener stops the session before it relays the reason.
ListenerRelaysLate(i) ==
    /\ Up /\ lis[i] = "run" /\ ev[i] # <<>>
    /\ \/ Head(ev[i]) = "ipc" /\ Room(up) /\ up' = Append(up, "media") /\ UNCHANGED <<lis, stopping, stream, running>>
       \/ /\ Head(ev[i]) = "terminated" /\ UNCHANGED up
          /\ CallStop("listener", "terminated") /\ lis' = [lis EXCEPT ![i] = IF stop = "none" THEN "ending" ELSE "done"]
    /\ ev' = [ev EXCEPT ![i] = Tail(@)]
    /\ UNCHANGED <<server, down, child, main, ipc, sender, lock, kind, open, start, media, host, timing>>

\* SendIpc: relay the message; the reason of a termination goes first, then
\* the session is stopped.
ListenerRelays(i) ==
    /\ Up /\ lis[i] = "run" /\ ev[i] # <<>> /\ Head(ev[i]) \in {"ipc", "terminated"} /\ Room(up)
    /\ up' = Append(up, IF Head(ev[i]) = "ipc" THEN "media" ELSE "terminated")
    /\ lis' = [lis EXCEPT ![i] = IF Head(ev[i]) = "ipc" THEN @ ELSE "callstop"]
    /\ ev' = [ev EXCEPT ![i] = Tail(@)]
    /\ UNCHANGED <<server, down, child, main, ipc, sender, lock, kind, open, starting, stopping, timing>>

ListenerCallsStop(i) ==
    /\ Up /\ lis[i] = "callstop"
    /\ CallStop("listener", "terminated")
    /\ lis' = [lis EXCEPT ![i] = IF stop = "none" THEN "ending" ELSE "done"]
    /\ UNCHANGED <<server, pipes, child, main, ipc, sender, lock, kind, open, ev, start, media, host, timing>>

\* StartStream runs in a task of its own.
ListenerStarts(i) ==
    /\ Up /\ lis[i] = "run" /\ ev[i] # <<>> /\ Head(ev[i]) = "start"
    /\ ev' = [ev EXCEPT ![i] = Tail(@)]
    /\ start' = "clear"
    /\ UNCHANGED <<server, pipes, child, main, ipc, sender, lock, kind, open, lis, stream, running, media, host, stopping, timing>>

\* on_packet: input goes to the host; the general Stop stops the session, and
\* the listener reads no event until stop() returns.  Without a stream every
\* packet is ignored.
ListenerPacket(i) ==
    /\ Up /\ lis[i] = "run" /\ ev[i] # <<>> /\ Head(ev[i]) \in {"packet", "quit"}
    /\ ev' = [ev EXCEPT ![i] = Tail(@)]
    /\ IF Head(ev[i]) = "quit" /\ stream
       THEN CallStop("listener", "asked") /\ lis' = [lis EXCEPT ![i] = IF stop = "none" THEN "instop" ELSE @]
       ELSE UNCHANGED <<stopping, lis, stream, running>>
    /\ UNCHANGED <<server, pipes, child, main, ipc, sender, lock, kind, open, start, media, host, timing>>

ListenerResumes(i) ==
    /\ Up /\ lis[i] \in {"instop", "ending"} /\ stop = "done"
    /\ lis' = [lis EXCEPT ![i] = IF @ = "instop" THEN "run" ELSE "done"]
    /\ UNCHANGED <<server, pipes, child, main, ipc, sender, lock, kind, open, ev, starting, stopping, timing>>

\* A closed transport asks for termination after the timeout.
ListenerClosed(i) ==
    /\ Up /\ lis[i] = "run" /\ ev[i] = <<>> /\ ~open[i] /\ ~RequestLocked
    /\ lis' = [lis EXCEPT ![i] = "done"] /\ RequestTerminate(i)
    /\ UNCHANGED <<server, pipes, child, main, ipc, sender, lock, kind, open, ev, starting, stopping>>

\* -------------------------------------------------------- start_stream

StartClears ==
    /\ Up /\ start = "clear" /\ ~RequestLocked
    /\ start' = "connect" /\ ClearTerminateRequest
    /\ UNCHANGED <<server, pipes, child, main, ipc, transports, stream, running, media, host, stopping, timers>>

\* The host is asked to launch and the connection is made, or either fails.
StartConnects ==
    /\ Up /\ start = "connect"
    /\ \/ start' = "epoch" /\ running' = TRUE
       \/ "failure" \in may /\ start' = "failed" /\ UNCHANGED running
    /\ UNCHANGED <<server, pipes, child, main, ipc, transports, stream, media, host, stopping, timing>>

NamesEpoch == sender # 0 /\ kind[sender] = "webrtc"

\* With FEC version 2 the transport must name its sender epoch; otherwise the
\* new connection is stopped again and the session fails.
StartReadsEpoch ==
    /\ Up /\ start = "epoch" /\ lock = "free"
    /\ \/ ~NamesEpoch /\ start' = "failed" /\ running' = FALSE
       \/ start' = "store" /\ UNCHANGED running
    /\ UNCHANGED <<server, pipes, child, main, ipc, transports, stream, media, host, stopping, timing>>

StartStores ==
    /\ Up /\ start = "store"
    /\ start' = "setup" /\ stream' = TRUE
    /\ UNCHANGED <<server, pipes, child, main, ipc, transports, running, media, host, stopping, timing>>

\* on_setup_complete: WebRTC sends its offer; without a transport the
\* session asks for termination.
StartCompletes ==
    /\ Up /\ start = "setup" /\ lock = "free"
    /\ start' = "done"
    /\ IF sender = 0 THEN ~RequestLocked /\ RequestTerminate(0) /\ UNCHANGED ev
       ELSE /\ UNCHANGED timing
            /\ IF kind[sender] = "webrtc" THEN (Listening => EventRoom) /\ Event("ipc")
               ELSE UNCHANGED ev
    /\ UNCHANGED <<server, pipes, child, main, ipc, sender, lock, kind, open, lis, stream, running, media, host, stopping>>

StartFails ==
    /\ Up /\ start = "failed"
    /\ start' = "done" /\ CallStop("start", "failed")
    /\ UNCHANGED <<server, pipes, child, main, ipc, transports, media, host, timing>>

\* ------------------------------------------------------- host callbacks

\* A decoded frame or sample is handed to the transport under the mutex.  The
\* WebSocket transport queues it as an event; WebRTC queues one only to report
\* the death of its FEC sender, once.
MediaEvent(m) ==
    \/ m = "ipc" /\ kind[sender] = "websocket"
    \/ m = "terminated" /\ kind[sender] = "webrtc" /\ "fec" \in may

MediaSends(m) ==
    /\ Up /\ Listening /\ EventRoom
    /\ \/ media = "idle" /\ running /\ lock = "free" /\ MediaEvent(m)
       \/ media = m
    /\ Event(m) /\ media' = (IF m = "terminated" THEN "dead" ELSE "idle") /\ lock' = "free"
    /\ UNCHANGED <<server, pipes, child, main, ipc, sender, kind, open, lis, start, stream, running, host, stopping, timing>>

\* The channel is full: the callback waits for room with the mutex.
MediaBlocks(m) ==
    /\ Up /\ Listening /\ ~EventRoom
    /\ media = "idle" /\ running /\ lock = "free" /\ MediaEvent(m)
    /\ media' = m /\ lock' = "media"
    /\ UNCHANGED <<server, pipes, child, main, ipc, sender, kind, open, ev, lis, start, stream, running, host, stopping, timing>>

\* The listener is gone: the send fails.
MediaGivesUp ==
    /\ Up /\ media \in {"ipc", "terminated"} /\ ~Listening /\ media' = "idle" /\ lock' = "free"
    /\ UNCHANGED <<server, pipes, child, main, ipc, sender, kind, open, ev, lis, start, stream, running, host, stopping, timing>>

\* connection_terminated: the reason goes to the server, then stop().
HostTerminates ==
    /\ Up /\ "host" \in may /\ running /\ host = "idle" /\ Room(up)
    /\ host' = "callstop" /\ up' = Append(up, "terminated")
    /\ UNCHANGED <<server, down, child, main, ipc, transports, start, stream, running, media, stopping, timing>>

HostCallsStop ==
    /\ Up /\ host = "callstop"
    /\ host' = "done" /\ CallStop("host", "terminated")
    /\ UNCHANGED <<server, pipes, child, main, ipc, transports, start, media, timing>>

Client == ClientCloses \/ \E m \in {"set", "start", "packet", "quit"} : ClientSends(m)
Relay == RelayForwards \/ RelayEnds \/ RelayCloses
IpcTask == IpcRecv \/ IpcEnds \/ IpcInstallFails \/ IpcDelivers
Listener(i) ==
    \/ ListenerRelays(i) \/ ListenerCallsStop(i) \/ ListenerStarts(i) \/ ListenerPacket(i)
    \/ ListenerResumes(i) \/ ListenerClosed(i)
StartTask == StartClears \/ StartConnects \/ StartStores \/ StartFails

StreamerNext ==
    \/ Client \/ WsLoopEnds \/ Relay \/ Crash
    \/ StopCloses \/ StopFinishes \/ MainSendsSetup \/ MainExits \/ TimeoutTick \/ TimerFires
    \/ IpcTask \/ IpcBlocks \/ IpcClosesOld \/ \E k \in Kinds : IpcInstalls(k)
    \/ \E i \in Ids : Listener(i) \/ PeerCloses(i) \/ \E m \in {"packet", "quit"} : DataChannelPacket(i, m)
    \/ StartTask \/ StartReadsEpoch \/ StartCompletes
    \/ \E m \in {"ipc", "terminated"} : MediaSends(m) \/ MediaBlocks(m)
    \/ MediaGivesUp \/ HostTerminates \/ HostCallsStop

\* Every task that can run is scheduled, and the server reads its pipe.
StreamerFairness ==
    /\ WF_streamerVars(ws = "closed" /\ WsLoopEnds) /\ WF_streamerVars(Relay)
    /\ WF_streamerVars(StopCloses) /\ WF_streamerVars(StopFinishes)
    /\ WF_streamerVars(IpcRecv \/ IpcEnds \/ IpcInstallFails) /\ WF_streamerVars(IpcDelivers) /\ WF_streamerVars(IpcBlocks)
    /\ WF_streamerVars(IpcClosesOld) /\ WF_streamerVars(\E k \in Kinds : IpcInstalls(k))
    /\ \A i \in Ids : WF_streamerVars(Listener(i))
    /\ WF_streamerVars(MediaGivesUp \/ \E m \in {"ipc", "terminated"} : media = m /\ MediaSends(m))
    /\ WF_streamerVars(HostCallsStop) /\ WF_streamerVars(MainSendsSetup)

StreamerSpec == StreamerInit /\ [][StreamerNext]_streamerVars /\ StreamerFairness

\* The runtime's mutex and channels also serve their waiters in order.
FifoSpec ==
    /\ StreamerSpec /\ SF_streamerVars(StopCloses) /\ SF_streamerVars(StopFinishes)
    /\ SF_streamerVars(IpcDelivers \/ IpcBlocks) /\ SF_streamerVars(IpcClosesOld)

\* ------------------------------------------------------------- properties

StreamerTypeOK ==
    /\ ws \in {"open", "closed"} /\ child \in {"up", "crashed", "exited", "killed"}
    /\ sender \in 0 .. MaxTransports /\ lock \in {"free", "ipc", "stop", "start", "media"}
    /\ Len(down) <= PipeCap + 2 /\ Len(up) <= PipeCap
    /\ \A i \in Ids : Len(ev[i]) <= EventCap
    /\ request \in {None} \union 0 .. Due /\ Len(timers) <= MaxTransports + 1

\* A session that ends because the stream was terminated tells the client why
\* before its socket is closed, whichever of the callers of stop() came first.
ReasonBeforeClose ==
    (relay.pc = "done" /\ relay.graceful /\ cause = "terminated") => relay.code

\* A terminate timer ends a session only when it has been without an open
\* transport for the whole timeout: one left over from an earlier transport
\* cuts no later one short.  One case is excepted, for the code does cut it
\* short: the close of the earlier transport was reported only after
\* SetTransport had cleared the request (clear_terminate_request comes before
\* close_current_transport), so the request stands against the new transport.
StopEarned ==
    [][(cause # "timeout" /\ cause' = "timeout") => late \/ (~Connected /\ deaf > Timeout)]_streamerVars

\* A client that goes away takes its streamer with it: once the socket is
\* closed the child process ends or is killed.
Reaped == (ws = "closed") ~> ~Up

\* The transports are where the code thinks they are, and the client learns
\* the reason before its socket closes (StreamConnection::set_transport).
StreamerOrdered == StreamerTypeOK /\ ReasonBeforeClose

=============================================================================
