--------------------------- MODULE ClientSession ---------------------------
(***************************************************************************)
(* The client session: the signaling flow, the session thread's select     *)
(* loop with its 50 ms tick (control sends with their retry ladder, then   *)
(* the three-stage watchdog), the terminal cleanup, and the shell that     *)
(* polls the session, relays stall latches and rebuilds a session whose    *)
(* watchdog gave up.  Time is counted in ticks and kept as ages.           *)
(***************************************************************************)
EXTENDS Integers, Sequences, FiniteSets

CONSTANTS
    StallIndicator, IdrFirst, IdrRetry, IdrMax, IceRestart, ReconnectAfter,
                    \* WatchdogConfig of the receive stage, in ticks
    StageStall, StageRetry, StageMax,
                    \* its decode and present stages
    Backoff1, Backoff2, Backoff3,
                    \* CONTROL_BACKOFF_MS in ticks
    MaxGap,         \* ticks that one late tick may stand for (interval Skip)
    EventCap,       \* capacity of the LocalEvent queue
    MaxCands,       \* bound on buffered remote candidates
    Troubles,       \* the sets of parts of the environment that may misbehave
                    \* in one session: "signaling", "control", "media"
    MaxSessions     \* bound on sessions the shell starts

DogStages == {"decode", "present"}
All == DogStages \union {"receive"}
Backoff == <<Backoff1, Backoff2, Backoff3>>

ASSUME LadderAssumption ==
    /\ {StallIndicator, IdrFirst, IceRestart, ReconnectAfter, StageMax, MaxCands} \subseteq Nat
    /\ {IdrRetry, IdrMax, StageStall, StageRetry, MaxGap, EventCap, MaxSessions} \subseteq Nat \ {0}
    /\ {Backoff1, Backoff2, Backoff3} \subseteq Nat
    /\ StallIndicator <= IdrFirst /\ IceRestart <= ReconnectAfter
    /\ Backoff1 <= Backoff2 /\ Backoff2 <= Backoff3
    /\ Troubles \subseteq SUBSET {"signaling", "control", "media"}

VARIABLES
    trouble,    \* the parts of the environment that misbehave in this session
    shell,      \* the UI's Running: "idle", "live" or "joining"
    sessions,   \* sessions started so far
    loop,       \* run_session: "login", "select", "watch", "ended", "closed", "gone"
    exit,       \* what ended it: "none" or a cause
    sessionState, \* the published SessionState
    rxLease,    \* the receiver's lease is held
    stop,       \* a stop message is queued
    flow,       \* SignalingFlow.phase
    peer,       \* [up, remote, pending]: peer connection and buffered candidates
    events,     \* LocalEvent queue
    overflowed, \* the queue overflowed
    ctl,        \* control path: [held, sub, ack]
    retry,      \* ControlRetry: [open, step, since]
    idr,        \* NeedsIdrLatch: [open, sent, since, resends]
    dog,        \* WatchdogSupervisor
    status,     \* WatchdogStatus: [stalled, reconnect, latch]
    fails,      \* history: failed control sends of the open episode
    owed,       \* history: a bare NeedsIdr signal was drained and not sent yet
    silent      \* history: visible ticks since a stage last moved

shellVars == <<trouble, shell, sessions>>
threadVars == <<loop, exit, sessionState, rxLease, stop>>
flowVars == <<flow, peer, events, overflowed>>
ctlVars == <<ctl, retry, idr, fails, owed>>
dogVars == <<dog, status, silent>>
sessionVars == <<shellVars, threadVars, flowVars, ctlVars, dogVars>>

Connecting == 0
PeerConnected == 1
Streaming == 2
Failed == 3
Stopped == 4

\* set_state: an upgrade only, but a terminal state always wins.
SetState(s) == IF s \in {Failed, Stopped} \/ s > sessionState THEN s ELSE sessionState

\* ------------------------------------------------------------- start

IdleDog == [running |-> FALSE, paused |-> FALSE, age |-> [s \in All |-> 0],
            shown |-> FALSE, idrs |-> 0, ice |-> FALSE,
            armed |-> [s \in DogStages |-> FALSE], tries |-> [s \in DogStages |-> 0]]
NoRetry == [open |-> FALSE, step |-> 0, since |-> 0]
NoIdr == [open |-> FALSE, sent |-> FALSE, since |-> 0, resends |-> 0]
NoLatch == [s \in DogStages |-> FALSE]

NoPeer == [up |-> FALSE, remote |-> FALSE, pending |-> 0]
NoControl == [held |-> FALSE, sub |-> FALSE, ack |-> FALSE]
Calm == [stalled |-> FALSE, reconnect |-> FALSE, latch |-> NoLatch]

SessionInit ==
    /\ trouble \in Troubles /\ shell = "live" /\ sessions = 1
    /\ loop = "login" /\ exit = "none" /\ sessionState = Connecting /\ rxLease = TRUE /\ stop = FALSE
    /\ flow = "AwaitSetup" /\ peer = NoPeer /\ events = <<>> /\ overflowed = FALSE
    /\ ctl = NoControl /\ retry = NoRetry /\ idr = NoIdr /\ fails = 0 /\ owed = FALSE
    /\ dog = IdleDog /\ status = Calm /\ silent = [s \in All |-> 0]

\* Running::start: every value of a session starts over.
TryStart ==
    /\ sessions < MaxSessions /\ sessions' = sessions + 1
    /\ trouble' \in Troubles /\ shell' = "live"
    /\ loop' = "login" /\ exit' = "none" /\ sessionState' = Connecting /\ rxLease' = TRUE /\ stop' = FALSE
    /\ flow' = "AwaitSetup" /\ peer' = NoPeer /\ events' = <<>> /\ overflowed' = FALSE
    /\ ctl' = NoControl /\ retry' = NoRetry /\ idr' = NoIdr /\ fails' = 0 /\ owed' = FALSE
    /\ dog' = IdleDog /\ status' = Calm /\ silent' = [s \in All |-> 0]

\* Leave the loop: `how` is the terminal state SessionCleanup will publish.
Ends(cause) == loop' = "ended" /\ exit' = cause

\* Login and the signaling handshake: no stop message is read before they return.
Login ==
    /\ loop = "login"
    /\ \/ loop' = "select" /\ UNCHANGED exit
       \/ Ends("login")
    /\ UNCHANGED <<shellVars, sessionState, rxLease, stop, flowVars, ctlVars, dogVars>>

\* SessionCleanup::drop, first half: close the queues and give the lease back.
CleanupCloses ==
    /\ loop = "ended"
    /\ loop' = "closed" /\ rxLease' = FALSE
    /\ UNCHANGED <<shellVars, exit, sessionState, stop, flowVars, ctlVars, dogVars>>

\* Second half: publish the terminal state; the thread ends.
Publish ==
    /\ loop = "closed"
    /\ loop' = "gone"
    /\ sessionState' = SetState(IF exit \in {"stop", "terminated"} THEN Stopped ELSE Failed)
    /\ UNCHANGED <<shellVars, exit, rxLease, stop, flowVars, ctlVars, dogVars>>

\* ------------------------------------------------------- signaling flow

NONE == 0 - 1

\* negotiated_fec_parameters: the tuples that select a wire version.
NegotiatedFec(version, epoch) ==
    \/ version \in {NONE, 1} /\ epoch = NONE
    \/ version = 2 /\ epoch # NONE /\ epoch # 0

\* Setup creates the peer; a duplicate is ignored.
OnSetup ==
    /\ loop = "select" /\ flow = "AwaitSetup"
    /\ flow' = "Negotiating" /\ peer' = [peer EXCEPT !.up = TRUE]
    /\ UNCHANGED <<shellVars, threadVars, events, overflowed, ctlVars, dogVars>>

\* An offer without a peer is an error; otherwise the buffered candidates follow it.
OnOffer ==
    /\ loop = "select"
    /\ IF peer.up
       THEN /\ peer' = [peer EXCEPT !.remote = TRUE, !.pending = 0]
            /\ UNCHANGED <<loop, exit>>
       ELSE Ends("offer") /\ UNCHANGED peer
    /\ UNCHANGED <<shellVars, sessionState, rxLease, stop, flow, events, overflowed, ctlVars, dogVars>>

\* A candidate is buffered until the peer has its remote description; from
\* then on it goes straight to the peer.
OnRemoteCandidate ==
    /\ loop = "select" /\ ~(peer.up /\ peer.remote) /\ peer.pending < MaxCands
    /\ peer' = [peer EXCEPT !.pending = @ + 1]
    /\ UNCHANGED <<shellVars, threadVars, flow, events, overflowed, ctlVars, dogVars>>

\* Arm the watchdog: the receive stage at once, the others on first progress.
StartDog ==
    dog' = [IdleDog EXCEPT !.running = TRUE, !.paused = dog.paused]

OnConnectionComplete(version, epoch) ==
    /\ loop = "select"
    /\ IF flow = "Negotiating" /\ NegotiatedFec(version, epoch)
       THEN /\ flow' = "Streaming" /\ sessionState' = SetState(Streaming)
            /\ StartDog /\ silent' = [s \in All |-> 0]
            /\ UNCHANGED <<loop, exit>>
       ELSE /\ flow' = "Terminated" /\ Ends("protocol")
            /\ UNCHANGED <<sessionState, dog, silent>>
    /\ UNCHANGED <<shellVars, rxLease, stop, peer, events, overflowed, ctlVars, status>>

OnConnectionTerminated ==
    /\ loop = "select"
    /\ flow' = "Terminated" /\ peer' = [peer EXCEPT !.up = FALSE] /\ Ends("terminated")
    /\ UNCHANGED <<shellVars, sessionState, rxLease, stop, events, overflowed, ctlVars, dogVars>>

\* The signaling socket closes or a send on it fails: the session fails.
WsLost ==
    /\ loop = "select" /\ Ends("ws")
    /\ UNCHANGED <<shellVars, sessionState, rxLease, stop, flowVars, ctlVars, dogVars>>

StopReceived ==
    /\ loop = "select" /\ stop
    /\ Ends("stop") /\ peer' = [peer EXCEPT !.up = FALSE]
    /\ UNCHANGED <<shellVars, sessionState, rxLease, stop, flow, events, overflowed, ctlVars, dogVars>>

\* ------------------------------------------------- the peer's callbacks

\* queue_local_event: a full queue sets the overflow flag and drops the event.
QueueLocalEvent(ev) ==
    /\ peer.up /\ ("signaling" \in trouble \/ (ev = "connected" /\ events = <<>> /\ sessionState = Connecting))
    /\ IF Len(events) < EventCap
       THEN events' = Append(events, ev) /\ UNCHANGED overflowed
       ELSE overflowed' = TRUE /\ UNCHANGED events
    /\ UNCHANGED <<shellVars, threadVars, flow, peer, ctlVars, dogVars>>

\* The loop takes one local event: a candidate to relay, an input channel
\* that opened, or a change of the peer's state.
OnLocalEvent ==
    /\ loop = "select" /\ events # <<>>
    /\ events' = Tail(events)
    /\ \/ Head(events) = "other" /\ UNCHANGED <<loop, exit, sessionState>>
       \/ Head(events) = "connected" /\ sessionState' = SetState(PeerConnected) /\ UNCHANGED <<loop, exit>>
       \/ Head(events) = "failed" /\ Ends("peer") /\ UNCHANGED sessionState
    /\ UNCHANGED <<shellVars, rxLease, stop, flow, peer, overflowed, ctlVars, dogVars>>

\* ------------------------------------------------- the tick: control sends

\* ControlRetry::poll.
Polled(r) ==
    CASE ~r.open -> "send"
      [] r.open /\ r.step <= 2 /\ r.since < Backoff[r.step + 1] -> "wait"
      [] r.open /\ r.step = 3 -> "ice"
      [] r.open /\ r.step > 4 -> "fail"
      [] OTHER -> "retry"

\* NeedsIdrLatch::open, close and due.
OpenIdr(l) == IF l.open THEN l ELSE [NoIdr EXCEPT !.open = TRUE]
CloseIdr(l) == IF ~l.open \/ l.sent THEN NoIdr ELSE l
IdrDue(l) == l.open /\ (l.sent => l.since >= Backoff[l.resends + 1])
IdrSent(l) == [l EXCEPT !.sent = TRUE, !.since = 0,
                        !.resends = IF l.sent /\ @ < 2 THEN @ + 1 ELSE @]

\* The latch after a tick that reads an open recovery or a raised flag.
LatchIdr(l, recovery, flag) ==
    LET read == IF recovery THEN OpenIdr(l) ELSE CloseIdr(l)
    IN  IF flag THEN OpenIdr(read) ELSE read

Least(a, b) == IF a < b THEN a ELSE b
LongestBackoff == Backoff[3]
AgedRetry(g) == [retry EXCEPT !.since = Least(@ + g, LongestBackoff)]
AgedIdr(g) == [idr EXCEPT !.since = IF idr.sent THEN Least(@ + g, LongestBackoff) ELSE 0]

\* A poll that grants a send, and the step it moves the ladder to.
Granted(r) == Polled(r) \in {"send", "retry"}
Stepped(r) == IF Polled(r) \in {"retry", "ice"} THEN [r EXCEPT !.step = r.step + 1] ELSE r

\* The end of a control send round in which `out` of the sends in `due` went
\* out.  A failure after a success opens a fresh episode; a granted retry with
\* nothing to send closes it.
AfterSends(r, due, out) ==
    IF out # due THEN [open |-> TRUE, step |-> IF out # {} THEN 0 ELSE r.step, since |-> 0]
                 ELSE NoRetry
RetryAfter(r, due, out) ==
    IF Granted(r) /\ (out # due \/ r.open) THEN AfterSends(Stepped(r), due, out) ELSE Stepped(r)

\* History: the failed sends of the open episode.
FailsAfter(n, r, due, out) ==
    CASE ~Granted(r) -> n
      [] Granted(r) /\ out = due -> 0
      [] OTHER -> IF out # {} \/ ~r.open THEN 1 ELSE n + 1

\* The first n of the sends in `due`, in the order in which the tick makes them.
Turn(m) == CASE m = "sub" -> 1 [] m = "ack" -> 2 [] OTHER -> 3
FirstSends(due, n) == {m \in due : Cardinality({k \in due : Turn(k) < Turn(m)}) < n}

AgedDog(g) == IF ~dog.running THEN dog
              ELSE [dog EXCEPT !.age = [s \in All |-> Least(@[s] + g, ReconnectAfter)]]
VisibleSilence(g) == IF dog.paused THEN silent
                     ELSE [s \in All |-> Least(silent[s] + g, ReconnectAfter)]

\* An overflowed event queue ends the session at the next tick.
TickOverflow ==
    /\ loop = "select" /\ overflowed
    /\ overflowed' = FALSE /\ Ends("overflow")
    /\ UNCHANGED <<shellVars, sessionState, rxLease, stop, flow, peer, events, ctlVars, dogVars>>

\* What one tick finds on the control path.  All of it is polled and nothing
\* else reads it, so it is chosen where it is read: whether the ack channel
\* is open, what RxCore reports, and how many of the sends succeed.
Found ==
    IF "control" \in trouble
    THEN [open : BOOLEAN, recovery : BOOLEAN, flag : BOOLEAN, ack : BOOLEAN, sends : 0 .. 3]
    ELSE [open : {TRUE}, recovery : {FALSE}, flag : {FALSE}, ack : {FALSE}, sends : {3}]

\* First part of the tick: retry ladder, then Subscribe, ACK and NeedsIdr in
\* that order, each only while no earlier one of them failed.
ControlRound(g, f) ==
    LET r == AgedRetry(g)
        held == ctl.held \/ (f.open /\ peer.up)
        latch == IF held THEN LatchIdr(AgedIdr(g), f.recovery, f.flag) ELSE idr
        acked == ctl.ack \/ (held /\ f.ack)
        wanted == (IF ctl.sub THEN {} ELSE {"sub"}) \union (IF acked THEN {"ack"} ELSE {})
                  \union (IF IdrDue(latch) THEN {"idr"} ELSE {})
        due == IF Granted(r) /\ held /\ flow = "Streaming" THEN wanted ELSE {}
        out == FirstSends(due, f.sends)
    IN  /\ IF Polled(r) = "fail" THEN Ends("control") ELSE loop' = "watch" /\ UNCHANGED exit
        /\ retry' = RetryAfter(r, due, out)
        /\ fails' = FailsAfter(fails, r, due, out)
        /\ ctl' = [held |-> held, sub |-> ctl.sub \/ "sub" \in out, ack |-> acked /\ "ack" \notin out]
        /\ idr' = IF "idr" \in out THEN IdrSent(latch) ELSE latch
        /\ owed' = ((owed \/ (held /\ f.flag /\ ~f.recovery)) /\ "idr" \notin out)
        /\ dog' = AgedDog(g) /\ silent' = VisibleSilence(g)

TickControl ==
    /\ loop = "select" /\ ~overflowed
    /\ \E g \in 1 .. MaxGap, f \in Found : ControlRound(g, f)
    /\ UNCHANGED <<shellVars, sessionState, rxLease, stop, flowVars, status>>

\* ---------------------------------------------------- the tick: watchdog

\* StallWatchdog::next_rung and the receive stage's share of tick.
NextRung(d) ==
    LET age == d.age["receive"]
    IN  CASE ~d.shown -> IF age >= StallIndicator THEN "stall" ELSE "none"
          [] d.shown /\ d.idrs < IdrMax /\ age >= IdrFirst + d.idrs * IdrRetry -> "idr"
          [] OTHER -> IF ~d.ice /\ age >= IceRestart THEN "ice"
                      ELSE IF age >= ReconnectAfter THEN "reconnect" ELSE "none"

\* StageClock::tick.
StageRung(d, s) ==
    IF d.armed[s] /\ d.age[s] >= StageStall + d.tries[s] * StageRetry
    THEN IF d.tries[s] < StageMax THEN "attempt" ELSE "reconnect"
    ELSE "none"

\* Mutant: showing the window does not restart the clocks.
RebasedNot(d, hidden) == [d EXCEPT !.paused = hidden]

\* The pause edge: showing the window again restarts every clock.
Rebased(d, hidden) ==
    IF hidden = d.paused THEN d
    ELSE [d EXCEPT !.paused = hidden, !.age = IF hidden THEN d.age ELSE [s \in All |-> 0]]

\* Progress: a delivered frame ends the receive episode, a decoded or
\* presented picture arms its stage and resets its attempts.
Fed(clocks, fed) == [s \in DOMAIN clocks |-> IF s \in fed THEN 0 ELSE clocks[s]]
Progressed(d, fed) ==
    IF ~d.running THEN d
    ELSE [d EXCEPT !.age = Fed(d.age, fed), !.tries = Fed(d.tries, fed),
                   !.armed = [s \in DogStages |-> d.armed[s] \/ s \in fed],
                   !.shown = d.shown /\ "receive" \notin fed,
                   !.idrs = IF "receive" \in fed THEN 0 ELSE d.idrs,
                   !.ice = d.ice /\ "receive" \notin fed]

\* One action of WatchdogSupervisor::tick at most: receive, decode, present.
DogAction(d) ==
    CASE ~d.running \/ d.paused -> <<"receive", "none">>
      [] d.running /\ ~d.paused /\ NextRung(d) # "none" -> <<"receive", NextRung(d)>>
      [] OTHER -> IF StageRung(d, "decode") # "none" THEN <<"decode", StageRung(d, "decode")>>
                  ELSE <<"present", StageRung(d, "present")>>

\* What a rung leaves in the watchdog and in the status the shell polls.
OneMore(tries, s) == [tries EXCEPT ![s] = @ + 1]
Raised(latch, s) == [latch EXCEPT ![s] = TRUE]
Acted(d, s, a) ==
    CASE a = "stall" -> [d EXCEPT !.shown = TRUE]
      [] a = "idr" -> [d EXCEPT !.idrs = d.idrs + 1]
      [] a = "ice" -> [d EXCEPT !.ice = TRUE]
      [] a = "attempt" -> [d EXCEPT !.tries = OneMore(d.tries, s)]
      [] OTHER -> d
Reported(c, s, a) ==
    CASE a = "stall" -> [c EXCEPT !.stalled = TRUE]
      [] a = "attempt" -> [c EXCEPT !.latch = Raised(c.latch, s)]
      [] a = "reconnect" -> [c EXCEPT !.reconnect = TRUE]
      [] OTHER -> c

\* A frame after the indicator was shown takes it down.
Calmed(fed) == IF dog.running /\ dog.shown /\ "receive" \in fed
               THEN [status EXCEPT !.stalled = FALSE] ELSE status

\* Second part of the tick: pause edge, progress of the stages in `fed` since
\* the last tick, one rung.
TickWatchdog ==
    /\ loop = "watch"
    /\ \E hidden \in IF "media" \in trouble THEN BOOLEAN ELSE {FALSE},
          fed \in IF "media" \in trouble THEN SUBSET All ELSE {All} :
        LET d == Progressed(Rebased(dog, hidden), fed)
            s == DogAction(d)[1]
            a == DogAction(d)[2]
        IN  /\ silent' = Fed(silent, fed)
            /\ dog' = Acted(d, s, a)
            /\ status' = Reported(Calmed(fed), s, a)
            /\ IF a = "reconnect" THEN Ends(s) ELSE loop' = "select" /\ UNCHANGED exit
    /\ UNCHANGED <<shellVars, sessionState, rxLease, stop, flowVars, ctlVars>>

\* ------------------------------------------------------------ the shell

\* The shell's frame polls and clears a stall latch (poll_decode_stall,
\* poll_present_stall) and relays it to the thread that owns the resource.
PollStall(s) ==
    /\ shell = "live" /\ status.latch[s]
    /\ status' = [status EXCEPT !.latch[s] = FALSE]
    /\ UNCHANGED <<shellVars, threadVars, flowVars, ctlVars, dog, silent>>

\* Running::stop: close the core, queue the stop message and join the thread.
ShellStop ==
    /\ shell = "live"
    /\ shell' = "joining" /\ stop' = TRUE
    /\ UNCHANGED <<trouble, sessions, loop, exit, sessionState, rxLease, flowVars, ctlVars, dogVars>>

ShellJoins ==
    /\ shell = "joining" /\ loop = "gone"
    /\ shell' = "idle"
    /\ UNCHANGED <<trouble, sessions, threadVars, flowVars, ctlVars, dogVars>>

\* The user connects again.
Connect == shell = "idle" /\ TryStart

\* The watchdog gave up and the state is Failed: stop, join and start over in
\* one frame of the shell.
Rebuild ==
    /\ shell = "live" /\ sessionState = Failed /\ status.reconnect /\ loop = "gone"
    /\ TryStart

\* Without trouble the server sets up, offers and completes in this order.
ServerMessage ==
    \/ OnSetup
    \/ ((peer.up /\ ~peer.remote) \/ "signaling" \in trouble) /\ OnOffer
    \/ peer.remote /\ flow = "Negotiating" /\ OnConnectionComplete(2, 1)
    \/ /\ "signaling" \in trouble
       /\ \/ OnRemoteCandidate \/ OnConnectionTerminated \/ WsLost
          \/ \E version \in {NONE, 1, 2}, epoch \in {NONE, 0, 1} : OnConnectionComplete(version, epoch)
PeerCallback == \E ev \in {"connected", "failed", "other"} : QueueLocalEvent(ev)
Session ==
    \/ Login \/ StopReceived \/ OnLocalEvent
    \/ TickOverflow \/ TickControl \/ TickWatchdog \/ CleanupCloses \/ Publish
Shell == ShellStop \/ ShellJoins \/ Connect \/ Rebuild \/ (\E s \in DogStages : PollStall(s))
SessionNext == ServerMessage \/ PeerCallback \/ Session \/ Shell

SessionSpec == SessionInit /\ [][SessionNext]_sessionVars

\* ------------------------------------------------------------ properties

\* Every ladder stays on its rungs: the retry ladder, the resend cadence and
\* the attempts of the two stages never pass their last one.
SessionTypeOK ==
    /\ shell \in {"idle", "live", "joining"} /\ sessions \in 1 .. MaxSessions
    /\ loop \in {"login", "select", "watch", "ended", "closed", "gone"}
    /\ sessionState \in Connecting .. Stopped
    /\ rxLease \in BOOLEAN /\ stop \in BOOLEAN /\ overflowed \in BOOLEAN /\ owed \in BOOLEAN
    /\ flow \in {"AwaitSetup", "Negotiating", "Streaming", "Terminated"}
    /\ Len(events) <= EventCap
    /\ retry.step \in 0 .. 5 /\ idr.resends \in 0 .. 2
    /\ \A s \in DogStages : dog.tries[s] \in 0 .. StageMax
    /\ dog.idrs \in 0 .. IdrMax

\* The control channel ends the session only when five sends of one episode
\* have failed: the first, three on the backoff and the one after the ICE
\* restart.  A rung that had nothing to send never counts.
FailureEarned == exit = "control" => fails = 5

\* A stage reconnects only after it made no progress for its whole ladder
\* while the window was visible: time spent minimized never counts, and a
\* stage that moves in the very tick that would escalate it is spared.
ReconnectEarned ==
    /\ exit = "receive" => silent["receive"] >= ReconnectAfter
    /\ \A s \in DogStages : exit = s => silent[s] >= StageStall + StageMax * StageRetry

\* A drained NeedsIdr signal stays latched until it is sent, whatever the
\* retry ladder and the recovery do in between.
DrainedSignalKept == owed => idr.open

\* No candidate is left behind in the buffer once the peer has a remote
\* description, in whatever order Setup, offer and candidates arrive.
CandidatesFollowOffer == peer.remote => peer.pending = 0

\* The shell that sees a terminal state can start over: the receiver is
\* closed and its lease is free by then.
TerminalMeansReleased == sessionState \in {Failed, Stopped} => ~rxLease

\* The indicator the shell shows is the watchdog's: a session that delivers
\* again never keeps it up.
IndicatorTruthful == loop = "select" => (status.stalled <=> dog.shown)

\* A session ends, reconnects and reports for a reason: ladders end a session
\* only when all their rungs were used, drained signals and early candidates
\* are not lost, and a terminal state leaves nothing held (run_session,
\* ControlRetry, StallWatchdog, SessionCleanup).
SessionEarned ==
    /\ SessionTypeOK /\ FailureEarned /\ ReconnectEarned /\ DrainedSignalKept
    /\ CandidatesFollowOffer /\ TerminalMeansReleased /\ IndicatorTruthful

=============================================================================
