---------------------------- MODULE InputCapture ----------------------------
(***************************************************************************)
(* Who may forward a key to the host.  The UI thread (window procedure,    *)
(* immersive machine, install and uninstall of the keyboard capture), the  *)
(* low-level hook, the worker that pumps the LocalSystem broker's pipe,    *)
(* the broker's serve loop and the driver's armed flag.                    *)
(*                                                                         *)
(* "mod" stands for Ctrl and Alt held together, so that "q" under it is    *)
(* the escape and "grave" the disconnect hotkey; alone, each is any key.   *)
(* How the three producers route single keys is the subject of KeyRouting, *)
(* what the driver does with each edge that of KeyboardFilter.             *)
(***************************************************************************)
EXTENDS Integers, Sequences

CONSTANTS
    MaxEdges,   \* bound on key edges
    MaxFaults,  \* bound on failing calls
    MaxClicks   \* bound on clicks of the immersive button

ASSUME InputAssumption ==
    {MaxEdges, MaxFaults, MaxClicks} \subseteq Nat

Keys == {"mod", "q", "grave"}

VARIABLES
    immersive,  \* Immersive.state
    captured,   \* StreamSurface.capture
    kbCapture, exit, disconnect,   \* CaptureShared
    running,    \* a session is running
    leaving,    \* this frame ends with the teardown of the session
    phase, acked, slot,            \* BROKER_PHASE, BROKER_DISARM_ACKNOWLEDGED, BROKER_STATE
    hook,       \* HOOK_STATE
    ui,         \* the UI thread: [at, had, prev, after]
    worker,     \* kbd-broker-pump: [at, owner, stop, err]
    ready,      \* the readiness channel
    up, down, live,                \* the pipe
    broker,     \* "idle", "serving" or "armed"
    driver,     \* [armed, dropped, ring]
    router,     \* BrokerRouter: [mod, pending, sent]
    host,       \* key -> who pressed it on the host
    phys,       \* keys physically down
    inbox,      \* keyboard messages posted to the UI thread
    edges, faults, clicks,
    forwarded, twice   \* history: edges sent to the host; one was sent twice

flags == <<immersive, captured, kbCapture, exit, disconnect, running, leaving>>
owner == <<phase, acked, slot, hook>>
pipe == <<up, down, live>>
sent == <<forwarded, twice>>
counts == <<edges, faults, clicks>>
inputVars == <<flags, owner, ui, worker, ready, pipe, broker, driver, router, host, phys,
               inbox, counts, sent>>

IdleUi == [at |-> "idle", had |-> FALSE, prev |-> "inactive", after |-> "none"]
NoWorker == [at |-> "none", owner |-> FALSE, stop |-> FALSE, err |-> "none"]
NoRouter == [mod |-> FALSE, pending |-> FALSE, sent |-> {}]
Released == [k \in Keys |-> "none"]

InputInit ==
    /\ immersive = "off" /\ captured = FALSE /\ kbCapture = FALSE
    /\ exit = FALSE /\ disconnect = FALSE /\ running = TRUE /\ leaving = FALSE
    /\ phase = "inactive" /\ acked = FALSE /\ slot = FALSE /\ hook = FALSE
    /\ ui = IdleUi /\ worker = NoWorker /\ ready = "none"
    /\ up = <<>> /\ down = <<>> /\ live = FALSE /\ broker = "idle"
    /\ driver = [armed |-> FALSE, dropped |-> FALSE, ring |-> <<>>]
    /\ router = NoRouter /\ host = Released /\ phys = {} /\ inbox = <<>>
    /\ edges = 0 /\ faults = 0 /\ clicks = 0 /\ forwarded = {} /\ twice = FALSE

\* A call succeeds, or fails while the bound on faults allows it.
Outcome(ok) == ok \/ faults < MaxFaults
Charged(ok) == faults' = IF ok THEN faults ELSE faults + 1

UiIdle == ui.at = "idle"

\* ------------------------------------------- what the host is sent

\* One edge on the wire, pressed or released by one of the producers.
Edged(h, e, who) == [h EXCEPT ![e.key] = IF e.up THEN "none" ELSE who]

\* release_sticky_keys: one batch for the modifiers and Q.
Unstuck(h, ok) == IF ok THEN [k \in Keys |-> IF k \in {"mod", "q"} THEN "none" ELSE h[k]] ELSE h

\* The edge with this identity has been forwarded.
Sends(id) == forwarded' = forwarded \cup {id} /\ twice' = (twice \/ id \in forwarded)

\* ------------------------------------------- install and uninstall

\* install_broker_capture up to the spawn of the worker, in a frame whose
\* immersive state becomes "on".
Install ==
    IF captured
    THEN disconnect' = FALSE /\ UNCHANGED <<owner, ui, worker, ready, router>>
    ELSE IF phase = "stopping" /\ ~acked
    THEN disconnect' = TRUE /\ UNCHANGED <<owner, ui, worker, ready, router>>
    ELSE IF slot
    THEN disconnect' = FALSE /\ UNCHANGED <<owner, ui, worker, ready, router>>
    ELSE /\ phase' = "starting" /\ acked' = FALSE
         /\ ui' = [IdleUi EXCEPT !.at = "starting"]
         /\ worker' = [NoWorker EXCEPT !.at = "opening"]
         /\ ready' = "none" /\ router' = NoRouter
         /\ disconnect' = FALSE /\ UNCHANGED <<slot, hook>>

UiReady ==
    /\ ui.at = "starting" /\ ready = "yes"
    /\ slot' = TRUE /\ phase' = "active" /\ ui' = IdleUi /\ ready' = "none"
    /\ UNCHANGED <<flags, acked, hook, worker, pipe, broker, driver, router, host, phys, inbox, counts, sent>>

\* The worker refused, is gone, or a second has passed.
UiGivesUp ==
    /\ ui.at = "starting" /\ phase' = "stopping"
    /\ worker' = [worker EXCEPT !.stop = TRUE] /\ ui' = [ui EXCEPT !.at = "failing"]
    /\ UNCHANGED <<flags, acked, slot, hook, ready, pipe, broker, driver, router, host, phys, inbox, counts, sent>>

\* The low-level hook may take over when the driver cannot own the keyboard.
MayFallBack == ~worker.owner \/ acked

\* The worker has been joined: fall back to install_ll_keyboard_hook, or stay
\* gated until the process restarts.
UiFellBack(hooked) ==
    /\ ui.at = "failing" /\ worker.at = "done" /\ Outcome(hooked)
    /\ ui' = IdleUi /\ worker' = NoWorker /\ ready' = "none"
    /\ IF MayFallBack
       THEN /\ phase' = "inactive" /\ hook' = (hook \/ hooked) /\ Charged(hooked)
            /\ inbox' = IF acked THEN <<>> ELSE inbox
       ELSE hooked /\ UNCHANGED <<phase, hook, faults, inbox>>
    /\ UNCHANGED <<flags, acked, slot, pipe, broker, driver, router, host, phys, edges, clicks, sent>>

\* uninstall_broker_capture up to the join; "after" is what the caller does next.
Uninstall(after) ==
    /\ phase' = "stopping" /\ slot' = FALSE
    /\ worker' = [worker EXCEPT !.stop = slot \/ @]
    /\ ui' = [at |-> "stopping", had |-> slot, prev |-> phase, after |-> after]

\* drain_broker_keyboard_messages.
Drains == IF acked THEN <<>> ELSE inbox

\* Mutant: the gate opens whether or not the driver is known to be disarmed.
PhaseAfterStopOpen == "inactive"

PhaseAfterStop == IF acked \/ (~ui.had /\ ui.prev # "stopping") THEN "inactive" ELSE "stopping"

\* The rest of uninstall_keyboard_hook, and of its caller.
UiStopped(ok) ==
    /\ ui.at = "stopping" /\ worker.at \in {"none", "done"} /\ Outcome(ok)
    /\ ok \/ hook \/ ui.after = "sticky" \/ ui.after = "sticky_exit"
    /\ phase' = PhaseAfterStop /\ inbox' = Drains /\ worker' = NoWorker /\ hook' = FALSE
    /\ host' = IF ui.after = "ended" THEN Released
               ELSE IF hook \/ ui.after \in {"sticky", "sticky_exit"} THEN Unstuck(host, ok) ELSE host
    /\ disconnect' = (disconnect \/ (hook /\ ~ok))
    /\ exit' = (exit \/ ui.after \in {"exit", "sticky_exit"})
    /\ ui' = IdleUi /\ Charged(ok)
    /\ UNCHANGED <<immersive, captured, kbCapture, running, leaving, acked, slot, ready, pipe, broker, driver, router, phys, edges, clicks, sent>>

\* ------------------------------------------- the shell's frame

\* The requests are taken and on_tick runs; an exit request is a toggle.
Frame(click) ==
    LET toggle == click \/ exit
    IN /\ UiIdle /\ running /\ ~leaving /\ (click => clicks < MaxClicks)
       /\ toggle \/ immersive = "entering" \/ disconnect
       /\ leaving' = disconnect
       /\ clicks' = IF click THEN clicks + 1 ELSE clicks
       /\ exit' = FALSE
       /\ \/ /\ ~toggle /\ immersive # "entering" /\ disconnect' = FALSE
             /\ UNCHANGED <<immersive, captured, kbCapture, owner, ui, worker, ready, router>>
          \/ /\ immersive = "off" /\ toggle /\ immersive' = "entering" /\ disconnect' = FALSE
             /\ UNCHANGED <<captured, kbCapture, owner, ui, worker, ready, router>>
          \/ /\ immersive = "entering" /\ toggle /\ immersive' = "off" /\ disconnect' = FALSE
             /\ UNCHANGED <<captured, kbCapture, owner, ui, worker, ready, router>>
          \/ /\ immersive = "entering" /\ ~toggle /\ immersive' = "on"
             /\ kbCapture' = TRUE /\ captured' = TRUE
             /\ Install
          \/ /\ immersive = "on" /\ toggle /\ immersive' = "off"
             /\ kbCapture' = FALSE /\ captured' = FALSE /\ disconnect' = FALSE
             /\ IF captured THEN Uninstall("sticky") ELSE UNCHANGED <<phase, slot, worker, ui>>
             /\ UNCHANGED <<acked, hook, ready, router>>
       /\ UNCHANGED <<running, pipe, broker, driver, host, phys, inbox, edges, faults, sent>>

\* frame_capture: another window is in front of an engaged session.
ForegroundLost ==
    /\ UiIdle /\ running /\ immersive = "on" /\ kbCapture
    /\ kbCapture' = FALSE /\ captured' = FALSE
    /\ IF captured THEN Uninstall("sticky_exit") /\ exit' = exit
       ELSE exit' = TRUE /\ UNCHANGED <<phase, slot, worker, ui>>
    /\ UNCHANGED <<immersive, disconnect, running, leaving, acked, hook, ready, pipe, broker, driver, router, host, phys, inbox, counts, sent>>

\* WM_KILLFOCUS of the stream child while captured.
KillFocus(ok) ==
    /\ UiIdle /\ running /\ ~leaving /\ kbCapture /\ Outcome(ok) /\ Charged(ok)
    /\ host' = Unstuck(host, ok) /\ disconnect' = (disconnect \/ ~ok)
    /\ kbCapture' = FALSE /\ Uninstall("exit")
    /\ UNCHANGED <<immersive, captured, exit, running, leaving, acked, hook, ready, pipe, broker, driver, router, phys, inbox, edges, clicks, sent>>

\* The session is torn down at the end of the frame that took the request.
Disconnects ==
    /\ UiIdle /\ leaving /\ leaving' = FALSE
    /\ running' = FALSE /\ immersive' = "off"
    /\ kbCapture' = (kbCapture /\ immersive # "on") /\ captured' = FALSE
    /\ IF captured \/ immersive = "on" THEN Uninstall("ended") /\ UNCHANGED host
       ELSE host' = Released /\ UNCHANGED <<phase, slot, worker, ui>>
    /\ UNCHANGED <<exit, disconnect, acked, hook, ready, pipe, broker, driver, router, phys, inbox, counts, sent>>

\* Connect: the flags of the last session are still there.
Reconnects ==
    /\ UiIdle /\ ~running /\ running' = TRUE
    /\ UNCHANGED <<immersive, captured, kbCapture, exit, disconnect, leaving, owner, ui, worker, ready, pipe, broker, driver, router, host, phys, inbox, counts, sent>>

\* ------------------------------------------- the window procedure

Escapes(e) == kbCapture /\ e.key = "q" /\ ~e.up /\ "mod" \in phys
HardDisconnects(e) == e.key = "grave" /\ ~e.up /\ "mod" \in phys

\* handle: escape, hard disconnect, the gate, the plain key.
WindowMessage(ok) ==
    LET e == Head(inbox)
    IN /\ UiIdle /\ ~leaving /\ inbox # <<>> /\ inbox' = Tail(inbox) /\ Outcome(ok) /\ Charged(ok)
       /\ \/ /\ ~running /\ ok /\ UNCHANGED <<exit, disconnect, host, sent>>
          \/ /\ running /\ Escapes(e)
             /\ exit' = TRUE /\ host' = Unstuck(host, ok) /\ disconnect' = (disconnect \/ ~ok)
             /\ UNCHANGED sent
          \/ /\ running /\ ~Escapes(e) /\ HardDisconnects(e)
             /\ host' = Unstuck(host, ok) /\ disconnect' = TRUE /\ UNCHANGED <<exit, sent>>
          \/ /\ running /\ ~Escapes(e) /\ ~HardDisconnects(e) /\ phase # "inactive"
             /\ ok /\ UNCHANGED <<exit, disconnect, host, sent>>
          \/ /\ running /\ ~Escapes(e) /\ ~HardDisconnects(e) /\ phase = "inactive"
             /\ IF ok THEN host' = Edged(host, e, "wndproc") /\ Sends(e.id) ELSE UNCHANGED <<host, sent>>
             /\ UNCHANGED <<exit, disconnect>>
       /\ UNCHANGED <<immersive, captured, kbCapture, running, leaving, owner, ui, worker, ready, pipe, broker, driver, router, phys, edges, clicks>>

\* ------------------------------------------- keyboard, driver and hook

EdgeOf(k) == [key |-> k, up |-> k \in phys, id |-> edges + 1]

Pressed(k) ==
    /\ edges < MaxEdges /\ edges' = edges + 1
    /\ phys' = IF k \in phys THEN phys \ {k} ELSE phys \cup {k}

\* An edge that Windows sees; an armed driver also puts it into its ring.
KeyToWindows(k) ==
    /\ Pressed(k)
    /\ hook => k # "mod" /\ (k \in phys \/ "mod" \notin phys)
    /\ inbox' = Append(inbox, EdgeOf(k))
    /\ driver' = IF driver.armed THEN [driver EXCEPT !.ring = Append(@, EdgeOf(k))] ELSE driver
    /\ UNCHANGED <<flags, owner, ui, worker, ready, pipe, broker, router, host, faults, clicks, sent>>

\* keyboard_hook_proc swallows and forwards the modifier, and owns the hotkeys.
KeyToHook(k, ok) ==
    /\ hook /\ Pressed(k) /\ Outcome(ok) /\ Charged(ok)
    /\ \/ /\ k = "mod"
          /\ IF ok THEN host' = Edged(host, EdgeOf(k), "hook") /\ Sends(edges + 1) ELSE UNCHANGED <<host, sent>>
          /\ disconnect' = (disconnect \/ ~ok) /\ UNCHANGED exit
       \/ /\ k # "mod" /\ k \notin phys /\ "mod" \in phys
          /\ host' = Unstuck(host, ok) /\ exit' = (exit \/ k = "q")
          /\ disconnect' = (disconnect \/ k = "grave" \/ ~ok) /\ UNCHANGED sent
    /\ UNCHANGED <<immersive, captured, kbCapture, running, leaving, owner, ui, worker, ready, pipe, broker, driver, router, inbox, clicks>>

\* ------------------------------------------- the worker

WorkerOpens ==
    /\ worker.at = "opening"
    /\ \/ /\ broker = "idle" /\ live' = TRUE /\ up' = <<>> /\ down' = <<>> /\ broker' = "serving"
          /\ worker' = [worker EXCEPT !.at = "arming"] /\ UNCHANGED <<ready, faults>>
       \/ /\ broker # "idle" \/ faults < MaxFaults
          /\ ready' = "no" /\ worker' = [worker EXCEPT !.at = "done"]
          /\ faults' = (IF broker = "idle" THEN faults + 1 ELSE faults)
          /\ UNCHANGED <<pipe, broker>>
    /\ UNCHANGED <<flags, owner, ui, driver, router, host, phys, inbox, edges, clicks, sent>>

\* From here on the driver may be armed, whatever fails.
WorkerArms ==
    /\ worker.at = "arming"
    /\ IF live THEN up' = Append(up, "arm") /\ worker' = [worker EXCEPT !.at = "pumping", !.owner = TRUE]
       ELSE worker' = [worker EXCEPT !.at = "reporting", !.owner = TRUE, !.err = "other"] /\ UNCHANGED up
    /\ UNCHANGED <<flags, owner, ui, ready, down, live, broker, driver, router, host, phys, inbox, counts, sent>>

\* BrokerRouter::route.
Routed(r, e) ==
    IF e.key = "mod" THEN
        IF e.up THEN [r EXCEPT !.mod = FALSE, !.pending = FALSE, !.sent = @ \ {"mod"}]
        ELSE [r EXCEPT !.mod = TRUE, !.pending = @ \/ "mod" \notin r.sent]
    ELSE IF e.up THEN [r EXCEPT !.sent = @ \ {e.key}]
    ELSE [r EXCEPT !.pending = FALSE,
                   !.sent = @ \cup {e.key} \cup (IF r.pending THEN {"mod"} ELSE {})]

LocalOnly(r, e) == e.key # "mod" /\ ~e.up /\ r.mod

\* What the host has down once the packets of an edge have arrived.
HostAfter(h, r, e) ==
    [k \in Keys |-> IF k \in r.sent /\ k \notin Routed(r, e).sent THEN "none"
                    ELSE IF k \in Routed(r, e).sent \ r.sent THEN "worker" ELSE h[k]]

Packets(r, e) == Routed(r, e).sent # r.sent \/ (r.pending /\ e.key = "mod" /\ e.up)

\* forward_broker_events on one event: a hotkey or a full queue ends the pump.
WorkerForwards(e, ok) ==
    IF LocalOnly(router, e)
    THEN /\ ok /\ router' = [router EXCEPT !.pending = FALSE]
         /\ worker' = [worker EXCEPT !.at = "disarming", !.err = IF e.key = "q" THEN "interrupted" ELSE "other"]
         /\ UNCHANGED <<host, sent>>
    ELSE /\ ok \/ Packets(router, e)
         /\ router' = Routed(router, e)
         /\ worker' = IF ok THEN worker ELSE [worker EXCEPT !.at = "disarming", !.err = "other"]
         /\ IF ok /\ Packets(router, e)
            THEN host' = HostAfter(host, router, e) /\ Sends(e.id) ELSE UNCHANGED <<host, sent>>

WorkerReads(ok) ==
    /\ worker.at = "pumping" /\ ~worker.stop /\ down # <<>> /\ down' = Tail(down)
    /\ Outcome(ok) /\ Charged(ok)
    /\ LET m == Head(down) IN
       \/ m.kind = "status" /\ ok /\ ready' = "yes" /\ UNCHANGED <<worker, router, host, sent>>
       \/ m.kind = "event" /\ WorkerForwards(m.edge, ok) /\ UNCHANGED ready
    /\ UNCHANGED <<flags, owner, ui, up, live, broker, driver, phys, inbox, edges, clicks>>

\* The pump ends: told to stop, or the pipe is gone.
WorkerEnds ==
    /\ worker.at = "pumping"
    /\ \/ worker.stop /\ worker' = [worker EXCEPT !.at = "disarming"]
       \/ ~worker.stop /\ ~live /\ down = <<>> /\ worker' = [worker EXCEPT !.at = "disarming", !.err = "other"]
    /\ UNCHANGED <<flags, owner, ui, ready, pipe, broker, driver, router, host, phys, inbox, counts, sent>>

WorkerDisarms ==
    /\ worker.at = "disarming"
    /\ IF live THEN up' = Append(up, "disarm") /\ worker' = [worker EXCEPT !.at = "awaiting"]
       ELSE worker' = [worker EXCEPT !.at = "releasing", !.err = "other"] /\ UNCHANGED up
    /\ UNCHANGED <<flags, owner, ui, ready, down, live, broker, driver, router, host, phys, inbox, counts, sent>>

\* Everything but the answer to DISARM is thrown away.
WorkerAwaits ==
    /\ worker.at = "awaiting" /\ down # <<>> /\ down' = Tail(down)
    /\ LET done == Head(down).kind = "disarmed" IN
       /\ acked' = (acked \/ done)
       /\ worker' = IF done THEN [worker EXCEPT !.at = "releasing"] ELSE worker
    /\ UNCHANGED <<flags, phase, slot, hook, ui, ready, up, live, broker, driver, router, host, phys, inbox, counts, sent>>

\* No answer within the second, or the broker is gone.
WorkerTimesOut ==
    /\ worker.at = "awaiting" /\ worker' = [worker EXCEPT !.at = "releasing", !.err = "other"]
    /\ UNCHANGED <<flags, owner, ui, ready, pipe, broker, driver, router, host, phys, inbox, counts, sent>>

ReleaseError(ok) == IF ok THEN worker.err ELSE "other"

WorkerReleases(ok) ==
    /\ worker.at = "releasing" /\ (ok \/ router.sent # {}) /\ Outcome(ok) /\ Charged(ok)
    /\ host' = IF ok THEN [k \in Keys |-> IF k \in router.sent THEN "none" ELSE host[k]] ELSE host
    /\ router' = NoRouter
    /\ worker' = [worker EXCEPT !.at = "reporting", !.err = ReleaseError(ok)]
    /\ UNCHANGED <<flags, owner, ui, ready, pipe, broker, driver, phys, inbox, edges, clicks, sent>>

\* run_broker_capture has returned: the pipe is closed, then the error is
\* turned into a request to the shell.
WorkerReports ==
    /\ worker.at = "reporting" /\ live' = FALSE /\ down' = <<>>
    /\ exit' = (exit \/ worker.err = "interrupted")
    /\ disconnect' = (disconnect \/ worker.err = "other")
    /\ ready' = IF ready = "none" /\ ui.at = "starting" THEN "no" ELSE ready
    /\ worker' = [worker EXCEPT !.at = "done", !.err = "none"]
    /\ UNCHANGED <<immersive, captured, kbCapture, running, leaving, owner, ui, up, broker, driver, router, host, phys, inbox, counts, sent>>

\* ------------------------------------------- the broker

Disarmed == [armed |-> FALSE, dropped |-> FALSE, ring |-> <<>>]

\* serve_client takes one control message.
BrokerControls ==
    /\ broker # "idle" /\ live /\ up # <<>> /\ up' = Tail(up)
    /\ \/ /\ Head(up) = "arm" /\ broker' = "armed" /\ driver' = [Disarmed EXCEPT !.armed = TRUE]
          /\ down' = Append(down, [kind |-> "status"])
       \/ /\ Head(up) = "disarm" /\ broker' = "serving" /\ driver' = [driver EXCEPT !.armed = FALSE]
          /\ down' = Append(down, [kind |-> "disarmed"])
    /\ UNCHANGED <<flags, owner, ui, worker, ready, live, router, host, phys, inbox, counts, sent>>

\* read_batch and observe_batch of a batch without a gap.
BrokerForwards ==
    /\ broker = "armed" /\ live /\ ~driver.dropped /\ driver.ring # <<>>
    /\ driver' = [driver EXCEPT !.ring = Tail(@)]
    /\ down' = Append(down, [kind |-> "event", edge |-> Head(driver.ring)])
    /\ UNCHANGED <<flags, owner, ui, worker, ready, up, live, broker, router, host, phys, inbox, counts, sent>>

\* serve_client returns: the client is gone, a call failed, or the batch
\* reported a gap.  The pipe is cut and the device disarmed, which may fail.
BrokerDrops(ok) ==
    LET gone == ~live \/ driver.dropped
    IN /\ broker # "idle"
       /\ faults' = faults + (IF gone THEN 0 ELSE 1) + (IF ok THEN 0 ELSE 1)
       /\ faults' <= MaxFaults
       /\ broker' = "idle" /\ live' = FALSE /\ up' = <<>> /\ down' = <<>>
       /\ driver' = IF ok THEN Disarmed ELSE driver
       /\ UNCHANGED <<flags, owner, ui, worker, ready, router, host, phys, inbox, edges, clicks, sent>>

\* The ring overflows, or nobody has refreshed the lease.
DriverFaults ==
    /\ driver.armed /\ (broker # "armed" \/ faults < MaxFaults)
    /\ driver' = [driver EXCEPT !.armed = FALSE, !.dropped = TRUE]
    /\ faults' = IF broker = "armed" THEN faults + 1 ELSE faults
    /\ UNCHANGED <<flags, owner, ui, worker, ready, pipe, broker, router, host, phys, inbox, edges, clicks, sent>>

UiThread == UiReady \/ UiGivesUp \/ \E ok \in BOOLEAN : UiFellBack(ok) \/ UiStopped(ok)
Shell == (\E click \in BOOLEAN : Frame(click)) \/ Disconnects \/ Reconnects \/ ForegroundLost
Window == \E ok \in BOOLEAN : KillFocus(ok) \/ WindowMessage(ok)
Worker ==
    \/ WorkerOpens \/ WorkerArms \/ WorkerEnds \/ WorkerDisarms \/ WorkerAwaits \/ WorkerTimesOut
    \/ WorkerReports \/ \E ok \in BOOLEAN : WorkerReads(ok) \/ WorkerReleases(ok)
Broker == BrokerControls \/ BrokerForwards \/ DriverFaults \/ \E ok \in BOOLEAN : BrokerDrops(ok)
Keyboard == \E k \in Keys : KeyToWindows(k) \/ \E ok \in BOOLEAN : KeyToHook(k, ok)

InputNext == UiThread \/ Shell \/ Window \/ Worker \/ Broker \/ Keyboard

InputSpec == InputInit /\ [][InputNext]_inputVars

\* ------------------------------------------------------------ properties

InputTypeOK ==
    /\ immersive \in {"off", "entering", "on"} /\ phase \in {"inactive", "starting", "active", "stopping"}
    /\ ui.at \in {"idle", "starting", "failing", "stopping"} /\ ready \in {"none", "yes", "no"}
    /\ worker.at \in {"none", "opening", "arming", "pumping", "disarming", "awaiting", "releasing", "reporting", "done"}
    /\ worker.err \in {"none", "interrupted", "other"} /\ broker \in {"idle", "serving", "armed"}
    /\ \A k \in Keys : host[k] \in {"none", "wndproc", "hook", "worker"}
    /\ slot => worker.at # "none"

\* While the driver is armed, or a worker could still arm it, neither the
\* window procedure nor the hook forwards keys.
SoleProducer ==
    /\ phase = "inactive" => ~driver.armed /\ worker.at \in {"none", "done"}
    /\ hook => ~driver.armed

\* No key edge reaches the host twice.
NoEdgeTwice == ~twice

\* When the worker is gone, every key it pressed on the host has been
\* released, or the session is being torn down.
ReleasedOrDisconnected ==
    worker.at \in {"none", "done"} => disconnect \/ leaving \/ ~running \/ \A k \in Keys : host[k] # "worker"

\* While the UI thread waits for the worker, it or the worker can take a step
\* without the broker: no broker, however silent, hangs the window.
UiNeverHangs == ui.at # "idle" => ENABLED UiThread \/ ENABLED Worker

\* The keyboard has one producer at a time and the capture gives back what it
\* took (set_immersive, the capture worker, uninstall).
CaptureOwned ==
    InputTypeOK /\ SoleProducer /\ NoEdgeTwice /\ ReleasedOrDisconnected /\ UiNeverHangs

=============================================================================
