--------------------------- MODULE CursorChannel ----------------------------
(***************************************************************************)
(* The cursor channel: the streamer's tracker samples the host cursor and   *)
(* sends SHAPE and POS messages over a reliable ordered channel.  A browser *)
(* (auto mouse mode with hysteresis, a bounded cache of shapes) or the       *)
(* native shell (one shape slot, a ring of built cursors, a slot the window  *)
(* procedure reads) follows it.                                              *)
(*                                                                          *)
(* A shape is the cursor handle it was extracted from, with the id the       *)
(* tracker gave it.  A position is one of two places, and time in the        *)
(* browser is the age of a disagreement.                                     *)
(***************************************************************************)
EXTENDS Integers, Sequences, SequencesExt

CONSTANTS
    Cursors,           \* cursor handles of the host
    HugeCursors,       \* those whose image exceeds CURSOR_SHAPE_MAX_PNG_LEN
    MaxTrackerFailures,\* MAX_SEND_FAILURES
    CacheMax,          \* CURSOR_SHAPE_CACHE_MAX
    RingDepth,         \* cursors the native shell keeps alive
    Hysteresis,        \* hysteresisMs, in ticks
    MaxChanges,        \* bound on changes of the host cursor
    MaxUnlucky         \* bound on failed extractions, sends and builds, reconnects, and on switching the mode off

ASSUME CursorAssumption ==
    /\ {MaxTrackerFailures, CacheMax, RingDepth, Hysteresis, MaxChanges, MaxUnlucky} \subseteq Nat \ {0}
    /\ HugeCursors \subseteq Cursors /\ Cursors \subseteq Nat \ {0} /\ Cursors # {}

Unknown == 0
NoSample == [vis |-> FALSE, at |-> 0, handle |-> Unknown]

VARIABLES
    cursor,    \* the host cursor: [vis, at, handle]
    tracker,   \* [st, pc, sample, last, extracted, shape, next, fails]
    viewer,    \* the client of the session: "page" or "shell"
    cursorWire,\* messages in flight
    page,      \* the browser: [on, mode, visible, age, active, cache, shown]; steady is the age of visible
    shell,     \* the native client: [visible, id, slot, built, ring, handle, pumping, screen];
               \* histories: missed, the last shape whose build failed; since, the builds since
               \* the window procedure last set the cursor
    changes, unlucky,
    lapse,     \* history: what the tracker sent of the current shape may be incomplete
    gap        \* history: the browser dropped messages it has not made up for

cursorVars == <<viewer, cursor, tracker, cursorWire, page, shell, changes, unlucky, lapse, gap>>

Pos(vis, id) == [kind |-> "pos", vis |-> vis, id |-> id, of |-> Unknown]
Shape(id, handle) == [kind |-> "shape", vis |-> FALSE, id |-> id, of |-> handle]

NewTracker == [st |-> "run", pc |-> "tick", sample |-> NoSample, last |-> NoSample, extracted |-> Unknown,
               shape |-> Unknown, next |-> 1, fails |-> 0]
PageOff == [on |-> FALSE, mode |-> "unlocked", visible |-> TRUE, age |-> 0, steady |-> 0, active |-> Unknown,
            cache |-> <<>>, shown |-> [locked |-> FALSE, id |-> Unknown]]
ShellReset == [visible |-> TRUE, id |-> Unknown, slot |-> Shape(Unknown, Unknown), built |-> Unknown,
               ring |-> <<>>, handle |-> Unknown, pumping |-> FALSE, screen |-> Unknown,
               missed |-> Unknown, since |-> 0]

CursorInit ==
    /\ \E v \in BOOLEAN : cursor = [vis |-> v, at |-> 0, handle |-> CHOOSE h \in Cursors : TRUE]
    /\ viewer \in {"page", "shell"} /\ tracker = NewTracker /\ cursorWire = <<>> /\ page = PageOff /\ shell = ShellReset
    /\ changes = 0 /\ unlucky = 0 /\ lapse = FALSE /\ gap = FALSE

Unlucky == unlucky < MaxUnlucky /\ unlucky' = unlucky + 1

\* The host's user moves the mouse, an application shows, hides or changes the cursor.
HostCursorChanges ==
    /\ changes < MaxChanges /\ changes' = changes + 1
    /\ \E v \in BOOLEAN, a \in {0, 1}, h \in Cursors :
        /\ cursor' = [vis |-> v, at |-> a, handle |-> h] /\ cursor' # cursor
    /\ UNCHANGED <<viewer, tracker, cursorWire, page, shell, unlucky, lapse, gap>>

\* ---------------------------------------------------------------- tracker

\* A failed send counts towards giving up.
Failed(tr) == [tr EXCEPT !.fails = @ + 1, !.st = IF tr.fails + 1 >= MaxTrackerFailures THEN "gone" ELSE @]

\* extract_shape fails on any Win32 or encoding error.
ExtractionFails == Unlucky

\* encode_shape: an oversized image is not sent.
Encodable(h) == h \notin HugeCursors

\* A fresh id for every change of the handle.
FreshId(tr) == tr.next + 1

\* run samples the cursor; a new handle is extracted, encoded and sent as a SHAPE.
TrackerShape ==
    /\ tracker.st = "run" /\ tracker.pc = "tick" /\ tracker.extracted # cursor.handle
    /\ LET h == cursor.handle
           to == [tracker EXCEPT !.pc = "pos", !.sample = cursor]
       IN \/ /\ ExtractionFails                       \* tried again on the next tick
             /\ tracker' = [to EXCEPT !.shape = Unknown] /\ UNCHANGED <<cursorWire, lapse>>
          \/ /\ ~Encodable(h)
             /\ tracker' = [to EXCEPT !.shape = Unknown, !.extracted = h]
             /\ UNCHANGED <<cursorWire, unlucky, lapse>>
          \/ /\ Encodable(h) /\ cursorWire' = Append(cursorWire, Shape(tracker.next, h))
             /\ tracker' = [to EXCEPT !.shape = tracker.next, !.next = FreshId(tracker), !.extracted = h, !.fails = 0]
             /\ lapse' = (lapse \/ h = tracker.last.handle) /\ UNCHANGED unlucky
          \/ /\ Encodable(h) /\ Unlucky
             /\ tracker' = Failed(to) /\ UNCHANGED <<cursorWire, lapse>>
    /\ UNCHANGED <<viewer, cursor, page, shell, changes, gap>>

\* The sample of this tick: taken now, or before the SHAPE was sent.
Sampled == IF tracker.pc = "pos" THEN tracker.sample ELSE cursor

\* The POS frame, unless the raw sample and the handle are those of the last one sent: what
\* it says of the shape is complete when the handle's own shape is known.
TrackerPos ==
    /\ tracker.st = "run"
    /\ tracker.pc = "pos" \/ (tracker.extracted = cursor.handle /\ cursor # tracker.last)
    /\ LET to == [tracker EXCEPT !.pc = "tick", !.sample = NoSample]
       IN \/ Sampled = tracker.last /\ tracker' = to /\ UNCHANGED <<cursorWire, unlucky, lapse>>
          \/ /\ Sampled # tracker.last
             /\ cursorWire' = Append(cursorWire, Pos(Sampled.vis, tracker.shape))
             /\ tracker' = [to EXCEPT !.last = Sampled, !.fails = 0] /\ UNCHANGED unlucky
             /\ lapse' = (tracker.shape = Unknown \/ tracker.extracted # Sampled.handle)
          \/ /\ Sampled # tracker.last /\ Unlucky
             /\ tracker' = Failed(to) /\ UNCHANGED <<cursorWire, lapse>>
    /\ UNCHANGED <<viewer, cursor, page, shell, changes, gap>>

\* ---------------------------------------------------------------- browser

Locked(p) == p.mode = "locked"
Cached(p, id) == \E i \in DOMAIN p.cache : p.cache[i].id = id

\* computeCursorCss: the cached active shape while unlocked.
Css(p) == IF ~Locked(p) /\ Cached(p, p.active) THEN p.active ELSE Unknown

\* emitCursorAutoState.
Emit(p) == [p EXCEPT !.shown = [locked |-> Locked(p), id |-> Css(p)]]

\* cacheCursorShape: the oldest entry makes room.
CacheShape(p, id, h) ==
    [p EXCEPT !.cache = Append(IF Len(@) >= CacheMax THEN Tail(@) ELSE @, [id |-> id, of |-> h])]

\* CursorAutoMode.evaluate, and applyCursorAutoAction on a transition.
Evaluate(p) ==
    LET desired == IF p.visible THEN "unlocked" ELSE "locked"
    IN IF desired = p.mode THEN [p EXCEPT !.age = 0]
       ELSE IF p.age < Hysteresis THEN p
       ELSE Emit([p EXCEPT !.mode = desired, !.age = 0])

\* The channel's listener on a SHAPE.
OnShape(p, msg) ==
    LET q == CacheShape(p, msg.id, msg.of) IN IF msg.id = p.active THEN Emit(q) ELSE q

\* What a POS says of the host cursor.
Told(p, msg) ==
    [p EXCEPT !.active = msg.id, !.visible = msg.vis, !.steady = IF p.visible = msg.vis THEN @ ELSE 0]

\* The channel's listener on a POS: the shape is shown again unless the lock flipped.
OnPos(p, msg) ==
    LET r == Evaluate(Told(p, msg))
    IN IF r.mode # p.mode THEN r ELSE IF msg.id # p.active THEN Emit(r) ELSE r

\* setCursorAutoEnabled: a fresh machine on every enable, over the shapes kept from before.
SetCursorAuto(on) ==
    /\ viewer = "page" /\ page.on # on
    /\ IF on THEN page' = Emit([page EXCEPT !.on = TRUE, !.mode = "unlocked", !.visible = TRUE, !.age = 0, !.steady = 0]) /\ UNCHANGED unlucky
             ELSE page' = Emit([page EXCEPT !.on = FALSE, !.mode = "unlocked", !.visible = TRUE, !.age = 0, !.steady = 0]) /\ Unlucky
    /\ UNCHANGED <<viewer, cursor, tracker, cursorWire, shell, changes, lapse, gap>>

Older(age) == IF age < Hysteresis THEN age + 1 ELSE age

\* The watchdog's tick drives the hysteresis.
AutoTick ==
    /\ page.on /\ page.visible = Locked(page)
    /\ page' = Evaluate([page EXCEPT !.age = Older(@), !.steady = Older(@)])
    /\ UNCHANGED <<viewer, cursor, tracker, cursorWire, shell, changes, unlucky, lapse, gap>>

\* ----------------------------------------------------------- native shell

\* CursorShared::store and store_shape.
Stored(s, msg) ==
    IF msg.kind = "pos" THEN [s EXCEPT !.visible = msg.vis, !.id = msg.id] ELSE [s EXCEPT !.slot = msg]

\* Mutant: a cursor is destroyed one build too early.
RingAfterEarly(s) == LET r == Append(s.ring, [id |-> s.id, of |-> s.slot.of]) IN IF Len(r) >= RingDepth THEN Tail(r) ELSE r

\* The cursors kept after a build; the oldest beyond the ring's depth is destroyed.
RingAfter(s) == LET r == Append(s.ring, [id |-> s.id, of |-> s.slot.of]) IN IF Len(r) > RingDepth THEN Tail(r) ELSE r

\* A build is due when the slot holds the very shape the last POS named.
BuildDue(s) == s.id # Unknown /\ s.id # s.built /\ s.slot.id = s.id

ShellOnly == viewer = "shell" /\ UNCHANGED <<viewer, cursor, tracker, cursorWire, page, changes, lapse, gap>>
Capped(n) == IF n < RingDepth THEN n + 1 ELSE n

\* ClientCursor::pump, up to the ring: the id is taken for built whether or not the image
\* decodes and the icon can be made, and a miss leaves the ring as it is.
PumpBuilds ==
    /\ ~shell.pumping /\ BuildDue(shell)
    /\ LET s == [shell EXCEPT !.built = shell.id, !.pumping = TRUE]
       IN \/ shell' = [s EXCEPT !.ring = RingAfter(shell), !.since = Capped(@)] /\ UNCHANGED unlucky
          \/ shell' = [s EXCEPT !.missed = shell.id] /\ Unlucky
    /\ ShellOnly

\* What pump publishes: the newest cursor while the host's is visible.
Published(s) == IF s.visible /\ s.ring # <<>> THEN Last(s.ring).id ELSE Unknown

\* The end of pump: the visibility is read again, after what the session stored meanwhile.
PumpPublishes ==
    /\ shell.pumping \/ (~BuildDue(shell) /\ shell.handle # Published(shell))
    /\ shell' = [shell EXCEPT !.handle = Published(shell), !.pumping = FALSE]
    /\ ShellOnly /\ UNCHANGED unlucky

\* apply_cursor, on WM_SETCURSOR and WM_MOUSEMOVE, on the thread that pumps.
AppliesCursor ==
    /\ ~shell.pumping /\ shell' = [shell EXCEPT !.screen = shell.handle, !.since = 0] /\ shell' # shell
    /\ ShellOnly /\ UNCHANGED unlucky

\* A new session: ClientCursor::reset hides the cursor and empties the ring, and what the
\* window procedure had set stays until its next message; tracker and channel are new.
CursorSessionEnds ==
    /\ ~shell.pumping /\ Unlucky
    /\ shell' = [ShellReset EXCEPT !.screen = shell.screen, !.since = RingDepth]
    /\ tracker' = NewTracker /\ cursorWire' = <<>> /\ page' = PageOff /\ lapse' = FALSE /\ gap' = FALSE
    /\ UNCHANGED <<viewer, cursor, changes>>

\* One message reaches the client; a browser out of auto mode drops it.
CursorDelivered ==
    /\ cursorWire # <<>> /\ cursorWire' = Tail(cursorWire)
    /\ LET msg == Head(cursorWire)
       IN  \/ viewer = "shell" /\ shell' = Stored(shell, msg) /\ UNCHANGED <<page, gap>>
           \/ viewer = "page" /\ ~page.on /\ gap' = TRUE /\ UNCHANGED <<page, shell>>
           \/ /\ viewer = "page" /\ page.on
              /\ page' = IF msg.kind = "shape" THEN OnShape(page, msg) ELSE OnPos(page, msg)
              /\ gap' = (gap /\ ~(msg.kind = "pos" /\ Cached(page, msg.id)))
              /\ UNCHANGED shell
    /\ UNCHANGED <<viewer, cursor, tracker, changes, unlucky, lapse>>

\* --------------------------------------------------------------------- spec

CursorNext ==
    \/ HostCursorChanges \/ TrackerShape \/ TrackerPos
    \/ \E on \in BOOLEAN : SetCursorAuto(on)
    \/ AutoTick \/ CursorDelivered
    \/ PumpBuilds \/ PumpPublishes \/ AppliesCursor \/ CursorSessionEnds

CursorSpec == CursorInit /\ [][CursorNext]_cursorVars

\* --------------------------------------------------------------- properties

\* Everything the tracker saw has been sent and delivered, without a failure on the way.
Settled ==
    /\ tracker.st = "run" /\ tracker.pc = "tick" /\ tracker.last = cursor /\ tracker.extracted = cursor.handle
    /\ cursorWire = <<>> /\ ~lapse

\* The shell has pumped what it was told.
ShellSettled == ~shell.pumping /\ ~BuildDue(shell) /\ shell.handle = Published(shell)

\* In whatever order SHAPE and POS came, and with old shapes evicted: once settled, an
\* unlocked browser that was told everything shows the image of the host's cursor, and so does
\* what the native client's shell has published, unless the build of that very shape failed:
\* it is not tried again, and the image before it stays.
ShapeConverges ==
    Settled =>
        /\ (page.on /\ ~Locked(page) /\ ~gap) => \E i \in DOMAIN page.cache :
               page.cache[i] = [id |-> page.shown.id, of |-> cursor.handle]
        /\ (viewer = "shell" /\ ShellSettled /\ cursor.vis /\ shell.missed # shell.built) =>
               shell.handle # Unknown /\ Last(shell.ring) = [id |-> shell.handle, of |-> cursor.handle]

\* The state handed to the input code and the one shown are in step: the lock always, the
\* shape unless it has been evicted.
ShownInStep ==
    /\ page.shown.locked = Locked(page)
    /\ (page.on /\ Cached(page, page.active)) => page.shown.id = Css(page)

\* The window procedure never sets a cursor that was destroyed, and the one on screen is
\* destroyed under it only when the ring's depth of shapes was built, or the session ended,
\* since it last set one: the ring outlives the handle on screen so far and no further.
HandleAlive ==
    LET alive == {e.id : e \in Range(shell.ring)} \cup {Unknown}
    IN /\ ~shell.pumping => shell.handle \in alive
       /\ shell.since < RingDepth => shell.screen \in alive
       /\ Len(shell.ring) <= RingDepth

\* A flickering cursor does not flip the lock: the host's visibility, as received, has then
\* disagreed with the mode for the whole hysteresis.
NoLockThrash ==
    [][page'.on /\ page.on /\ page'.mode # page.mode => page'.steady >= Hysteresis]_cursorVars

\* Either client ends up with the host's cursor, out of live handles and cached
\* shapes only (cursor_tracker.rs, stream/index.ts, cursor_icon.rs).
CursorFollows == ShapeConverges /\ ShownInStep /\ HandleAlive

=============================================================================
