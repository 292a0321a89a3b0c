--------------------------- MODULE KeyboardFilter ---------------------------
(***************************************************************************)
(* The keyboard class filter driver and the broker that owns it: capture   *)
(* epochs named by a nonce and kept alive by a lease, the event ring, the  *)
(* held-back Alt, a keyboard class driver that may refuse a record, and    *)
(* the broker's check that the events of an epoch have no gap.             *)
(*                                                                         *)
(* A callback is several steps: the spin lock is given up around each call *)
(* of the class driver, and an ARM or READ_EVENTS request may come between.*)
(***************************************************************************)
EXTENDS Integers, Sequences, FiniteSets

CONSTANTS
    FilterKeys,    \* physical keys, of the kinds below
    RingCapacity,  \* BP_RING_CAPACITY
    MaxRecords,    \* bound on keyboard records
    MaxEpochs,     \* bound on capture epochs
    MaxRefusals    \* bound on records the class driver refuses

ASSUME FilterAssumption ==
    /\ FilterKeys \subseteq {"alt", "ralt", "tab", "win", "ctrl", "x"}
    /\ RingCapacity \in Nat \ {0}
    /\ {MaxRecords, MaxEpochs, MaxRefusals} \subseteq Nat

Alts == {"alt", "ralt"} \cap FilterKeys
NoKey == "none"

VARIABLES
    cap,       \* gCapture
    late,      \* the lease of cap has run out
    cb,        \* the service callback; cb.at = "idle" means gCallbackBusy = 0
    records,   \* records the keyboard port holds for the callback
    keysDown,      \* keys physically down
    lastKey,   \* the key that repeats
    local,     \* keys down for Windows
    brk,       \* the broker: [at, nonce, last]
    remote,    \* keys down according to the events of this epoch
    handled, epochs, refusals,
    atArm,     \* history: keys that were down when the epoch began
    excused,   \* history: keys Windows held when the filter began to take them
    taken      \* history: Alt keys captured for good

epoch == <<cap, late>>
noted == <<remote, atArm, excused, taken>>
bounds == <<handled, epochs, refusals>>
filterVars == <<epoch, cb, records, keysDown, lastKey, local, brk, bounds, noted>>

NoAlt == [alts |-> {}, pending |-> NoKey, capturing |-> FALSE, tabDown |-> FALSE]

\* gCapture as the driver is loaded.
Unarmed ==
    [armed |-> FALSE, faulted |-> FALSE, nonce |-> 0, chord |-> NoAlt,
     seq |-> 0, dropped |-> FALSE, ring |-> <<>>]

IdleCallback ==
    [at |-> "idle", armed |-> FALSE, nonce |-> 0, prior |-> NoAlt]

FilterInit ==
    /\ cap = Unarmed /\ late = FALSE /\ cb = IdleCallback /\ records = <<>>
    /\ keysDown = {} /\ lastKey = NoKey /\ local = {}
    /\ brk = [at |-> "serving", nonce |-> 0, last |-> 0] /\ remote = {}
    /\ handled = 0 /\ epochs = 0 /\ refusals = 0
    /\ atArm = {} /\ excused = {} /\ taken = {}

\* ------------------------------------------- gCapture under its spin lock

\* Everything but a held-back Alt is forgotten.
Cleared(c) == [NoAlt EXCEPT !.pending = c.chord.pending]

\* Mutant: a fault is not counted.
FaultedQuietly(c) == [c EXCEPT !.armed = FALSE, !.faulted = TRUE, !.chord = Cleared(c)]

\* BpFaultEpochLocked.
Faulted(c) == [c EXCEPT !.armed = FALSE, !.faulted = TRUE, !.dropped = TRUE, !.chord = Cleared(c)]

\* BpExpireLeaseLocked.
Expired(c) == IF c.armed /\ late THEN Faulted(c) ELSE c

RingFull(c) == Len(c.ring) = RingCapacity

\* BpEnqueueEventLocked.
Enqueued(c, r) ==
    [c EXCEPT !.seq = @ + 1, !.ring = Append(@, [key |-> r.key, up |-> r.up, nonce |-> c.nonce, seq |-> c.seq + 1])]

\* BpUpdateAltStateLocked.
AltState(h, r) ==
    IF r.key \notin Alts THEN h
    ELSE [h EXCEPT !.alts = IF r.up THEN @ \ {r.key} ELSE @ \cup {r.key}]

\* The chord after a record of an armed epoch, and whether the record is kept
\* from Windows and the held-back Alt handed to it first.
Plain(h) == [chord |-> h, suppress |-> FALSE, replay |-> FALSE]
Kept(h) == [chord |-> h, suppress |-> TRUE, replay |-> FALSE]

\* Mutant: a record that is no Tab lets the held-back Alt go unseen.
DecidedForgets(h, r, wasDown) ==
    IF r.key \in Alts /\ ~r.up /\ ~wasDown /\ h.pending = NoKey THEN Kept([h EXCEPT !.pending = r.key])
    ELSE Plain([h EXCEPT !.pending = NoKey])

Decided(h, r, wasDown) ==
    IF r.key = "win" THEN
        IF h.pending = NoKey THEN Kept(h)
        ELSE Kept([h EXCEPT !.pending = NoKey, !.capturing = TRUE, !.tabDown = FALSE])
    ELSE IF h.capturing THEN
        IF r.key \notin Alts \cup {"tab"} THEN Plain(h)
        ELSE LET tab == IF r.key = "tab" THEN ~r.up ELSE h.tabDown
             IN Kept([h EXCEPT !.tabDown = tab, !.capturing = ~(r.up /\ h.alts = {} /\ ~tab)])
    ELSE IF h.pending # NoKey THEN
        IF r.key = "tab" /\ ~r.up
        THEN Kept([h EXCEPT !.pending = NoKey, !.capturing = TRUE, !.tabDown = TRUE])
        ELSE [Plain(h) EXCEPT !.replay = r.key # "ctrl"]
    ELSE IF r.key \in Alts /\ ~r.up /\ ~wasDown THEN Kept([h EXCEPT !.pending = r.key])
    ELSE Plain(h)

\* ------------------------------------------- the keyboard

Reported(k, up) ==
    /\ handled < MaxRecords /\ Len(records) < 2 /\ handled' = handled + 1
    /\ records' = Append(records, [key |-> k, up |-> up])
    /\ UNCHANGED <<epoch, cb, local, brk, epochs, refusals, remote, excused, taken>>

\* A key goes down or up.
Moves(k) ==
    /\ Reported(k, k \in keysDown)
    /\ keysDown' = IF k \in keysDown THEN keysDown \ {k} ELSE keysDown \cup {k}
    /\ lastKey' = IF k \notin keysDown THEN k ELSE IF lastKey = k THEN NoKey ELSE lastKey
    /\ atArm' = atArm \ {k}

\* The last key pressed repeats.
Repeats == lastKey # NoKey /\ Reported(lastKey, FALSE) /\ UNCHANGED <<keysDown, lastKey, atArm>>

\* ------------------------------------------- BpServiceCallback

CallbackEnters ==
    /\ cb.at = "idle" /\ records # <<>> /\ cb' = [cb EXCEPT !.at = "record"]
    /\ UNCHANGED <<epoch, records, keysDown, lastKey, local, brk, bounds, noted>>

\* The next record of the batch, or the end of it; gCallbackBusy returns to 0.
Leaves == cb' = IdleCallback
NextRecord ==
    /\ records' = Tail(records)
    /\ \/ Len(records) > 1 /\ cb' = [IdleCallback EXCEPT !.at = "record"]
       \/ Leaves

\* The decision for one record, under the lock.
RecordDecided ==
    LET r == Head(records)
        c == Expired(cap)
        full == c.armed /\ RingFull(c)
        pend == c.chord.pending # NoKey
        d == Decided(AltState(c.chord, r), r, c.chord.alts # {})
    IN /\ cb.at = "record" /\ late' = (late /\ cap.armed /\ c.armed)
       /\ IF ~c.armed \/ full
          THEN /\ cap' = IF full THEN Faulted(c) ELSE c
               /\ cb' = [IdleCallback EXCEPT !.at = IF pend THEN "replaying" ELSE "passing",
                                             !.nonce = c.nonce]
               /\ UNCHANGED <<records, excused, taken>>
          ELSE /\ cap' = IF d.suppress THEN Enqueued([c EXCEPT !.chord = d.chord], r) ELSE [c EXCEPT !.chord = d.chord]
               /\ excused' = IF d.chord.capturing /\ ~c.chord.capturing THEN excused \cup local ELSE excused
               /\ taken' = IF d.suppress /\ d.chord.pending = NoKey
                           THEN (taken \cup ({c.chord.pending} \cap Alts) \cup (IF r.up THEN {} ELSE {r.key} \cap Alts))
                                \ (IF r.up THEN {r.key} ELSE {})
                           ELSE taken \ {r.key}
               /\ IF d.suppress THEN NextRecord
                  ELSE /\ cb' = [at |-> IF d.replay THEN "replaying" ELSE "passing", armed |-> TRUE,
                                 nonce |-> c.nonce, prior |-> c.chord]
                       /\ UNCHANGED records
    /\ UNCHANGED <<keysDown, lastKey, local, brk, bounds, remote, atArm>>

SameEpoch == cb.armed /\ cap.armed /\ ~cap.faulted /\ cap.nonce = cb.nonce

\* An epoch has begun since the record was decided.
Overtaken == cap.armed /\ ~SameEpoch

Refused == refusals < MaxRefusals /\ refusals' = refusals + 1

\* The class driver is handed the Alt that was held back.
ReplayTaken ==
    /\ cb.at = "replaying" /\ local' = local \cup {cap.chord.pending}
    /\ cap' = [cap EXCEPT !.chord.pending = NoKey]
    /\ cb' = [cb EXCEPT !.at = "passing", !.prior.pending = NoKey]
    /\ excused' = IF Overtaken THEN excused \cup {cap.chord.pending} ELSE excused
    /\ UNCHANGED <<late, records, keysDown, lastKey, brk, bounds, remote, atArm, taken>>

\* The state before the record is put back, for the retry of the record.
Undone == IF SameEpoch THEN [cap EXCEPT !.chord = cb.prior] ELSE cap

\* It took nothing: the record stays with the port and the callback returns.
CallRefused ==
    /\ cb.at \in {"replaying", "passing"} /\ Refused /\ cap' = Undone /\ Leaves
    /\ UNCHANGED <<late, records, keysDown, lastKey, local, brk, handled, epochs, noted>>

\* The class driver takes the record; only then is it an event of the epoch.
RecordTaken ==
    LET r == Head(records)
    IN /\ cb.at = "passing"
       /\ local' = IF r.up THEN local \ {r.key} ELSE local \cup {r.key}
       /\ cap' = IF SameEpoch THEN Enqueued(cap, r) ELSE cap
       /\ excused' = IF Overtaken /\ ~r.up THEN excused \cup {r.key} ELSE excused \ {r.key}
       /\ taken' = taken \ {r.key}
       /\ NextRecord
       /\ UNCHANGED <<late, keysDown, lastKey, brk, bounds, remote, atArm>>

\* ------------------------------------------- control requests

LeaseRunsOut ==
    /\ cap.armed /\ ~late /\ late' = TRUE
    /\ UNCHANGED <<cap, cb, records, keysDown, lastKey, local, brk, bounds, noted>>

ArmRefused(c, n) == (~c.armed /\ c.chord.pending # NoKey) \/ (c.faulted /\ c.nonce = n)

\* BP_KBD_IOCTL_ARM that is granted.
Armed(c, n) ==
    IF c.armed /\ c.nonce = n THEN c
    ELSE [Unarmed EXCEPT !.armed = TRUE, !.nonce = n, !.chord = Cleared(c)]

\* The broker's Arm: begin_capture draws a nonce; a refusal ends the client.
BrokerArms ==
    LET c == Expired(cap)
        n == epochs + 1
    IN /\ brk.at \in {"serving", "armed"} /\ epochs < MaxEpochs /\ epochs' = n
       /\ IF ArmRefused(c, n)
          THEN /\ cap' = c /\ brk' = [brk EXCEPT !.at = "leaving"] /\ UNCHANGED <<atArm, excused, remote>>
          ELSE /\ cap' = Armed(c, n) /\ brk' = [at |-> "armed", nonce |-> n, last |-> 0]
               /\ atArm' = keysDown /\ excused' = local /\ remote' = {}
       /\ late' = FALSE
       /\ UNCHANGED <<cb, records, keysDown, lastKey, local, handled, refusals, taken>>

\* refresh_lease; a refusal ends the client.
BrokerRefreshes ==
    LET c == Expired(cap)
    IN /\ brk.at = "armed" /\ late
       /\ late' = FALSE
       /\ IF ArmRefused(c, brk.nonce)
          THEN cap' = c /\ brk' = [brk EXCEPT !.at = "leaving"]
          ELSE cap' = Armed(c, brk.nonce) /\ UNCHANGED brk
       /\ UNCHANGED <<cb, records, keysDown, lastKey, local, bounds, noted>>

\* observe_batch.
GapFree(events, lost) ==
    /\ ~lost
    /\ \A i \in 1..Len(events) : events[i].nonce = brk.nonce /\ events[i].seq = brk.last + i

\* The remote keys after a batch.
Applied(keys, events) ==
    {k \in keys : \A i \in 1..Len(events) : events[i].key # k}
    \cup {k \in FilterKeys : \E i \in 1..Len(events) :
              events[i].key = k /\ ~events[i].up /\ \A j \in (i + 1)..Len(events) : events[j].key # k}

\* READ_EVENTS and what the broker makes of the batch.
BrokerReads ==
    LET events == IF cb.at = "idle" THEN cap.ring ELSE <<>>
    IN /\ brk.at = "armed" /\ (events # <<>> \/ cap.dropped)
       /\ cap' = [cap EXCEPT !.ring = IF events = <<>> THEN @ ELSE <<>>,
                             !.dropped = IF events = <<>> THEN @ ELSE FALSE]
       /\ IF GapFree(events, cap.dropped)
          THEN brk' = [brk EXCEPT !.last = @ + Len(events)] /\ remote' = Applied(remote, events)
          ELSE brk' = [brk EXCEPT !.at = "leaving"] /\ UNCHANGED remote
       /\ UNCHANGED <<late, cb, records, keysDown, lastKey, local, bounds, atArm, excused, taken>>

\* The client asks for Disarm, goes away, or the console session changes.
BrokerStops ==
    /\ brk.at = "armed" /\ brk' = [brk EXCEPT !.at = "leaving"]
    /\ UNCHANGED <<epoch, cb, records, keysDown, lastKey, local, bounds, noted>>

\* Device::disarm: a granted DISARM, or a callback that outlasts the retries.
BrokerDisarms ==
    /\ brk.at = "leaving" /\ brk' = [at |-> "serving", nonce |-> 0, last |-> 0]
    /\ \/ /\ cb.at = "idle" /\ cap' = [cap EXCEPT !.armed = FALSE, !.faulted = FALSE, !.chord = Cleared(cap)]
          /\ late' = FALSE
       \/ cb.at # "idle" /\ UNCHANGED <<cap, late>>
    /\ UNCHANGED <<cb, records, keysDown, lastKey, local, bounds, noted>>

Callback == CallbackEnters \/ RecordDecided \/ ReplayTaken \/ CallRefused \/ RecordTaken
BrokerSide == BrokerArms \/ BrokerRefreshes \/ BrokerReads \/ BrokerStops \/ BrokerDisarms

FilterNext ==
    \/ \E k \in FilterKeys : Moves(k)
    \/ Repeats \/ Callback \/ LeaseRunsOut \/ BrokerSide

FilterSpec == FilterInit /\ [][FilterNext]_filterVars

\* ------------------------------------------------------------ properties

FilterTypeOK ==
    /\ cap.chord.alts \subseteq Alts /\ cap.chord.pending \in Alts \cup {NoKey}
    /\ Len(cap.ring) <= RingCapacity /\ ~(cap.armed /\ cap.faulted)
    /\ cb.at \in {"idle", "record", "replaying", "passing"}
    /\ brk.at \in {"serving", "armed", "leaving"}
    /\ local \subseteq FilterKeys /\ remote \subseteq FilterKeys

Quiet == records = <<>> /\ cb.at = "idle"
Live == cap.armed /\ ~late /\ brk.at = "armed" /\ brk.nonce = cap.nonce

\* While an epoch is live and everything has been read, the events have told
\* the client exactly which keys are down, but for those already down when
\* the epoch began.
RemoteFollows == Quiet /\ Live /\ cap.ring = <<>> => remote \subseteq keysDown /\ keysDown \subseteq remote \cup atArm

\* A fault of the epoch the broker believes in is always still to be
\* announced to it.
FaultAnnounced == brk.at = "armed" /\ cap.nonce = brk.nonce /\ ~cap.armed => cap.faulted /\ cap.dropped

\* No key stays down for Windows once it is up, unless Windows had it down
\* when the filter began to keep its records back.
NoLocalStuckKey == Quiet => local \subseteq keysDown \cup excused

\* A key that is neither Alt, Tab, Win nor a chord modifier reaches Windows
\* only after every Alt pressed before it, unless that Alt was captured.
ChordNotSplit ==
    [][("x" \in local' \ local /\ SameEpoch) => cap.chord.alts \subseteq local \cup taken \cup atArm]_filterVars

\* Each key record ends up with the client or with Windows, and a fault of the
\* filter is announced (driver.c's service callback, ring and control paths).
FilterFaithful == FilterTypeOK /\ RemoteFollows /\ FaultAnnounced /\ NoLocalStuckKey

=============================================================================
