----------------------------- MODULE KeyRouting -----------------------------
(***************************************************************************)
(* What the host sees of a physical keyboard, key by key, under each owner *)
(* of the keyboard: the broker's router, the low-level hook in front of    *)
(* the window procedure, the captured window procedure on its own, and the *)
(* window procedure outside immersive mode; and what becomes of the keys   *)
(* that are down when the owner changes.  The stream window keeps the      *)
(* focus, and the queue to the host has room: that it may not is the       *)
(* subject of InputCapture.                                                *)
(***************************************************************************)
EXTENDS Integers, FiniteSets, Sequences, SequencesExt

CONSTANTS
    RouteKeys,  \* the keys of the keyboard
    MaxHeld     \* keys held at once

VARIABLES
    mode,      \* who owns the keyboard; "ending" once the broker's worker is gone
    fingers,   \* keys physically down
    repeats,   \* the key that repeats
    winAlt,    \* the Alt keys Windows takes to be down
    remap,     \* CtrlTabRemap
    hooked,    \* HookShared: [alt, altTab]
    mods,      \* the modifiers BrokerRouter has seen go down
    waiting,   \* BrokerRouter.pending
    sentDown,  \* BrokerRouter.sent_down
    hostDown,  \* keys down on the host
    stray,     \* history: keys on the host that their owner will not release
    lifted     \* history: held keys that the client kept from the host

routerVars == <<mods, waiting, sentDown>>
routeVars == <<mode, fingers, repeats, winAlt, remap, hooked, routerVars, hostDown, stray, lifted>>

AltKeys == {"alt", "ralt"}
Modifiers == {"ctrl", "win"} \cup AltKeys

NoChord == [tabDown |-> FALSE, ctrlSuppressed |-> FALSE]
FreshHook == [alt |-> FALSE, altTab |-> FALSE]

RouteInit ==
    /\ mode = "plain" /\ fingers = {} /\ repeats = "none" /\ winAlt = {}
    /\ remap = NoChord /\ hooked = FreshHook
    /\ mods = {} /\ waiting = <<>> /\ sentDown = {}
    /\ hostDown = {} /\ stray = {} /\ lifted = {}

\* ------------------------------------------- the wire

\* One key packet as the host applies it.
Put(h, k, up) == IF up THEN h \ {k} ELSE h \cup {k}

\* The keys release_sticky_keys lets go, whoever put them down.
Sticky == Modifiers \cup {"tab"}

\* A stray key stays one until the host lets it go, a lifted one until it is
\* released or reaches the host again.
Remember(strays, lifts) ==
    /\ stray' = (stray \cup strays) \cap hostDown'
    /\ lifted' = ((lifted \cup lifts) \cap fingers') \ hostDown'

\* ------------------------------------------- BrokerRouter::route

\* local_only: Alt+F4 and Ctrl+Alt+Delete stay with Windows (the Ctrl+Alt
\* hotkeys that do so too end the capture).
StaysLocal(k, held) ==
    /\ held \cap AltKeys # {}
    /\ k = "f4" \/ (k = "del" /\ "ctrl" \in held)

\* A modifier waits for the key it modifies.
RouteModifierDown(k) ==
    /\ mods' = mods \cup {k}
    /\ waiting' = IF k \in Range(waiting) \cup sentDown THEN waiting ELSE Append(waiting, k)
    /\ UNCHANGED <<sentDown, hostDown>>
    /\ Remember({}, {})

RouteKeyDown(k) ==
    /\ waiting' = <<>> /\ UNCHANGED mods
    /\ IF StaysLocal(k, mods)
       THEN UNCHANGED <<sentDown, hostDown>> /\ Remember({}, Range(waiting) \cup {k})
       ELSE /\ hostDown' = hostDown \cup Range(waiting) \cup {k}
            /\ sentDown' = sentDown \cup Range(waiting) \cup {k}
            /\ Remember({}, {})

\* A modifier that is still waiting is tapped, so nothing of it stays down.
RouteUp(k) ==
    /\ mods' = mods \ {k}
    /\ waiting' = SelectSeq(waiting, LAMBDA w : w # k)
    /\ sentDown' = sentDown \ {k}
    /\ hostDown' = IF k \in sentDown \cup Range(waiting) THEN hostDown \ {k} ELSE hostDown
    /\ Remember({}, {})

\* The filter in front of Windows may hold an Alt back.
Routes(k, up) ==
    /\ mode = "broker"
    /\ \/ up /\ RouteUp(k)
       \/ ~up /\ k \in Modifiers /\ RouteModifierDown(k)
       \/ ~up /\ k \notin Modifiers /\ RouteKeyDown(k)
    /\ winAlt' \in {winAlt, IF up THEN winAlt \ {k} ELSE winAlt \cup ({k} \cap AltKeys)}
    /\ up => k \notin winAlt'
    /\ UNCHANGED <<remap, hooked>>

\* ------------------------------------------- the window procedure

\* CtrlTabRemap::handle on a Tab-down and on the Tab-up that ends the chord.
RemapsTab(k, up, ctrl) == k = "tab" /\ ~up /\ mode # "plain" /\ ctrl /\ winAlt = {}
EndsRemap(k, up) == k = "tab" /\ up /\ remap.tabDown

\* Ctrl was lifted for the chord and comes back with the end of it.
Restore(h, ctrl) == IF remap.ctrlSuppressed /\ ctrl THEN h \cup {"ctrl"} ELSE h

\* handle, from the remap on.  The chord itself leaves nothing down, but an Alt
\* the host was holding is let go with it; a Tab-down that comes through while
\* the chord is open is one whose release the remap will consume.
WindowKey(k, up, ctrl) ==
    /\ \/ /\ RemapsTab(k, up, ctrl)
          /\ hostDown' = hostDown \ ({"tab", "alt"} \cup IF remap.ctrlSuppressed THEN {} ELSE {"ctrl"})
          /\ remap' = [tabDown |-> TRUE, ctrlSuppressed |-> TRUE]
          /\ Remember({}, {"alt"} \cap hostDown)
       \/ /\ EndsRemap(k, up)
          /\ hostDown' = Restore(hostDown, ctrl)
          /\ remap' = NoChord
          /\ Remember({}, {})
       \/ /\ ~RemapsTab(k, up, ctrl) /\ ~EndsRemap(k, up)
          /\ hostDown' = Put(hostDown, k, up)
          /\ remap' = IF k = "ctrl" /\ up THEN [remap EXCEPT !.ctrlSuppressed = FALSE] ELSE remap
          /\ Remember(IF remap.tabDown THEN {k} \cap {"tab"} ELSE {}, {})
    /\ winAlt' = IF k \in AltKeys THEN Put(winAlt, k, up) ELSE winAlt
    /\ UNCHANGED routerVars

\* ------------------------------------------- keyboard_hook_proc

\* tracked_alt_state.
AltAfter(k, up) == IF k \in AltKeys THEN ~up ELSE hooked.alt

\* The hook's Tab-down, with the Alt it has seen or the one Windows has.
TabDownHooked == hooked.alt \/ winAlt # {}

\* alt_tab_active: a Tab-up is the hook's when Alt is down or its Tab-down was.
TabIsHooked(k, up) == k = "tab" /\ IF up THEN hooked.alt \/ hooked.altTab ELSE TabDownHooked

\* hook_decision: Alt, Win and the Tab of Alt+Tab never reach Windows.
Swallows(k, up) == k \in AltKeys \cup {"win"} \/ TabIsHooked(k, up)

\* Alt is the hook's, so that Windows goes by what it had before; a chord whose
\* Tab-up the hook takes is never ended, and its Ctrl stays lifted.
Hooks(k, up, now) ==
    /\ mode = "hook"
    /\ hooked' = [alt |-> AltAfter(k, up),
                  altTab |-> IF k # "tab" THEN hooked.altTab
                             ELSE IF ~up THEN TabDownHooked ELSE hooked.altTab /\ hooked.alt]
    /\ \/ /\ Swallows(k, up) /\ hostDown' = Put(hostDown, k, up)
          /\ Remember({}, IF EndsRemap(k, up) THEN {"ctrl"} ELSE {})
          /\ UNCHANGED <<remap, winAlt, routerVars>>
       \/ ~Swallows(k, up) /\ WindowKey(k, up, "ctrl" \in now)

Plainly(k, up, now) ==
    /\ mode \in {"bare", "plain"}
    /\ WindowKey(k, up, "ctrl" \in now)
    /\ UNCHANGED hooked

\* The worker is gone and the window procedure still leaves the keys to it.
ReachesNobody(k, up) ==
    /\ mode = "ending"
    /\ winAlt' = IF k \in AltKeys THEN Put(winAlt, k, up) ELSE winAlt
    /\ UNCHANGED <<remap, hooked, routerVars, hostDown>>
    /\ Remember({}, {k})

\* ------------------------------------------- the keyboard

Arrives(k, up, now) ==
    Routes(k, up) \/ Hooks(k, up, now) \/ Plainly(k, up, now) \/ ReachesNobody(k, up)

Goes(k) ==
    LET now == IF k \in fingers THEN fingers \ {k} ELSE fingers \cup {k}
    IN /\ Cardinality(now) <= MaxHeld /\ fingers' = now
       /\ repeats' = IF k \notin fingers THEN k ELSE IF repeats = k THEN "none" ELSE repeats
       /\ Arrives(k, k \in fingers, now) /\ UNCHANGED mode

Repeat ==
    /\ repeats # "none" /\ UNCHANGED <<mode, fingers, repeats>>
    /\ Arrives(repeats, FALSE, fingers)

\* ------------------------------------------- who owns the keyboard

\* install_keyboard_hook: the broker, else the hook, else neither.  What the
\* window procedure had put down, the router knows nothing of.
Engage ==
    /\ mode = "plain" /\ mode' \in {"broker", "hook", "bare"}
    /\ remap' = NoChord /\ hooked' = FreshHook
    /\ UNCHANGED <<fingers, repeats, winAlt, routerVars, hostDown>>
    /\ Remember(IF mode' = "broker" THEN hostDown ELSE {}, {})

\* Mutant: the router forgets what it had sent instead of releasing it.
LetGoForgets(keys) ==
    /\ hostDown' = hostDown \ keys
    /\ mods' = {} /\ waiting' = <<>> /\ sentDown' = {}
    /\ UNCHANGED <<fingers, repeats, winAlt>>
    /\ Remember({}, Range(waiting) \cup (hostDown \ hostDown')
                      \cup IF remap.ctrlSuppressed THEN {"ctrl"} ELSE {})

\* release_sent, then for the window procedure release_sticky_keys.
LetGo(keys) ==
    /\ hostDown' = hostDown \ (sentDown \cup keys)
    /\ mods' = {} /\ waiting' = <<>> /\ sentDown' = {}
    /\ UNCHANGED <<fingers, repeats, winAlt>>
    /\ Remember({}, Range(waiting) \cup (hostDown \ hostDown')
                      \cup IF remap.ctrlSuppressed THEN {"ctrl"} ELSE {})

\* The end of run_broker_capture: a local hotkey, a fault or a broken pipe.
RouterEnds == mode = "broker" /\ mode' = "ending" /\ LetGo({}) /\ UNCHANGED <<remap, hooked>>

\* The shell leaves immersive mode: uninstall_keyboard_hook and what follows.
Release ==
    /\ mode # "plain" /\ mode' = "plain"
    /\ LetGo(Sticky) /\ remap' = NoChord /\ hooked' = FreshHook

RouteNext == Repeat \/ Engage \/ RouterEnds \/ Release \/ \E k \in RouteKeys : Goes(k)
RouteSpec == RouteInit /\ [][RouteNext]_routeVars

\* ------------------------------------------------------------ properties

\* The router knows every key it left down on the host, so that its releases
\* at the end of the capture leave none; the others there are the ones the
\* window procedure had put down before it.
RouterTracksHost ==
    mode = "broker" => sentDown \subseteq hostDown \cap fingers /\ hostDown \subseteq sentDown \cup stray

\* A plain key reaches the host after the modifiers held with it, but for
\* those a local hotkey has used up or an earlier capture has let go.
ModifiersFirst ==
    [][mode = "broker" /\ "x" \in hostDown' \ hostDown => (fingers' \cap Modifiers) \subseteq hostDown' \cup lifted']_routeVars

\* No key is down on the host that is not held, whatever changes of owner its
\* chord goes through, but for two: a key that was down when the broker took
\* the keyboard over, whose release the router drops, and a Tab pressed again
\* in a Ctrl+Tab chord, whose release the remap consumes.
OnlyStraysStick == hostDown \subseteq fingers \cup stray

\* Ctrl, Win and a plain key are down on the host while they are held, outside
\* an open Ctrl+Tab chord and the router's wait for the next key; those the
\* client has let go at a change of owner, kept for a local hotkey, or lifted
\* for a chord whose Tab-up the hook then took, come back only with their next
\* edge.
HeldKeysArrive ==
    fingers \cap {"ctrl", "win", "x"} \subseteq
        hostDown \cup lifted \cup Range(waiting) \cup (IF "tab" \in fingers /\ remap.tabDown THEN {"ctrl"} ELSE {})

\* What the user holds is what the host holds through every owner and change
\* of owner, but for the named cases (BrokerRouter, CtrlTabRemap, hook_decision,
\* release_sent, release_sticky_keys).
HostFollowsKeys == RouterTracksHost /\ OnlyStraysStick /\ HeldKeysArrive

=============================================================================
