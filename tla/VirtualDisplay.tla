---------------------------- MODULE VirtualDisplay ----------------------------
(***************************************************************************)
(* parsec-vdd-keepalive: the daemon that keeps one virtual display attached *)
(* by adding it and then pinging the display driver.  The driver is         *)
(* external and modelled from how the daemon uses it: ADD attaches a        *)
(* display and returns its index, REMOVE detaches one, any successful       *)
(* UPDATE keeps all of them, and it detaches them all once it has not been  *)
(* pinged for Watchdog ticks.  A tick is one 100 ms ping period.            *)
(***************************************************************************)
EXTENDS Integers, FiniteSets

CONSTANTS Watchdog,     \* ticks without a ping after which displays go
          Attach,       \* ticks the daemon sleeps after an ADD
          Settle,       \* ticks it pumps messages before the first ping
          MaxFails,     \* consecutive failed pings before the handle is reopened
          Slots,        \* display indices the driver has
          MaxTrouble    \* bound: driver failures and restarts

ASSUME DisplayAssumption ==
    /\ {Watchdog, Attach, Settle} \subseteq Nat /\ Attach + 1 <= Watchdog
    /\ MaxFails \in Nat \ {0} /\ MaxTrouble \in Nat
    /\ Slots # {} /\ Slots \subseteq Nat

VARIABLES daemon,    \* run's place: ensure, settle, loop, cleanup, done
          handle,    \* none, open, or stale (opened before a driver restart)
          idx,       \* the index the daemon believes it holds, -1 = none
          fails,     \* consecutive failed pings
          testing,   \* --test: a deadline will end the loop
          displays,  \* driver: attached indices
          unpinged,     \* driver: ticks since the last successful ping
          trouble,
          muddled    \* history: since the display was added to an empty driver, a
                     \* call was reported failed, the driver was restarted or
                     \* emptied, or the pause before the first ping was too long

displayVars == <<daemon, handle, idx, fails, testing, displays, unpinged, trouble, muddled>>

DisplayInit ==
    /\ daemon = "ensure" /\ handle = "none" /\ idx = -1 /\ fails = 0
    /\ testing \in BOOLEAN /\ displays = {} /\ unpinged = 0
    /\ trouble = 0 /\ muddled = FALSE

-----------------------------------------------------------------------------
\* ----- the driver

PingPeriodLong == Watchdog + 1
PingPeriod == 1

(* n ticks pass after `since` ticks without a ping, with the displays      *)
(* `before` attached: once the driver has been quiet for too long it may   *)
(* let them go.                                                            *)
Elapse(since, n, before) ==
    /\ unpinged' = IF since + n > Watchdog THEN Watchdog + 1 ELSE since + n
    /\ displays' \in {before} \union (IF since + n > Watchdog THEN {{}} ELSE {})

Free == Slots \ displays
NextIndex == CHOOSE i \in Free : \A j \in Free : i <= j

(* The driver restarts (resume from sleep, driver update): displays and    *)
(* handles of before are void.                                             *)
DriverRestarts ==
    /\ daemon \in {"settle", "loop"} /\ trouble < MaxTrouble /\ trouble' = trouble + 1
    /\ handle' = IF handle = "open" THEN "stale" ELSE handle
    /\ displays' = {} /\ unpinged' = 0 /\ muddled' = TRUE
    /\ UNCHANGED <<daemon, idx, fails, testing>>

-----------------------------------------------------------------------------
\* ----- ensure

(* Where a failing ensure leaves run: the test gives up on the first one,  *)
(* the daemon tries again from its loop.                                   *)
AfterEnsure(ok) ==
    CASE daemon = "ensure" /\ ~ok /\ testing -> "done"
      [] daemon = "ensure" /\ (ok \/ ~testing) -> "settle"
      [] OTHER -> "loop"

(* open_device fails. *)
OpenFails ==
    /\ handle = "none" /\ trouble < MaxTrouble /\ trouble' = trouble + 1
    /\ daemon' = AfterEnsure(FALSE) /\ fails' = fails
    /\ UNCHANGED <<handle, idx>>
    /\ Elapse(unpinged, 1, displays) /\ UNCHANGED muddled

(* The handle opens and ADD attaches the lowest free index; the ping that  *)
(* follows it succeeds, and the daemon then sleeps.                        *)
AddSucceeds ==
    /\ Free # {}
    /\ handle' = "open" /\ idx' = NextIndex
    /\ daemon' = AfterEnsure(TRUE)
    /\ Elapse(0, Attach + (IF daemon = "loop" THEN PingPeriod ELSE 0), displays \union {NextIndex})
    /\ muddled' = (muddled /\ displays # {})
    /\ UNCHANGED <<fails, trouble>>

(* The ping that follows the ADD fails, at once or after its timeout: its  *)
(* result is not looked at.                                                *)
AddUnpinged ==
    /\ Free # {} /\ trouble < MaxTrouble /\ trouble' = trouble + 1
    /\ handle' = "open" /\ idx' = NextIndex
    /\ daemon' = AfterEnsure(TRUE)
    /\ \E n \in {Attach, Attach + Watchdog + 1} : Elapse(unpinged, n, displays \union {NextIndex})
    /\ muddled' = TRUE
    /\ UNCHANGED fails

(* ADD is reported failed: refused, or timed out, with the cancel coming   *)
(* too late to undo the attach.  The handle is closed.                     *)
AddFails ==
    /\ trouble < MaxTrouble /\ trouble' = trouble + 1
    /\ \E after \in {displays} \union {displays \union {i} : i \in Free} :
          Elapse(unpinged, 1, after)
    /\ muddled' = TRUE
    /\ handle' = "none" /\ idx' = -1
    /\ daemon' = AfterEnsure(FALSE)
    /\ UNCHANGED fails

Ensure ==
    /\ daemon = "ensure" \/ (daemon = "loop" /\ (handle = "none" \/ idx < 0))
    /\ OpenFails \/ AddSucceeds \/ AddUnpinged \/ AddFails
    /\ UNCHANGED testing

(* Twelve pumps of 80 ms before the first ping. *)
SettlePump ==
    /\ daemon = "settle" /\ daemon' = "loop"
    /\ Elapse(unpinged, Settle, displays)
    /\ muddled' = (muddled \/ unpinged + Settle > Watchdog)
    /\ UNCHANGED <<handle, idx, fails, testing, trouble>>

-----------------------------------------------------------------------------
\* ----- the ping loop

Ping ==
    /\ daemon = "loop" /\ handle = "open" /\ idx >= 0
    /\ fails' = 0
    /\ Elapse(0, PingPeriod, displays)
    /\ UNCHANGED <<daemon, handle, idx, testing, trouble, muddled>>

(* A ping that fails: at once, or after its one-second timeout.  The third *)
(* in a row closes the handle and forgets the index; ensure then runs from *)
(* the same iteration (here: from the next, nothing happens in between).   *)
PingFails ==
    /\ daemon = "loop" /\ handle # "none" /\ idx >= 0
    /\ handle = "stale" \/ trouble < MaxTrouble
    /\ trouble' = IF handle = "stale" THEN trouble ELSE trouble + 1
    /\ \E n \in {PingPeriod, Watchdog + 1} : Elapse(unpinged, n, displays)
    /\ muddled' = TRUE
    /\ IF fails + 1 >= MaxFails
         THEN handle' = "none" /\ idx' = -1 /\ fails' = 0
         ELSE fails' = fails + 1 /\ UNCHANGED <<handle, idx>>
    /\ UNCHANGED <<daemon, testing>>

(* The deadline of a test ends the loop; its own display is removed.  A    *)
(* REMOVE that is reported failed is not retried.                          *)
Deadline ==
    /\ daemon = "loop" /\ testing
    /\ daemon' = "done"
    /\ \/ displays' = IF handle = "open" THEN displays \ {idx} ELSE displays
       \/ trouble < MaxTrouble /\ displays' = displays
    /\ handle' = IF idx >= 0 THEN "none" ELSE handle
    /\ unpinged' = 0 /\ idx' = -1 /\ fails' = 0
    /\ UNCHANGED <<testing, trouble, muddled>>

(* parsec-vdd-keepalive --remove-all, run beside the daemon. *)
RemoveAll ==
    /\ trouble < MaxTrouble /\ trouble' = trouble + 1
    /\ displays # {} /\ displays' = {} /\ unpinged' = 0 /\ muddled' = TRUE
    /\ UNCHANGED <<daemon, handle, idx, fails, testing>>

DisplayNext ==
    \/ DriverRestarts \/ Ensure \/ SettlePump \/ Ping \/ PingFails \/ Deadline
    \/ RemoveAll

DisplaySpec == DisplayInit /\ [][DisplayNext]_displayVars

-----------------------------------------------------------------------------
\* ----- properties

(* The daemon never holds on to more than the display it knows of: a       *)
(* second one, or one under another index, takes an ADD or a ping whose    *)
(* outcome it was told wrong.  (Its pings then keep that display too.)     *)
StrayNeedsMuddle ==
    ~muddled /\ daemon # "done" => displays \subseteq {idx}

(* The ping loop by itself never lets its display go: a daemon that holds a *)
(* handle and an index has a display, unless a call failed, the driver was *)
(* restarted or emptied, or the display was still waiting for the first    *)
(* ping of the process.                                                    *)
LoopKeepsDisplay ==
    daemon = "loop" /\ handle = "open" /\ idx >= 0 /\ ~muddled => displays # {}

\* The daemon keeps exactly its display (parsec-vdd-keepalive run).
DisplayKept == StrayNeedsMuddle /\ LoopKeepsDisplay

=============================================================================
