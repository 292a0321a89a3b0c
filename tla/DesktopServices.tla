---------------------------- MODULE DesktopServices ----------------------------
(***************************************************************************)
(* The services around the video stream, checked side by side: the web     *)
(* server's store and login limiter, the clipboards, the cursor channel,   *)
(* the desktop-control protocol with file transfer, and the QU overlay.    *)
(* In a behaviour only the service in focus moves.                         *)
(***************************************************************************)
EXTENDS WebStore, LoginLimiter, Clipboard, CursorChannel, DesktopControl, QuOverlay

VARIABLE focus

\* Requests in flight are interchangeable: nothing chooses between them.
RequestSymmetry == Permutations(Tasks)

servicesVars == <<focus, storeVars, limiterVars, clipVars, cursorVars, desktopVars, quVars>>

ServicesInit ==
    /\ focus \in {"store", "limiter", "clipboard", "cursor", "desktop", "overlay"}
    /\ StoreInit /\ LimiterInit /\ ClipInit /\ CursorInit /\ DesktopInit /\ QuInit
    /\ focus # "store" => users = << >>
    /\ focus # "clipboard" => hostClip = NoText
    /\ focus # "cursor" => cursor.vis /\ viewer = "page"
    /\ focus # "desktop" => lane = "cursor"

StoreTurn == focus = "store" /\ StoreNext
    /\ UNCHANGED <<focus, limiterVars, clipVars, cursorVars, desktopVars, quVars>>
LimiterTurn == focus = "limiter" /\ LimiterNext
    /\ UNCHANGED <<focus, storeVars, clipVars, cursorVars, desktopVars, quVars>>
ClipboardTurn == focus = "clipboard" /\ ClipNext
    /\ UNCHANGED <<focus, storeVars, limiterVars, cursorVars, desktopVars, quVars>>
CursorTurn == focus = "cursor" /\ CursorNext
    /\ UNCHANGED <<focus, storeVars, limiterVars, clipVars, desktopVars, quVars>>
DesktopTurn == focus = "desktop" /\ DesktopNext
    /\ UNCHANGED <<focus, storeVars, limiterVars, clipVars, cursorVars, quVars>>
OverlayTurn == focus = "overlay" /\ QuNext
    /\ UNCHANGED <<focus, storeVars, limiterVars, clipVars, cursorVars, desktopVars>>

ServicesNext ==
    \/ StoreTurn \/ LimiterTurn \/ ClipboardTurn \/ CursorTurn \/ DesktopTurn \/ OverlayTurn

ServicesSpec == ServicesInit /\ [][ServicesNext]_servicesVars

\* ------------------------------------------------------------ properties

\* The web server under concurrent requests: the store's races are bounded and
\* the login limiter is fair.
ServerConsistent == StoreRacesBounded /\ LimiterFair

\* What no step does: add a first admin beside a user who was there when it
\* looked, let a blocked address try again within its window while the map has
\* room, or flip the pointer lock with a flickering cursor.
StepsJustified == FirstLoginJoinsNobody /\ BlockKept /\ NoLockThrash

=============================================================================
