----------------------------- MODULE ClientPaths -----------------------------
(***************************************************************************)
(* The native client's paths, checked side by side: pictures in (the       *)
(* receiver core and its frame queue, the C interface over them, and the   *)
(* present thread) and keys out (who owns the keyboard, what the filter    *)
(* driver does with each record, and what the host sees of each key).  In  *)
(* a behaviour only the part in focus moves.                               *)
(***************************************************************************)
EXTENDS RxCore, InputCapture, KeyboardFilter, KeyRouting, ReceiverApi, PresentThread

VARIABLE focus

pathsVars == <<focus, vars, inputVars, filterVars, routeVars, apiVars, presentVars>>

PathsInit ==
    /\ focus \in {"core", "capture", "filter", "routing", "api", "present"}
    /\ Init /\ InputInit /\ FilterInit /\ RouteInit /\ ApiInit /\ PresentInit
    /\ focus # "present" => hw

CoreTurn ==
    /\ focus = "core" /\ Next
    /\ UNCHANGED <<focus, inputVars, filterVars, routeVars, apiVars, presentVars>>
CaptureTurn ==
    /\ focus = "capture" /\ InputNext
    /\ UNCHANGED <<focus, vars, filterVars, routeVars, apiVars, presentVars>>
FilterTurn ==
    /\ focus = "filter" /\ FilterNext
    /\ UNCHANGED <<focus, vars, inputVars, routeVars, apiVars, presentVars>>
RoutingTurn ==
    /\ focus = "routing" /\ RouteNext
    /\ UNCHANGED <<focus, vars, inputVars, filterVars, apiVars, presentVars>>
ApiTurn ==
    /\ focus = "api" /\ ApiNext
    /\ UNCHANGED <<focus, vars, inputVars, filterVars, routeVars, presentVars>>
PresentTurn ==
    /\ focus = "present" /\ PresentNext
    /\ UNCHANGED <<focus, vars, inputVars, filterVars, routeVars, apiVars>>

PathsNext == CoreTurn \/ CaptureTurn \/ FilterTurn \/ RoutingTurn \/ ApiTurn \/ PresentTurn
PathsSpec == PathsInit /\ [][PathsNext]_pathsVars

\* ------------------------------------------------------------ properties

\* A key never overtakes the modifiers it was pressed with, neither on its way
\* through the filter to Windows nor through the router to the host.
KeyOrderKept == ChordNotSplit /\ ModifiersFirst

=============================================================================
