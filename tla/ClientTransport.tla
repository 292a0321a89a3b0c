--------------------------- MODULE ClientTransport ---------------------------
(***************************************************************************)
(* The transport of the two clients, checked side by side: the FEC window  *)
(* of the native and the browser decoder, the native session with its      *)
(* watchdogs, the browser tab's session and its decode pipe.  In a         *)
(* behaviour only the part in focus moves.                                 *)
(***************************************************************************)
EXTENDS BrowserFec, ClientSession, BrowserSession, BrowserVideo

VARIABLE focus

transportVars == <<focus, portVars, sessionVars, browserVars, bvVars>>

TransportInit ==
    /\ focus \in {"fec", "session", "tab", "pipe"}
    /\ PortInit /\ SessionInit /\ BrowserInit /\ BvInit
    /\ focus # "fec" => port = "native" /\ start = CHOOSE b \in Bases : TRUE
    /\ focus # "session" => trouble = CHOOSE t \in Troubles : TRUE
    /\ focus # "tab" => desired = "auto" /\ ~hidden
    /\ focus # "pipe" => px.version = 2

FecTurn == focus = "fec" /\ PortNext /\ UNCHANGED <<focus, sessionVars, browserVars, bvVars>>
SessionTurn == focus = "session" /\ SessionNext /\ UNCHANGED <<focus, portVars, browserVars, bvVars>>
TabTurn == focus = "tab" /\ BrowserNext /\ UNCHANGED <<focus, portVars, sessionVars, bvVars>>
PipeTurn == focus = "pipe" /\ BvNext /\ UNCHANGED <<focus, portVars, sessionVars, browserVars>>

TransportNext == FecTurn \/ SessionTurn \/ TabTurn \/ PipeTurn
TransportSpec == TransportInit /\ [][TransportNext]_transportVars

=============================================================================
