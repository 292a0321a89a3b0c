------------------------------ MODULE HostMedia ------------------------------
(***************************************************************************)
(* The two sides of the streamer's media path, checked side by side: the   *)
(* video track that feeds the FEC sender, and the congestion controller    *)
(* fed by what the sender measures.  In a behaviour only the part in focus *)
(* moves.                                                                  *)
(***************************************************************************)
EXTENDS HostVideo, CongestionControl

VARIABLE focus

mediaVars == <<focus, hostVideoVars, ccVars>>

MediaInit ==
    /\ focus \in {"video", "cc"} /\ HostVideoInit /\ CcInit
    /\ focus # "video" => mode = CHOOSE m \in Modes : TRUE

VideoTurn == focus = "video" /\ HostVideoNext /\ UNCHANGED <<focus, ccVars>>
CcTurn == focus = "cc" /\ CcNext /\ UNCHANGED <<focus, hostVideoVars>>

MediaNext == VideoTurn \/ CcTurn

MediaSpec == MediaInit /\ [][MediaNext]_mediaVars

=============================================================================
