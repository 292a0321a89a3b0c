------------------------------ MODULE StreamPath ------------------------------
(***************************************************************************)
(* The streamer process, checked side by side: its sessions and            *)
(* transports, the task that applies the composed bitrate, and the bytes   *)
(* its FEC and its input channels carry.  In a behaviour only the part in  *)
(* focus moves.                                                            *)
(***************************************************************************)
EXTENDS StreamerSession, BitrateApply, FecWire, InputWire

VARIABLE focus

pathVars == <<focus, streamerVars, applyVars, wireVars, inputWireVars>>

\* The 16-bit values and the texts tried: signs and edges, and characters of one
\* and three bytes, up to one more than a length byte counts.
SignedEdges == {-32768, -2, 0, 300, 32767}
SomeTexts ==
    {<< >>, <<65>>, <<237, 149, 156, 65, 234, 184, 128>>, [i \in 1..256 |-> 65]}

PathInit ==
    /\ focus \in {"streamer", "apply", "fecwire", "inputwire"}
    /\ StreamerInit /\ ApplyInit /\ WireInit /\ InputWireInit
    /\ focus # "streamer" => may = CHOOSE m \in Modes : TRUE
    /\ focus # "apply" => tracked /\ abrKbps = Ceiling

StreamerTurn ==
    focus = "streamer" /\ StreamerNext /\ UNCHANGED <<focus, applyVars, wireVars, inputWireVars>>
ApplyTurn ==
    focus = "apply" /\ ApplyNext /\ UNCHANGED <<focus, streamerVars, wireVars, inputWireVars>>
FecWireTurn ==
    focus = "fecwire" /\ WireNext /\ UNCHANGED <<focus, streamerVars, applyVars, inputWireVars>>
InputWireTurn ==
    focus = "inputwire" /\ InputWireNext /\ UNCHANGED <<focus, streamerVars, applyVars, wireVars>>

PathNext == StreamerTurn \/ ApplyTurn \/ FecWireTurn \/ InputWireTurn

\* StreamerFairness and ApplyFairness, each while its part is in focus.
StreamerRuns(A) ==
    focus = "streamer" /\ A /\ UNCHANGED <<focus, applyVars, wireVars, inputWireVars>>

PathSpec ==
    /\ PathInit /\ [][PathNext]_pathVars
    /\ WF_pathVars(StreamerRuns(ws = "closed" /\ WsLoopEnds)) /\ WF_pathVars(StreamerRuns(Relay))
    /\ WF_pathVars(StreamerRuns(StopCloses)) /\ WF_pathVars(StreamerRuns(StopFinishes))
    /\ WF_pathVars(StreamerRuns(IpcRecv \/ IpcEnds \/ IpcInstallFails))
    /\ WF_pathVars(StreamerRuns(IpcDelivers)) /\ WF_pathVars(StreamerRuns(IpcBlocks))
    /\ WF_pathVars(StreamerRuns(IpcClosesOld))
    /\ WF_pathVars(StreamerRuns(\E k \in Kinds : IpcInstalls(k)))
    /\ \A i \in Ids : WF_pathVars(StreamerRuns(Listener(i)))
    /\ WF_pathVars(StreamerRuns(MediaGivesUp \/ \E m \in {"ipc", "terminated"} : media = m /\ MediaSends(m)))
    /\ WF_pathVars(StreamerRuns(HostCallsStop)) /\ WF_pathVars(StreamerRuns(MainSendsSetup))
    /\ WF_pathVars(focus = "apply" /\ Tick /\ UNCHANGED <<focus, streamerVars, wireVars, inputWireVars>>)

\* ------------------------------------------------------------ properties

\* What is owed comes: a streamer whose client's socket is closed ends or is
\* killed (Reaped), and the apply task asks again and again for a rate near
\* its target (Settles), unless the host cannot or the send fails.
Owed == focus = "apply" \/ ws = "closed"
Given == IF focus = "apply" THEN NearTarget ELSE ~Up
StreamerSettles == Owed ~> Given

\* What the streamer and its client put on the wire is what the other reads.
WiresFaithful == WireFaithful /\ InputFaithful

=============================================================================
