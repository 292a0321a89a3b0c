----------------------------- MODULE KeepsRunning -----------------------------
(***************************************************************************)
(* What must survive on the two machines, checked side by side: on the     *)
(* client the frame reassembly and the audio threads; on the host the      *)
(* Foundation process, the identity migration, the update swap, the        *)
(* virtual display and the authority over the desktop.  In a behaviour     *)
(* only the part in focus moves.                                           *)
(***************************************************************************)
EXTENDS VideoReceiver, HostRole, Installation, VirtualDisplay, HostAuthority, AudioPlayout

VARIABLE focus

runningVars ==
    <<focus, receiverVars, roleVars, migrationVars, swapVars, displayVars, authorityVars, audioVars>>

RunningInit ==
    /\ focus \in {"receiver", "role", "migration", "swap", "display", "authority", "audio"}
    /\ ReceiverInit /\ RoleInit /\ MigrationInit /\ SwapInit /\ DisplayInit /\ AuthorityInit /\ AudioInit
    /\ focus # "role" => role = "Client"
    /\ focus # "migration" => disk.dest = All("none")
    /\ focus # "swap" => install = NoSet /\ incoming = CHOOSE v \in Versions : TRUE
    /\ focus # "display" => ~testing
    /\ focus # "authority" => desk = "lease"
    /\ focus # "audio" => endpoint /\ ~delayed

ReceiverTurn == focus = "receiver" /\ ReceiverNext
    /\ UNCHANGED <<focus, roleVars, migrationVars, swapVars, displayVars, authorityVars, audioVars>>
RoleTurn == focus = "role" /\ RoleNext
    /\ UNCHANGED <<focus, receiverVars, migrationVars, swapVars, displayVars, authorityVars, audioVars>>
MigrationTurn == focus = "migration" /\ MigrationNext
    /\ UNCHANGED <<focus, receiverVars, roleVars, swapVars, displayVars, authorityVars, audioVars>>
SwapTurn == focus = "swap" /\ SwapNext
    /\ UNCHANGED <<focus, receiverVars, roleVars, migrationVars, displayVars, authorityVars, audioVars>>
DisplayTurn == focus = "display" /\ DisplayNext
    /\ UNCHANGED <<focus, receiverVars, roleVars, migrationVars, swapVars, authorityVars, audioVars>>
AuthorityTurn == focus = "authority" /\ AuthorityNext
    /\ UNCHANGED <<focus, receiverVars, roleVars, migrationVars, swapVars, displayVars, audioVars>>
AudioTurn == focus = "audio" /\ AudioNext
    /\ UNCHANGED <<focus, receiverVars, roleVars, migrationVars, swapVars, displayVars, authorityVars>>

RunningNext ==
    \/ ReceiverTurn \/ RoleTurn \/ MigrationTurn \/ SwapTurn
    \/ DisplayTurn \/ AuthorityTurn \/ AudioTurn

\* Of the part in focus: timers fire and time passes (receiver); frames are
\* drawn, threads run and spawn calls return, wait_ready having a deadline
\* (role); the boot thread runs and a wanted host is started again
\* (migration); a run that is not stopped goes on and the operator runs the
\* command again (swap); the keepalive loop goes on and the driver stops
\* failing (display); threads run and stop() carries on (audio).  Nothing is
\* assumed of users, processes, devices or the network.
Role(A) == focus = "role" /\ A
Audio(A) == focus = "audio" /\ A

RunningSpec ==
    /\ RunningInit /\ [][RunningNext]_runningVars
    /\ WF_receiverVars(focus = "receiver" /\ TickEvents) /\ WF_receiverVars(focus = "receiver" /\ Clock)
    /\ WF_roleVars(Role(PollHostStarting)) /\ WF_roleVars(Role(HostStop)) /\ WF_roleVars(Role(RestartHost))
    /\ \A h \in Hosts : /\ WF_roleVars(Role(Boot(h))) /\ WF_roleVars(Role(Monitor(h)))
                        /\ WF_roleVars(Role(CommitFailed(h) \/ CommitSpawned(h)))
                        /\ WF_roleVars(Role(BackoffEnds(h)))
    /\ WF_migrationVars(focus = "migration"
          /\ (StartMigration \/ BackUp \/ StageParts \/ Verify \/ SwitchOver \/ Rollback))
    /\ WF_swapVars(focus = "swap" /\ RunSwap) /\ WF_swapVars(focus = "swap" /\ PerformSwap)
    /\ WF_displayVars(focus = "display" /\ Ensure /\ trouble' = trouble)
    /\ WF_displayVars(focus = "display" /\ SettlePump) /\ WF_displayVars(focus = "display" /\ Ping)
    /\ WF_displayVars(focus = "display" /\ PingFails /\ trouble' = trouble)
    /\ WF_audioVars(Audio(Run)) /\ WF_audioVars(Audio(SharedIteration)) /\ WF_audioVars(Audio(SharedStop))
    /\ WF_audioVars(Audio(ExclusiveIteration)) /\ WF_audioVars(Audio(ExclusiveFallback))
    /\ WF_audioVars(Audio(ExclusiveStop)) /\ WF_audioVars(Audio(RenderStops))
    /\ WF_audioVars(Audio(CloseCore)) /\ WF_audioVars(Audio(RetryElapses))

\* ------------------------------------------------------------ properties

\* What is owed in a state, and what settles it.
Owed ==
    \/ focus = "receiver" /\ rx.completed # <<>>
    \/ focus = "role" /\ ~RoleWantsHost(role)
    \/ focus = "migration"
    \/ focus = "swap" /\ Exists(staged)
    \/ focus = "display" /\ daemon = "loop" /\ ~testing /\ (handle # "open" \/ idx < 0)
    \/ focus = "audio" /\ quit

Settled ==
    \/ focus = "receiver" /\ rx.completed = <<>>
    \/ focus = "role" /\ (RoleWantsHost(role) \/ (slot = 0 /\ starting = 0 /\ procs = {}))
    \/ focus = "migration" /\ nextStep = "up"
    \/ focus = "swap" /\ (~Exists(staged) \/ journal = Torn)
    \/ focus = "display" /\ (displays # {} \/ (idx >= 0 /\ unpinged > Watchdog))
    \/ focus = "audio" /\ audioMode = "done" /\ render # "running"

\* Both machines keep going by themselves: a completed frame is emitted or
\* given up with a discontinuity; the client role takes every Host and
\* Foundation down, even in the middle of a boot; after finitely many errors
\* and crashes a start gets through the migration; a staged update is
\* installed, unless a stop cut the journal short; a daemon that lost its
\* handle or its index attaches a display again, and loses it at once only if
\* the ping after its ADD took longer than the watchdog; a stopped session's audio
\* threads end; and a crashed Foundation is respawned or its budget is spent.
KeepsGoing == (Owed ~> Settled) /\ (focus = "role" => CrashAnswered)

=============================================================================
