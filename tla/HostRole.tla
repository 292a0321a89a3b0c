------------------------------ MODULE HostRole ------------------------------
(***************************************************************************)
(* The host role of the native app: the shell's role switch and background *)
(* boot (app-native/src/main.rs), the Host it boots (host.rs) and the      *)
(* supervisor of the one Foundation process (supervisor.rs, sunshine.rs).  *)
(*                                                                         *)
(* Three kinds of thread run here: the UI thread, which switches roles and *)
(* blocks in Host::stop; the boot thread of each Host; and the monitor     *)
(* thread of each Host, which polls the supervisor.  Spawning a process    *)
(* takes seconds and runs without the supervisor's mutex.                  *)
(*                                                                         *)
(* Time is abstracted: a backoff ends, and a recorded restart leaves the   *)
(* rolling window, at any moment.                                          *)
(***************************************************************************)
EXTENDS Naturals, FiniteSets

CONSTANTS MaxRestarts,   \* RestartBudget::max_restarts
          MaxHosts,      \* bound on the Hosts booted in one run
          MaxPids        \* bound on the Foundation processes launched

ASSUME HostAssumption == {MaxRestarts, MaxHosts, MaxPids} \subseteq Nat

VARIABLES
    role,       \* settings.role
    slot,       \* App::host, 0 for None
    starting,   \* App::host_starting: the Host whose boot is pending, or 0
    ui,         \* what the UI thread is blocked in
    phase,      \* of each Host's boot: see BootPhases
    shutdown,   \* Host::monitor_shutdown
    mon,        \* where each monitor thread is
    sup,        \* each FoundationSupervisor's Inner
    launching,  \* the process a spawn call has launched but not returned, or 0
    procs,      \* the Foundation processes that are alive
    launched    \* processes launched so far

roleVars == <<role, slot, starting, ui, phase, shutdown, mon, sup, launching, procs,
          launched>>
shellVars == <<role, slot, starting, ui>>

Hosts == 1..MaxHosts
Roles == {"Client", "Host", "Both"}
BootPhases == {"none", "boot", "spawn", "monitor", "ready", "failed", "up", "down"}
MonitorPcs == {"off", "top", "poll", "terminal", "spawn", "done"}
States == {"Stopped", "Starting", "Healthy", "Degraded", "Restarting", "Failed"}

RoleWantsHost(r) == r \in {"Host", "Both"}
IdleUi == [pc |-> "idle", host |-> 0, then_start |-> FALSE]

RoleInit ==
    /\ role \in Roles
    /\ slot = 0 /\ starting = 0 /\ ui = IdleUi
    /\ phase = [h \in Hosts |-> "none"]
    /\ shutdown = [h \in Hosts |-> FALSE]
    /\ mon = [h \in Hosts |-> "off"]
    /\ sup = [h \in Hosts |-> [state |-> "Stopped", child |-> 0, attempts |-> 0,
                               server_alive |-> TRUE, due |-> TRUE,
                               spawning |-> FALSE]]
    /\ launching = [h \in Hosts |-> 0]
    /\ procs = {} /\ launched = 0

-----------------------------------------------------------------------------
(* The shell, on the UI thread.                                            *)

NextHost == { h \in Hosts : /\ phase[h] = "none"
                            /\ \A g \in Hosts : g < h => phase[g] # "none" }

\* Mutant: a second boot replaces the pending one.
StartHostAgain ==
    \E h \in NextHost :
        starting' = h /\ phase' = [phase EXCEPT ![h] = "boot"]

\* start_host: nothing if a boot is pending; the boot thread may not start.
StartHost ==
    \/ UNCHANGED <<starting, phase>>
    \/ /\ starting = 0
       /\ \E h \in NextHost :
             starting' = h /\ phase' = [phase EXCEPT ![h] = "boot"]

\* Host::stop, first half: the monitor is told to end and is joined.
BeginStop(h, then_start) ==
    /\ ui' = [pc |-> "join", host |-> h, then_start |-> then_start]
    /\ shutdown' = [shutdown EXCEPT ![h] = TRUE]

\* The automatic boot of App::new and "Retry host start".
ClickStart ==
    /\ ui.pc = "idle" /\ slot = 0 /\ starting = 0 /\ RoleWantsHost(role)
    /\ StartHost
    /\ UNCHANGED <<role, slot, ui, shutdown, mon, sup, launching, procs, launched>>

\* "Restart host", first half: the UI thread stops the old Host.
ClickRestart ==
    /\ ui.pc = "idle" /\ slot # 0 /\ starting = 0
    /\ slot' = 0
    /\ BeginStop(slot, TRUE)
    /\ UNCHANGED <<role, starting, phase, mon, sup, launching, procs, launched>>

\* The role selector: role_transition and apply_role_action.
SwitchRole(r) ==
    LET from == RoleWantsHost(role)
        to   == RoleWantsHost(r)
    IN  /\ ui.pc = "idle" /\ r # role
        /\ role' = r
        /\ \/ /\ ~from /\ to
              /\ StartHost
              /\ UNCHANGED <<slot, ui, shutdown>>
           \/ /\ from /\ ~to /\ slot # 0
              /\ slot' = 0
              /\ BeginStop(slot, FALSE)
              /\ UNCHANGED <<starting, phase>>
           \/ /\ from = to \/ (from /\ slot = 0)
              /\ UNCHANGED <<slot, starting, ui, phase, shutdown>>
        /\ UNCHANGED <<mon, sup, launching, procs, launched>>

\* apply_host_delivery: installed if it is still wanted, else stopped.
ApplyHostDelivery(h) ==
    LET install == RoleWantsHost(role) /\ slot = 0 IN
    /\ phase' = [phase EXCEPT ![h] = "up"]
    /\ \/ install /\ slot' = h /\ UNCHANGED <<ui, shutdown>>
       \/ ~install /\ BeginStop(h, FALSE) /\ UNCHANGED slot

PollHostStarting ==
    /\ ui.pc = "idle" /\ starting # 0
    /\ starting' = 0
    /\ \/ phase[starting] = "ready" /\ ApplyHostDelivery(starting)
       \/ phase[starting] = "failed" /\ UNCHANGED <<phase, slot, ui, shutdown>>
    /\ UNCHANGED <<role, mon, sup, launching, procs, launched>>

\* Host::stop, second half: the monitor has ended, FoundationSupervisor::stop
\* kills the child and leaves no deadline behind.
HostStop ==
    /\ ui.pc = "join"
    /\ mon[ui.host] \in {"off", "done"}
    /\ procs' = procs \ {sup[ui.host].child}
    /\ sup' = [sup EXCEPT ![ui.host].child = 0, ![ui.host].state = "Stopped",
                          ![ui.host].due = TRUE]
    /\ phase' = [phase EXCEPT ![ui.host] = "down"]
    /\ ui' = IF ui.then_start THEN [ui EXCEPT !.pc = "start"] ELSE IdleUi
    /\ UNCHANGED <<role, slot, starting, shutdown, mon, launching, launched>>

\* "Restart host" boots again once the old Host is stopped.
RestartHost ==
    /\ ui.pc = "start"
    /\ StartHost
    /\ ui' = IdleUi
    /\ UNCHANGED <<role, slot, shutdown, mon, sup, launching, procs, launched>>

-----------------------------------------------------------------------------
(* FoundationSupervisor: the spawn call, made by the boot thread or by the *)
(* monitor with the mutex released.                                        *)

Spawning(h) == phase[h] = "spawn" \/ mon[h] = "spawn"

\* Where the thread that spawned continues.
SpawnReturns(h) ==
    IF phase[h] = "spawn"
    THEN phase' = [phase EXCEPT ![h] = "monitor"] /\ UNCHANGED mon
    ELSE mon' = [mon EXCEPT ![h] = "top"] /\ UNCHANGED phase

DeriveUpState(s) == IF s.server_alive THEN "Healthy" ELSE "Degraded"

\* RestartBudget::record_and_check at `attempts` in the window.
RecordAndCheck(s) ==
    IF s.attempts < MaxRestarts
    THEN [s EXCEPT !.attempts = @ + 1, !.state = "Restarting", !.due = FALSE]
    ELSE [s EXCEPT !.state = "Failed"]

\* The process exists from here on; it is not tracked before the commit.
Launch(h) ==
    /\ Spawning(h) /\ launching[h] = 0 /\ launched < MaxPids
    /\ launched' = launched + 1
    /\ launching' = [launching EXCEPT ![h] = launched + 1]
    /\ procs' = procs \cup {launched + 1}
    /\ UNCHANGED <<shellVars, phase, shutdown, mon, sup>>

\* commit_spawn_result, Ok: the process accepted connections.
CommitSpawned(h) ==
    /\ Spawning(h) /\ launching[h] \in procs
    /\ launching' = [launching EXCEPT ![h] = 0]
    /\ sup' = [sup EXCEPT ![h].spawning = FALSE, ![h].child = launching[h],
                          ![h].state = DeriveUpState(sup[h])]
    /\ SpawnReturns(h)
    /\ UNCHANGED <<shellVars, shutdown, procs, launched>>

\* commit_spawn_result, Err: nothing was launched, or what was launched exited
\* or did not become ready and has been killed.  A respawn that failed is
\* retried within the budget.
CommitFailed(h) ==
    /\ Spawning(h)
    /\ launching' = [launching EXCEPT ![h] = 0]
    /\ procs' = procs \ {launching[h]}
    /\ sup' = [sup EXCEPT ![h] =
                 LET s == [@ EXCEPT !.spawning = FALSE] IN
                 IF s.state = "Restarting" THEN RecordAndCheck(s)
                 ELSE [s EXCEPT !.state = "Failed"]]
    /\ SpawnReturns(h)
    /\ UNCHANGED <<shellVars, shutdown, launched>>

-----------------------------------------------------------------------------
(* host::start, on the boot thread.                                        *)

\* Configuration, identity migration or the server's port bind fails.
BootFails(h) ==
    /\ phase[h] = "boot"
    /\ phase' = [phase EXCEPT ![h] = "failed"]
    /\ UNCHANGED <<shellVars, shutdown, mon, sup, launching, procs, launched>>

\* The server is up; Foundation is started if it is staged.
BootServer(h) ==
    /\ phase[h] = "boot"
    /\ \/ /\ phase' = [phase EXCEPT ![h] = "monitor"]
          /\ UNCHANGED sup
       \/ /\ phase' = [phase EXCEPT ![h] = "spawn"]
          /\ sup' = [sup EXCEPT ![h].spawning = TRUE, ![h].state = "Starting"]
    /\ UNCHANGED <<shellVars, shutdown, mon, launching, procs, launched>>

\* The monitor thread is started (or cannot be) and the Host is delivered.
BootMonitor(h) ==
    /\ phase[h] = "monitor"
    /\ phase' = [phase EXCEPT ![h] = "ready"]
    /\ mon' \in { [mon EXCEPT ![h] = pc] : pc \in {"top", "off"} }
    /\ UNCHANGED <<shellVars, shutdown, sup, launching, procs, launched>>

Boot(h) == BootFails(h) \/ BootServer(h) \/ BootMonitor(h)

-----------------------------------------------------------------------------
(* The monitor thread.                                                     *)

\* The head of the loop: the probe's verdict is noted unless it must end.
NoteEmbeddedServerAlive(h) ==
    /\ mon[h] = "top"
    /\ \/ /\ shutdown[h]
          /\ mon' = [mon EXCEPT ![h] = "done"]
          /\ UNCHANGED sup
       \/ /\ ~shutdown[h]
          /\ mon' = [mon EXCEPT ![h] = "poll"]
          /\ \E alive \in BOOLEAN :
                sup' = [sup EXCEPT ![h] =
                          LET s == [@ EXCEPT !.server_alive = alive] IN
                          IF s.child # 0 /\ s.state \in {"Healthy", "Degraded"}
                          THEN [s EXCEPT !.state = DeriveUpState(s)] ELSE s]
    /\ UNCHANGED <<shellVars, phase, shutdown, launching, procs, launched>>

\* poll_at, one disjunct per return or unlock.
Poll(h) ==
    /\ mon[h] = "poll"
    /\ \/ /\ sup[h].child \in procs                  \* the child runs
          /\ sup' = [sup EXCEPT ![h].state = DeriveUpState(sup[h])]
          /\ mon' = [mon EXCEPT ![h] = "top"]
       \/ /\ sup[h].child # 0 /\ sup[h].child \notin procs
          /\ sup' = [sup EXCEPT ![h].child = 0]      \* it has died
          /\ mon' = [mon EXCEPT ![h] = "terminal"]
       \/ /\ sup[h].child = 0                        \* nothing to do yet
          /\ sup[h].state # "Restarting" \/ sup[h].spawning \/ ~sup[h].due
          /\ mon' = [mon EXCEPT ![h] = "top"]
          /\ UNCHANGED sup
       \/ /\ sup[h].child = 0 /\ sup[h].state = "Restarting"
          /\ ~sup[h].spawning /\ sup[h].due          \* respawn
          /\ sup' = [sup EXCEPT ![h].spawning = TRUE]
          /\ mon' = [mon EXCEPT ![h] = "spawn"]
    /\ UNCHANGED <<shellVars, phase, shutdown, launching, procs, launched>>

\* poll_at after the Terminal event was emitted without the mutex.
AfterTerminal(h) ==
    /\ mon[h] = "terminal"
    /\ sup' = [sup EXCEPT ![h] = RecordAndCheck(@)]
    /\ mon' = [mon EXCEPT ![h] = "top"]
    /\ UNCHANGED <<shellVars, phase, shutdown, launching, procs, launched>>

Monitor(h) == NoteEmbeddedServerAlive(h) \/ Poll(h) \/ AfterTerminal(h)

-----------------------------------------------------------------------------
(* Surroundings.                                                           *)

ProcessDies(p) ==
    /\ p \in procs
    /\ procs' = procs \ {p}
    /\ UNCHANGED <<shellVars, phase, shutdown, mon, sup, launching, launched>>

BackoffEnds(h) ==
    /\ ~sup[h].due
    /\ sup' = [sup EXCEPT ![h].due = TRUE]
    /\ UNCHANGED <<shellVars, phase, shutdown, mon, launching, procs, launched>>

\* RestartBudget::prune: the oldest attempt leaves the window.
Prune(h) ==
    /\ sup[h].attempts > 0
    /\ sup' = [sup EXCEPT ![h].attempts = @ - 1]
    /\ UNCHANGED <<shellVars, phase, shutdown, mon, launching, procs, launched>>

Shell == ClickStart \/ ClickRestart \/ PollHostStarting \/ HostStop \/ RestartHost
         \/ \E r \in Roles : SwitchRole(r)

RoleNext ==
    \/ Shell
    \/ \E h \in Hosts : \/ Boot(h) \/ Launch(h) \/ CommitSpawned(h) \/ CommitFailed(h)
                        \/ Monitor(h) \/ BackoffEnds(h) \/ Prune(h)
    \/ \E p \in 1..MaxPids : ProcessDies(p)

RoleSpec == RoleInit /\ [][RoleNext]_roleVars

-----------------------------------------------------------------------------
(* Properties.                                                             *)

RoleTypeOK ==
    /\ role \in Roles /\ slot \in 0..MaxHosts /\ starting \in 0..MaxHosts
    /\ ui \in [pc : {"idle", "join", "start"}, host : 0..MaxHosts,
               then_start : BOOLEAN]
    /\ phase \in [Hosts -> BootPhases] /\ shutdown \in [Hosts -> BOOLEAN]
    /\ mon \in [Hosts -> MonitorPcs]
    /\ sup \in [Hosts -> [state : States, child : 0..MaxPids,
                          attempts : 0..MaxRestarts, server_alive : BOOLEAN,
                          due : BOOLEAN, spawning : BOOLEAN]]
    /\ launching \in [Hosts -> 0..MaxPids]
    /\ procs \subseteq 1..MaxPids /\ launched \in 0..MaxPids

\* The "exactly one global Foundation" of supervisor.rs: whatever the user
\* clicks while boots, respawns and stops are under way, two Foundation
\* processes are never alive at the same time.
OneFoundation == Cardinality(procs) <= 1

\* A stopped Host leaves nothing behind: a live Foundation is tracked by the
\* supervisor of, or is being spawned for, a Host that the shell still holds
\* in its slot, waits for, or is stopping.
NoOrphanFoundation ==
    \A p \in procs : \E h \in {slot, starting, ui.host} \ {0} :
        p \in {sup[h].child, launching[h]}

\* A crash is answered: a monitored Foundation that died is respawned or its
\* budget is used up, and it is not left in between; the launch bound and a
\* stop of the Host excuse it.
CrashAnswered ==
    \A h \in Hosts :
        (mon[h] # "off" /\ sup[h].child # 0 /\ sup[h].child \notin procs) ~>
            \/ sup[h].spawning \/ sup[h].state = "Failed"
            \/ shutdown[h] \/ launched = MaxPids

\* At most one Foundation process, and somebody who will stop it
\* (FoundationSupervisor, App::start_host, Host::stop).
FoundationOwned == RoleTypeOK /\ OneFoundation /\ NoOrphanFoundation

=============================================================================
