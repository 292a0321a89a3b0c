----------------------------- MODULE HostProofs -----------------------------
(***************************************************************************)
(* What the host machine keeps, for every value of the constants: at most  *)
(* one Foundation process (HostRole), authority that fails open            *)
(* (HostAuthority), a display (VirtualDisplay) and an installation that    *)
(* survives starts, updates, errors and crashes (Installation).            *)
(***************************************************************************)
EXTENDS HostRole, HostAuthority, VirtualDisplay, Installation, FiniteSetTheorems,
        WellFoundedInduction, TLAPS

\* A nonempty set of naturals has a least element.
LEMMA LeastNatural ==
    ASSUME NEW S, S \subseteq Nat, S # {}
    PROVE  \E m \in S : \A n \in S : m <= n
  <1>1. \E m \in S : \A n \in S : ~(<<n, m>> \in OpToRel(<, Nat))
    BY WFMin, NatLessThanWellFounded
  <1>2. PICK m \in S : \A n \in S : ~(<<n, m>> \in OpToRel(<, Nat))
    BY <1>1
  <1>3. \A n \in S : ~(n < m)
    BY <1>2 DEF OpToRel
  <1> QED
    BY <1>3

(***************************************************************************)
(* The one Foundation process of HostRole, for every restart budget, every *)
(* number of Hosts and processes, and every interleaving of the UI thread, *)
(* the boot threads, the monitors and the processes.                       *)
(*                                                                         *)
(* That two processes never run is not inductive: it needs who may own one *)
(* (OwnerInv: the shell holds, awaits or stops one Host at a time) and     *)
(* what an owner may have (ProcInv: a spawn is under way only where no     *)
(* child is tracked, and only a Host that is booting or up has either).    *)
(***************************************************************************)

Sups == [state : States, child : 0..MaxPids, attempts : 0..MaxRestarts,
         server_alive : BOOLEAN, due : BOOLEAN, spawning : BOOLEAN]

Booting == {"boot", "spawn", "monitor", "ready"}

\* The shell holds one Host in its slot, or awaits one, or stops one.
OwnerInv ==
    /\ slot # 0 => starting = 0 /\ ui.pc = "idle" /\ RoleWantsHost(role) /\ phase[slot] = "up"
    /\ starting # 0 => ui.pc = "idle" /\ phase[starting] \in Booting \cup {"failed"}
    /\ ui.pc = "join" => ui.host # 0 /\ phase[ui.host] = "up"
    /\ \A h \in Hosts : phase[h] \in Booting => h = starting
    /\ \A h \in Hosts : phase[h] = "up" => h = slot \/ (ui.pc = "join" /\ h = ui.host)

\* Where a process can come from, and whose it is.
ProcInv ==
    /\ \A h \in Hosts : mon[h] # "off" => phase[h] \in {"ready", "up", "down"}
    /\ \A h \in Hosts : mon[h] \notin {"off", "done"} => phase[h] \in {"ready", "up"}
    /\ \A h \in Hosts : Spawning(h) => sup[h].child = 0
    /\ \A h \in Hosts : launching[h] # 0 => Spawning(h)
    /\ \A h \in Hosts : sup[h].child # 0 => phase[h] \in {"monitor", "ready", "up"}
    /\ \A p \in procs : \E h \in Hosts : p \in {sup[h].child, launching[h]}

RoleInv == RoleTypeOK /\ OwnerInv /\ ProcInv

LEMMA HostsAreHosts ==
    /\ MaxHosts \in Nat /\ MaxPids \in Nat /\ MaxRestarts \in Nat
    /\ 0 \notin Hosts /\ Hosts \subseteq 0..MaxHosts
    /\ \A h \in 0..MaxHosts : h # 0 => h \in Hosts
  BY HostAssumption DEF Hosts

\* ----------------------------------------------------- the supervisor's record

\* Replacing the record of one supervisor.
LEMMA SetSup ==
    ASSUME NEW f \in [Hosts -> Sups], NEW h \in Hosts, NEW s \in Sups, s.child = f[h].child
    PROVE  /\ [f EXCEPT ![h] = s] \in [Hosts -> Sups]
           /\ \A g \in Hosts : [f EXCEPT ![h] = s][g].child = f[g].child
  OBVIOUS

LEMMA RecordAndCheckKeeps ==
    ASSUME NEW s \in Sups
    PROVE  RecordAndCheck(s) \in Sups /\ RecordAndCheck(s).child = s.child
  <1>1. CASE s.attempts < MaxRestarts
    <2> DEFINE q1 == [s EXCEPT !.attempts = s.attempts + 1]
               q2 == [q1 EXCEPT !.state = "Restarting"]
               q3 == [q2 EXCEPT !.due = FALSE]
    <2>1. q1 \in Sups /\ q1.child = s.child
      BY <1>1, HostsAreHosts DEF Sups
    <2> HIDE DEF q1
    <2>2. q2 \in Sups /\ q2.child = s.child
      BY <2>1 DEF Sups, States
    <2> HIDE DEF q2
    <2>3. q3 \in Sups /\ q3.child = s.child
      BY <2>2 DEF Sups
    <2>4. RecordAndCheck(s) = q3
      BY <1>1, Zenon DEF RecordAndCheck, q1, q2, q3
    <2> QED
      BY <2>3, <2>4
  <1>2. CASE ~(s.attempts < MaxRestarts)
    <2> DEFINE q == [s EXCEPT !.state = "Failed"]
    <2>1. q \in Sups /\ q.child = s.child
      BY DEF Sups, States
    <2>2. RecordAndCheck(s) = q
      BY <1>2, Zenon DEF RecordAndCheck
    <2> QED
      BY <2>1, <2>2
  <1> QED
    BY <1>1, <1>2

LEMMA UpStates ==
    ASSUME NEW s
    PROVE  DeriveUpState(s) \in States
  BY DEF DeriveUpState, States

\* ------------------------------------------------------------------ the shell

LEMMA Unpacked ==
    ASSUME RoleInv
    PROVE  /\ RoleTypeOK /\ OwnerInv /\ ProcInv
           /\ sup \in [Hosts -> Sups] /\ phase \in [Hosts -> BootPhases]
           /\ mon \in [Hosts -> MonitorPcs] /\ shutdown \in [Hosts -> BOOLEAN]
           /\ launching \in [Hosts -> 0..MaxPids]
           /\ slot \in 0..MaxHosts /\ starting \in 0..MaxHosts
           /\ ui \in [pc : {"idle", "join", "start"}, host : 0..MaxHosts, then_start : BOOLEAN]
           /\ procs \subseteq 1..MaxPids /\ launched \in 0..MaxPids
           /\ procs \subseteq Int /\ 0 \notin procs
  BY HostsAreHosts DEF RoleInv, RoleTypeOK, Sups

LEMMA SupTyped ==
    ASSUME RoleInv
    PROVE  sup \in [Hosts -> Sups] /\ \A h \in Hosts : sup[h] \in Sups /\ sup[h].child \in 0..MaxPids
  BY DEF RoleInv, RoleTypeOK, Sups

\* A boot begins where the shell has no Host.
LEMMA StartHostEffect ==
    ASSUME RoleInv, StartHost, slot = 0
    PROVE  /\ starting' \in 0..MaxHosts /\ phase' \in [Hosts -> BootPhases]
           /\ \/ UNCHANGED <<starting, phase>>
              \/ /\ starting = 0 /\ starting' \in Hosts /\ phase[starting'] = "none"
                 /\ phase' = [phase EXCEPT ![starting'] = "boot"]
  <1>1. CASE UNCHANGED <<starting, phase>>
    BY <1>1, Unpacked
  <1>2. CASE /\ starting = 0
             /\ \E h \in NextHost : starting' = h /\ phase' = [phase EXCEPT ![h] = "boot"]
    BY <1>2, Unpacked, HostsAreHosts DEF NextHost, BootPhases
  <1> QED
    BY <1>1, <1>2 DEF StartHost

\* ProcInv only looks at the phases of Hosts that are past their boot.
LEMMA StartKeepsProcs ==
    ASSUME RoleInv, UNCHANGED <<mon, sup, launching, procs>>,
           NEW h \in Hosts, phase[h] = "none", phase' = [phase EXCEPT ![h] = "boot"]
    PROVE  ProcInv'
  <1>1. \A g \in Hosts : g # h => phase'[g] = phase[g]
    BY Unpacked
  <1>2. phase'[h] = "boot"
    BY Unpacked
  <1>3. mon[h] = "off" /\ sup[h].child = 0 /\ launching[h] = 0
    BY Unpacked DEF ProcInv, Spawning
  <1>4. \A g \in Hosts : Spawning(g)' <=> Spawning(g)
    BY <1>1, <1>2, <1>3 DEF Spawning
  <1> QED
    BY <1>1, <1>2, <1>3, <1>4, Unpacked DEF ProcInv

LEMMA SameProcs ==
    ASSUME ProcInv, UNCHANGED <<phase, mon, sup, launching, procs>>
    PROVE  ProcInv'
  BY DEF ProcInv, Spawning

\* StartHost from an idle shell or from "Restart host".
LEMMA StartStep ==
    ASSUME RoleInv, StartHost, slot = 0, slot' = 0, ui.pc # "join", ui' \in {ui, IdleUi},
           starting # 0 => ui' = ui,
           ui.pc = "start" => ui' = IdleUi,
           role' \in Roles, UNCHANGED <<shutdown, mon, sup, launching, procs, launched>>
    PROVE  RoleInv'
  <1>1. /\ starting' \in 0..MaxHosts /\ phase' \in [Hosts -> BootPhases]
        /\ \/ UNCHANGED <<starting, phase>>
           \/ /\ starting = 0 /\ starting' \in Hosts /\ phase[starting'] = "none"
              /\ phase' = [phase EXCEPT ![starting'] = "boot"]
    BY StartHostEffect
  <1>2. /\ ui' \in [pc : {"idle", "join", "start"}, host : 0..MaxHosts, then_start : BOOLEAN]
        /\ ui'.pc = "idle"
    <2> DEFINE Uis == [pc : {"idle", "join", "start"}, host : 0..MaxHosts, then_start : BOOLEAN]
    <2>1. IdleUi \in Uis /\ IdleUi.pc = "idle"
      BY HostsAreHosts DEF IdleUi
    <2>2. ui \in Uis /\ ui.pc \in {"idle", "join", "start"}
      BY Unpacked
    <2> HIDE DEF Uis
    <2>3. ui' \in Uis /\ ui'.pc = "idle"
      BY <2>1, <2>2
    <2> QED
      BY <2>3 DEF Uis
  <1>3. RoleTypeOK'
    BY <1>1, <1>2, Unpacked, HostsAreHosts DEF RoleTypeOK
  <1>4. CASE UNCHANGED <<starting, phase>>
    <2>1. OwnerInv'
      BY <1>2, <1>4, Unpacked, HostsAreHosts DEF OwnerInv
    <2>2. ProcInv'
      BY <1>4, SameProcs, Unpacked
    <2> QED
      BY <1>3, <2>1, <2>2 DEF RoleInv
  <1>5. CASE /\ starting = 0 /\ starting' \in Hosts /\ phase[starting'] = "none"
             /\ phase' = [phase EXCEPT ![starting'] = "boot"]
    <2>1. /\ phase'[starting'] = "boot"
          /\ \A g \in Hosts : g # starting' => phase'[g] = phase[g]
      BY <1>5, Unpacked
    <2>2. OwnerInv'
      BY <1>2, <1>5, <2>1, Unpacked, HostsAreHosts DEF OwnerInv, Booting
    <2>3. ProcInv'
      BY <1>5, StartKeepsProcs
    <2> QED
      BY <1>3, <2>2, <2>3 DEF RoleInv
  <1> QED
    BY <1>1, <1>4, <1>5

\* BeginStop takes the Host out of the slot, or takes one that was delivered.
LEMMA BeginStopEffect ==
    ASSUME RoleInv, NEW h \in Hosts, NEW t \in BOOLEAN, BeginStop(h, t)
    PROVE  /\ ui' \in [pc : {"idle", "join", "start"}, host : 0..MaxHosts, then_start : BOOLEAN]
           /\ ui'.pc = "join" /\ ui'.host = h
           /\ shutdown' \in [Hosts -> BOOLEAN]
  BY Unpacked, HostsAreHosts DEF BeginStop

LEMMA StopSlotStep ==
    ASSUME RoleInv, ui.pc = "idle", slot # 0, slot' = 0, NEW t \in BOOLEAN, BeginStop(slot, t),
           role' \in Roles, UNCHANGED <<starting, phase, mon, sup, launching, procs, launched>>
    PROVE  RoleInv'
  <1>1. slot \in Hosts
    BY Unpacked, HostsAreHosts
  <1>2. /\ ui' \in [pc : {"idle", "join", "start"}, host : 0..MaxHosts, then_start : BOOLEAN]
        /\ ui'.pc = "join" /\ ui'.host = slot
        /\ shutdown' \in [Hosts -> BOOLEAN]
    BY <1>1, BeginStopEffect
  <1>3. RoleTypeOK'
    BY <1>2, Unpacked, HostsAreHosts DEF RoleTypeOK
  <1>4. OwnerInv'
    BY <1>1, <1>2, Unpacked, HostsAreHosts DEF OwnerInv
  <1>5. ProcInv'
    BY SameProcs, Unpacked
  <1> QED
    BY <1>3, <1>4, <1>5 DEF RoleInv

LEMMA SwitchStep ==
    ASSUME RoleInv, NEW r \in Roles, SwitchRole(r)
    PROVE  RoleInv'
  <1>0. /\ ui.pc = "idle" /\ role' = r
        /\ UNCHANGED <<mon, sup, launching, procs, launched>>
    BY DEF SwitchRole
  <1>1. CASE ~RoleWantsHost(role) /\ StartHost /\ UNCHANGED <<slot, ui, shutdown>>
    <2>1. slot = 0
      BY <1>1, Unpacked DEF OwnerInv
    <2> QED
      BY <1>0, <1>1, <2>1, StartStep
  <1>2. CASE slot # 0 /\ slot' = 0 /\ BeginStop(slot, FALSE) /\ UNCHANGED <<starting, phase>>
    BY <1>0, <1>2, StopSlotStep
  <1>3. CASE /\ RoleWantsHost(role) = RoleWantsHost(r) \/ (RoleWantsHost(role) /\ slot = 0)
             /\ UNCHANGED <<slot, starting, ui, phase, shutdown>>
    <2>1. RoleTypeOK'
      BY <1>0, <1>3, Unpacked DEF RoleTypeOK
    <2>2. OwnerInv'
      BY <1>0, <1>3, Unpacked DEF OwnerInv, RoleWantsHost
    <2>3. ProcInv'
      BY <1>0, <1>3, SameProcs, Unpacked
    <2> QED
      BY <2>1, <2>2, <2>3 DEF RoleInv
  <1> QED
    BY <1>1, <1>2, <1>3 DEF SwitchRole

\* A Host is delivered: its phase goes from "ready" to "up".
LEMMA DeliveryStep ==
    ASSUME RoleInv, PollHostStarting
    PROVE  RoleInv'
  <1>0. /\ ui.pc = "idle" /\ starting # 0 /\ starting' = 0 /\ starting \in Hosts /\ slot = 0
        /\ UNCHANGED <<role, mon, sup, launching, procs, launched>>
    BY Unpacked, HostsAreHosts DEF PollHostStarting, OwnerInv
  <1>1. CASE phase[starting] = "failed" /\ UNCHANGED <<phase, slot, ui, shutdown>>
    <2>1. RoleTypeOK'
      BY <1>0, <1>1, Unpacked, HostsAreHosts DEF RoleTypeOK
    <2>2. OwnerInv'
      BY <1>0, <1>1, Unpacked DEF OwnerInv, Booting
    <2>3. ProcInv'
      BY <1>0, <1>1, SameProcs, Unpacked
    <2> QED
      BY <2>1, <2>2, <2>3 DEF RoleInv
  <1>2. CASE phase[starting] = "ready" /\ ApplyHostDelivery(starting)
    <2>1. /\ phase' = [phase EXCEPT ![starting] = "up"]
          /\ \/ RoleWantsHost(role) /\ slot' = starting /\ UNCHANGED <<ui, shutdown>>
             \/ BeginStop(starting, FALSE) /\ UNCHANGED slot
      BY <1>2 DEF ApplyHostDelivery
    <2>2. /\ phase' \in [Hosts -> BootPhases] /\ phase'[starting] = "up"
          /\ \A g \in Hosts : g # starting => phase'[g] = phase[g] /\ phase[g] \notin Booting \cup {"up"}
      BY <1>0, <2>1, Unpacked, HostsAreHosts DEF OwnerInv, BootPhases
    <2>3. ProcInv'
      <3>1. \A g \in Hosts : Spawning(g)' <=> Spawning(g)
        BY <1>0, <1>2, <2>2 DEF Spawning
      <3> QED
        BY <1>0, <1>2, <2>2, <3>1, Unpacked DEF ProcInv
    <2>4. CASE RoleWantsHost(role) /\ slot' = starting /\ UNCHANGED <<ui, shutdown>>
      <3>1. RoleTypeOK'
        BY <1>0, <2>2, <2>4, Unpacked, HostsAreHosts DEF RoleTypeOK
      <3>2. OwnerInv'
        BY <1>0, <2>2, <2>4, Unpacked, HostsAreHosts DEF OwnerInv, Booting, RoleWantsHost
      <3> QED
        BY <2>3, <3>1, <3>2 DEF RoleInv
    <2>5. CASE BeginStop(starting, FALSE) /\ UNCHANGED slot
      <3>0. /\ ui' \in [pc : {"idle", "join", "start"}, host : 0..MaxHosts, then_start : BOOLEAN]
            /\ ui'.pc = "join" /\ ui'.host = starting
            /\ shutdown' \in [Hosts -> BOOLEAN]
        BY <1>0, <2>5, BeginStopEffect
      <3>1. RoleTypeOK'
        BY <1>0, <2>2, <2>5, <3>0, Unpacked, HostsAreHosts DEF RoleTypeOK
      <3>2. OwnerInv'
        BY <1>0, <2>2, <2>5, <3>0, Unpacked, HostsAreHosts DEF OwnerInv, Booting
      <3> QED
        BY <2>3, <3>1, <3>2 DEF RoleInv
    <2> QED
      BY <2>1, <2>4, <2>5
  <1> QED
    BY <1>1, <1>2 DEF PollHostStarting

\* Host::stop ends with the child of a Host whose monitor has ended.
LEMMA HostStopStep ==
    ASSUME RoleInv, HostStop
    PROVE  RoleInv'
  <1> DEFINE h == ui.host
             q1 == [sup EXCEPT ![h].child = 0]
             q2 == [q1 EXCEPT ![h].state = "Stopped"]
             q3 == [q2 EXCEPT ![h].due = TRUE]
  <1>0. /\ ui.pc = "join" /\ mon[h] \in {"off", "done"} /\ procs' = procs \ {sup[h].child}
        /\ phase' = [phase EXCEPT ![h] = "down"]
        /\ UNCHANGED <<role, slot, starting, shutdown, mon, launching, launched>>
    BY DEF HostStop
  <1>1. sup' = q3
    BY Zenon DEF HostStop, q1, q2, q3
  <1>2. /\ ui' \in [pc : {"idle", "join", "start"}, host : 0..MaxHosts, then_start : BOOLEAN]
        /\ ui'.pc \in {"idle", "start"}
    BY Unpacked, HostsAreHosts DEF HostStop, IdleUi
  <1>3. h \in Hosts /\ phase[h] = "up" /\ slot = 0 /\ starting = 0
    BY <1>0, Unpacked, HostsAreHosts DEF OwnerInv
  <1> HIDE DEF h, q1, q2, q3
  <1>4. q1 \in [Hosts -> Sups] /\ \A g \in Hosts : q1[g].child = IF g = h THEN 0 ELSE sup[g].child
    BY <1>3, SupTyped, HostsAreHosts DEF q1, Sups
  <1>5. q2 \in [Hosts -> Sups] /\ \A g \in Hosts : q2[g].child = q1[g].child
    BY <1>3, <1>4 DEF q2, Sups, States
  <1>6. q3 \in [Hosts -> Sups] /\ \A g \in Hosts : q3[g].child = q2[g].child
    BY <1>3, <1>5 DEF q3, Sups
  <1>7. /\ sup' \in [Hosts -> Sups]
        /\ \A g \in Hosts : sup'[g].child = IF g = h THEN 0 ELSE sup[g].child
    BY <1>1, <1>4, <1>5, <1>6
  <1>8. /\ phase' \in [Hosts -> BootPhases] /\ phase'[h] = "down"
        /\ \A g \in Hosts : g # h => phase'[g] = phase[g] /\ phase[g] \notin Booting \cup {"up"}
    BY <1>0, <1>3, Unpacked, HostsAreHosts DEF OwnerInv, BootPhases, h
  <1>9. RoleTypeOK'
    BY <1>0, <1>2, <1>7, <1>8, Unpacked DEF RoleTypeOK, Sups
  <1>10. OwnerInv'
    BY <1>0, <1>2, <1>3, <1>8 DEF OwnerInv, Booting
  <1>11. ProcInv'
    <2>1. \A g \in Hosts : Spawning(g)' <=> Spawning(g)
      BY <1>0, <1>3, <1>8 DEF Spawning
    <2>2. ~Spawning(h) /\ launching[h] = 0
      BY <1>0, <1>3, Unpacked DEF ProcInv, Spawning
    <2> QED
      BY <1>0, <1>3, <1>7, <1>8, <2>1, <2>2, Unpacked DEF ProcInv
  <1> QED
    BY <1>9, <1>10, <1>11 DEF RoleInv

LEMMA ShellStep ==
    ASSUME RoleInv, Shell
    PROVE  RoleInv'
  <1>1. CASE ClickStart
    <2>1. ui.pc = "idle" /\ slot = 0 /\ slot' = 0 /\ StartHost /\ role' = role /\ ui' = ui
      BY <1>1 DEF ClickStart
    <2>2. role \in Roles
      BY Unpacked DEF RoleTypeOK
    <2> QED
      BY <1>1, <2>1, <2>2, StartStep DEF ClickStart
  <1>2. CASE ClickRestart
    <2>1. role' \in Roles
      BY <1>2, Unpacked DEF ClickRestart, RoleTypeOK
    <2> QED
      BY <1>2, <2>1, StopSlotStep DEF ClickRestart
  <1>3. CASE RestartHost
    <2>1. slot = 0 /\ starting = 0 /\ role \in Roles
      BY <1>3, Unpacked DEF RestartHost, OwnerInv, RoleTypeOK
    <2> QED
      BY <1>3, <2>1, StartStep DEF RestartHost
  <1> QED
    BY <1>1, <1>2, <1>3, DeliveryStep, HostStopStep, SwitchStep DEF Shell

\* ------------------------------------------------------------ spawning a child

\* No Host but the one that spawns has a process, and it has none yet.
LEMMA NoneWhileSpawning ==
    ASSUME RoleInv, NEW h \in Hosts, Spawning(h)
    PROVE  /\ sup[h].child = 0
           /\ \A g \in Hosts : g # h => sup[g].child = 0 /\ launching[g] = 0
           /\ \A p \in procs : p = launching[h]
  <1>1. phase[h] \in {"spawn", "ready", "up"} /\ sup[h].child = 0
    BY Unpacked DEF ProcInv, Spawning
  <1>2. \A g \in Hosts : g # h => phase[g] \notin Booting \cup {"up"}
    BY <1>1, Unpacked, HostsAreHosts DEF OwnerInv, Booting
  <1>3. \A g \in Hosts : g # h => sup[g].child = 0 /\ launching[g] = 0
    BY <1>2, Unpacked DEF ProcInv, Spawning, Booting
  <1> QED
    BY <1>1, <1>3, Unpacked DEF ProcInv

LEMMA LaunchStep ==
    ASSUME RoleInv, NEW h \in Hosts, Launch(h)
    PROVE  RoleInv'
  <1>0. /\ Spawning(h) /\ launching[h] = 0 /\ launched < MaxPids /\ launched' = launched + 1
        /\ launching' = [launching EXCEPT ![h] = launched + 1]
        /\ procs' = procs \cup {launched + 1}
        /\ UNCHANGED <<shellVars, phase, shutdown, mon, sup>>
    BY DEF Launch
  <1>1. launched + 1 \in 1..MaxPids /\ launched + 1 # 0
    BY <1>0, Unpacked, HostsAreHosts
  <1>2. /\ launching' \in [Hosts -> 0..MaxPids] /\ launching'[h] = launched + 1
        /\ \A g \in Hosts : g # h => launching'[g] = launching[g]
    BY <1>0, <1>1, Unpacked, HostsAreHosts
  <1>3. RoleTypeOK'
    BY <1>0, <1>1, <1>2, Unpacked, HostsAreHosts DEF RoleTypeOK, shellVars
  <1>4. OwnerInv'
    BY <1>0, Unpacked DEF OwnerInv, shellVars
  <1>5. ProcInv'
    <2>1. \A g \in Hosts : Spawning(g)' <=> Spawning(g)
      BY <1>0 DEF Spawning
    <2>2. procs = {}
      BY <1>0, NoneWhileSpawning, Unpacked
    <2> QED
      BY <1>0, <1>2, <2>1, <2>2, Unpacked DEF ProcInv
  <1> QED
    BY <1>3, <1>4, <1>5 DEF RoleInv

\* Both ends of a spawn: the thread that made the call goes on, `c` is tracked.
LEMMA CommitStep ==
    ASSUME RoleInv, NEW h \in Hosts, Spawning(h), SpawnReturns(h), NEW c \in 0..MaxPids,
           launching' = [launching EXCEPT ![h] = 0],
           sup' \in [Hosts -> Sups],
           \A g \in Hosts : sup'[g].child = IF g = h THEN c ELSE sup[g].child,
           procs' \subseteq procs, procs' \subseteq {c},
           UNCHANGED <<shellVars, shutdown, launched>>
    PROVE  RoleInv'
  <1>1. /\ launching' \in [Hosts -> 0..MaxPids] /\ launching'[h] = 0
        /\ \A g \in Hosts : g # h => launching'[g] = launching[g]
    BY Unpacked, HostsAreHosts
  <1>2. /\ sup[h].child = 0
        /\ \A g \in Hosts : g # h => sup[g].child = 0 /\ launching[g] = 0
    BY NoneWhileSpawning
  <1>3. CASE phase[h] = "spawn"
    <2>1. /\ phase' \in [Hosts -> BootPhases] /\ phase'[h] = "monitor" /\ mon' = mon
          /\ \A g \in Hosts : g # h => phase'[g] = phase[g]
      BY <1>3, Unpacked DEF SpawnReturns, BootPhases
    <2>2. RoleTypeOK'
      BY <1>1, <2>1, Unpacked DEF RoleTypeOK, shellVars, Sups
    <2>3. OwnerInv'
      BY <1>3, <2>1, Unpacked, HostsAreHosts DEF OwnerInv, shellVars, Booting
    <2>4. ProcInv'
      <3>1. mon[h] = "off"
        BY <1>3, Unpacked DEF ProcInv
      <3>2. ~Spawning(h)' /\ \A g \in Hosts : g # h => (Spawning(g)' <=> Spawning(g))
        BY <2>1, <3>1 DEF Spawning
      <3> QED
        BY <1>1, <1>2, <1>3, <2>1, <3>1, <3>2, Unpacked DEF ProcInv
    <2> QED
      BY <2>2, <2>3, <2>4 DEF RoleInv
  <1>4. CASE phase[h] # "spawn"
    <2>1. /\ mon' \in [Hosts -> MonitorPcs] /\ mon'[h] = "top" /\ phase' = phase
          /\ \A g \in Hosts : g # h => mon'[g] = mon[g]
      BY <1>4, Unpacked DEF SpawnReturns, MonitorPcs
    <2>2. RoleTypeOK'
      BY <1>1, <2>1, Unpacked DEF RoleTypeOK, shellVars, Sups
    <2>3. OwnerInv'
      BY <2>1, Unpacked DEF OwnerInv, shellVars
    <2>4. ProcInv'
      <3>1. mon[h] = "spawn" /\ phase[h] \in {"ready", "up"}
        BY <1>4, Unpacked DEF ProcInv, Spawning
      <3>2. ~Spawning(h)' /\ \A g \in Hosts : g # h => (Spawning(g)' <=> Spawning(g))
        BY <1>4, <2>1 DEF Spawning
      <3> QED
        BY <1>1, <1>2, <2>1, <3>1, <3>2, Unpacked DEF ProcInv
    <2> QED
      BY <2>2, <2>3, <2>4 DEF RoleInv
  <1> QED
    BY <1>3, <1>4

LEMMA CommitSpawnedStep ==
    ASSUME RoleInv, NEW h \in Hosts, CommitSpawned(h)
    PROVE  RoleInv'
  <1> DEFINE c == launching[h]
             u == DeriveUpState(sup[h])
             q1 == [sup EXCEPT ![h].spawning = FALSE]
             q2 == [q1 EXCEPT ![h].child = c]
             q3 == [q2 EXCEPT ![h].state = u]
  <1>0. /\ Spawning(h) /\ launching' = [launching EXCEPT ![h] = 0] /\ SpawnReturns(h)
        /\ UNCHANGED <<shellVars, shutdown, procs, launched>>
    BY DEF CommitSpawned
  <1>1. sup' = q3
    BY Zenon DEF CommitSpawned, q1, q2, q3, c, u
  <1>2. c \in 0..MaxPids /\ u \in States
    BY Unpacked, UpStates
  <1>3. procs' \subseteq procs /\ procs' \subseteq {c}
    BY <1>0, NoneWhileSpawning
  <1> HIDE DEF c, u, q1, q2, q3
  <1>4. q1 \in [Hosts -> Sups] /\ \A g \in Hosts : q1[g].child = sup[g].child
    BY SupTyped DEF q1, Sups
  <1>5. q2 \in [Hosts -> Sups] /\ \A g \in Hosts : q2[g].child = IF g = h THEN c ELSE q1[g].child
    BY <1>2, <1>4 DEF q2, Sups
  <1>6. q3 \in [Hosts -> Sups] /\ \A g \in Hosts : q3[g].child = q2[g].child
    BY <1>2, <1>5 DEF q3, Sups
  <1>7. /\ sup' \in [Hosts -> Sups]
        /\ \A g \in Hosts : sup'[g].child = IF g = h THEN c ELSE sup[g].child
    BY <1>1, <1>4, <1>5, <1>6
  <1> QED
    BY <1>0, <1>2, <1>3, <1>7, CommitStep

LEMMA CommitFailedStep ==
    ASSUME RoleInv, NEW h \in Hosts, CommitFailed(h)
    PROVE  RoleInv'
  <1> DEFINE s == [sup[h] EXCEPT !.spawning = FALSE]
             f == [s EXCEPT !.state = "Failed"]
             t == IF s.state = "Restarting" THEN RecordAndCheck(s) ELSE f
  <1>0. /\ Spawning(h) /\ launching' = [launching EXCEPT ![h] = 0] /\ SpawnReturns(h)
        /\ procs' = procs \ {launching[h]} /\ UNCHANGED <<shellVars, shutdown, launched>>
    BY DEF CommitFailed
  <1>1. sup' = [sup EXCEPT ![h] = t]
    BY Zenon DEF CommitFailed, s, f, t
  <1>2. s \in Sups /\ s.child = sup[h].child
    BY SupTyped DEF Sups
  <1> HIDE DEF s
  <1>3. f \in Sups /\ f.child = s.child
    BY <1>2 DEF Sups, States
  <1> HIDE DEF f
  <1>4. t \in Sups /\ t.child = sup[h].child
    BY <1>2, <1>3, RecordAndCheckKeeps
  <1> HIDE DEF t
  <1>5. /\ sup' \in [Hosts -> Sups] /\ \A g \in Hosts : sup'[g].child = sup[g].child
    BY <1>1, <1>4, SetSup, Unpacked
  <1>6. procs' = {} /\ sup[h].child = 0
    BY <1>0, NoneWhileSpawning
  <1>7. \A g \in Hosts : sup'[g].child = IF g = h THEN 0 ELSE sup[g].child
    BY <1>5, <1>6
  <1>8. 0 \in 0..MaxPids /\ procs' \subseteq procs /\ procs' \subseteq {0}
    BY <1>6, HostsAreHosts
  <1> QED
    BY <1>0, <1>5, <1>7, <1>8, CommitStep

\* ------------------------------------------------- boot and monitor threads

LEMMA BootStep ==
    ASSUME RoleInv, NEW h \in Hosts, Boot(h)
    PROVE  RoleInv'
  <1>1. CASE BootFails(h)
    <2>0. /\ phase[h] = "boot" /\ UNCHANGED <<shellVars, shutdown, mon, sup, launching, procs, launched>>
          /\ phase' = [phase EXCEPT ![h] = "failed"]
      BY <1>1 DEF BootFails
    <2>1. /\ phase' \in [Hosts -> BootPhases] /\ phase'[h] = "failed"
          /\ \A g \in Hosts : g # h => phase'[g] = phase[g]
      BY <2>0, Unpacked DEF BootPhases
    <2>2. RoleTypeOK'
      BY <2>0, <2>1, Unpacked DEF RoleTypeOK, shellVars
    <2>3. OwnerInv'
      BY <2>0, <2>1, Unpacked, HostsAreHosts DEF OwnerInv, shellVars, Booting
    <2>4. ProcInv'
      <3>1. \A g \in Hosts : Spawning(g)' <=> Spawning(g)
        BY <2>0, <2>1 DEF Spawning
      <3> QED
        BY <2>0, <2>1, <3>1, Unpacked DEF ProcInv
    <2> QED
      BY <2>2, <2>3, <2>4 DEF RoleInv
  <1>2. CASE BootServer(h)
    <2>0. /\ phase[h] = "boot" /\ UNCHANGED <<shellVars, shutdown, mon, launching, procs, launched>>
          /\ \/ phase' = [phase EXCEPT ![h] = "monitor"] /\ UNCHANGED sup
             \/ /\ phase' = [phase EXCEPT ![h] = "spawn"]
                /\ sup' = [sup EXCEPT ![h].spawning = TRUE, ![h].state = "Starting"]
      BY <1>2 DEF BootServer
    <2>1. /\ phase' \in [Hosts -> BootPhases] /\ phase'[h] \in {"monitor", "spawn"}
          /\ \A g \in Hosts : g # h => phase'[g] = phase[g]
      BY <2>0, Unpacked DEF BootPhases
    <2>2. sup' \in [Hosts -> Sups] /\ \A g \in Hosts : sup'[g].child = sup[g].child
      <3>1. CASE UNCHANGED sup
        BY <3>1, Unpacked
      <3>2. CASE sup' = [sup EXCEPT ![h].spawning = TRUE, ![h].state = "Starting"]
        <4> DEFINE q1 == [sup EXCEPT ![h].spawning = TRUE]
                   q2 == [q1 EXCEPT ![h].state = "Starting"]
        <4>1. sup' = q2
          BY <3>2, Zenon DEF q1, q2
        <4> HIDE DEF q1, q2
        <4>2. q1 \in [Hosts -> Sups] /\ \A g \in Hosts : q1[g].child = sup[g].child
          BY SupTyped DEF q1, Sups
        <4>3. q2 \in [Hosts -> Sups] /\ \A g \in Hosts : q2[g].child = q1[g].child
          BY <4>2 DEF q2, Sups, States
        <4> QED
          BY <4>1, <4>2, <4>3
      <3> QED
        BY <2>0, <3>1, <3>2
    <2>3. RoleTypeOK'
      BY <2>0, <2>1, <2>2, Unpacked DEF RoleTypeOK, shellVars, Sups
    <2>4. OwnerInv'
      BY <2>0, <2>1, Unpacked, HostsAreHosts DEF OwnerInv, shellVars, Booting
    <2>5. ProcInv'
      <3>1. \A g \in Hosts : g # h => (Spawning(g)' <=> Spawning(g))
        BY <2>0, <2>1 DEF Spawning
      <3>2. ~Spawning(h) /\ sup[h].child = 0 /\ launching[h] = 0 /\ mon[h] = "off"
        BY <2>0, Unpacked DEF ProcInv, Spawning
      <3> QED
        BY <2>0, <2>1, <2>2, <3>1, <3>2, Unpacked DEF ProcInv
    <2> QED
      BY <2>3, <2>4, <2>5 DEF RoleInv
  <1>3. CASE BootMonitor(h)
    <2>0. /\ phase[h] = "monitor" /\ UNCHANGED <<shellVars, shutdown, sup, launching, procs, launched>>
          /\ phase' = [phase EXCEPT ![h] = "ready"]
      BY <1>3 DEF BootMonitor
    <2>1. PICK pc \in {"top", "off"} : mon' = [mon EXCEPT ![h] = pc]
      BY <1>3 DEF BootMonitor
    <2>2. /\ phase' \in [Hosts -> BootPhases] /\ phase'[h] = "ready"
          /\ \A g \in Hosts : g # h => phase'[g] = phase[g]
      BY <2>0, Unpacked DEF BootPhases
    <2>3. /\ mon' \in [Hosts -> MonitorPcs] /\ mon'[h] \in {"top", "off"}
          /\ \A g \in Hosts : g # h => mon'[g] = mon[g]
      BY <2>1, Unpacked DEF MonitorPcs
    <2>4. RoleTypeOK'
      BY <2>0, <2>2, <2>3, Unpacked DEF RoleTypeOK, shellVars
    <2>5. OwnerInv'
      BY <2>0, <2>2, Unpacked, HostsAreHosts DEF OwnerInv, shellVars, Booting
    <2>6. ProcInv'
      <3>1. mon[h] = "off"
        BY <2>0, Unpacked DEF ProcInv
      <3>2. \A g \in Hosts : Spawning(g)' <=> Spawning(g)
        BY <2>0, <2>2, <2>3, <3>1 DEF Spawning
      <3> QED
        BY <2>0, <2>2, <2>3, <3>2, Unpacked DEF ProcInv
    <2> QED
      BY <2>4, <2>5, <2>6 DEF RoleInv
  <1> QED
    BY <1>1, <1>2, <1>3 DEF Boot

\* The monitor thread of a Host goes on to pc, and tracks its child or drops one
\* that is dead.
LEMMA MonitorMoves ==
    ASSUME RoleInv, NEW h \in Hosts, mon[h] \notin {"off", "done", "spawn"},
           NEW pc \in MonitorPcs \ {"off"}, mon' = [mon EXCEPT ![h] = pc],
           NEW c \in 0..MaxPids, c = sup[h].child \/ (c = 0 /\ sup[h].child \notin procs),
           pc = "spawn" => c = 0,
           sup' \in [Hosts -> Sups],
           \A g \in Hosts : sup'[g].child = IF g = h THEN c ELSE sup[g].child,
           UNCHANGED <<shellVars, phase, shutdown, launching, procs, launched>>
    PROVE  RoleInv'
  <1>1. /\ mon' \in [Hosts -> MonitorPcs] /\ mon'[h] = pc
        /\ \A g \in Hosts : g # h => mon'[g] = mon[g]
    BY Unpacked DEF MonitorPcs
  <1>2. RoleTypeOK'
    BY <1>1, Unpacked DEF RoleTypeOK, shellVars, Sups
  <1>3. OwnerInv'
    BY Unpacked DEF OwnerInv, shellVars
  <1>4. ProcInv'
    <2>1. phase[h] \in {"ready", "up"} /\ launching[h] = 0
      BY Unpacked DEF ProcInv, Spawning
    <2>2. \A g \in Hosts : g # h => (Spawning(g)' <=> Spawning(g))
      BY <1>1 DEF Spawning
    <2>3. Spawning(h)' <=> pc = "spawn"
      BY <1>1, <2>1 DEF Spawning
    <2>4. \A p \in procs' : \E g \in Hosts : p \in {sup'[g].child, launching'[g]}
      BY <2>1, Unpacked DEF ProcInv
    <2> QED
      BY <1>1, <2>1, <2>2, <2>3, <2>4, Unpacked DEF ProcInv
  <1> QED
    BY <1>2, <1>3, <1>4 DEF RoleInv

\* It goes on with the child it has.
LEMMA MonitorGoesOn ==
    ASSUME RoleInv, NEW h \in Hosts, mon[h] \notin {"off", "done", "spawn"},
           NEW pc \in {"top", "poll", "done"}, mon' = [mon EXCEPT ![h] = pc],
           sup' \in [Hosts -> Sups], \A g \in Hosts : sup'[g].child = sup[g].child,
           UNCHANGED <<shellVars, phase, shutdown, launching, procs, launched>>
    PROVE  RoleInv'
  <1> DEFINE c == sup[h].child
  <1>1. c \in 0..MaxPids
    BY Unpacked DEF Sups
  <1>2. \A g \in Hosts : sup'[g].child = IF g = h THEN c ELSE sup[g].child
    OBVIOUS
  <1>3. c = sup[h].child
    OBVIOUS
  <1> HIDE DEF c
  <1>4. pc \in MonitorPcs \ {"off"} /\ pc # "spawn"
    BY DEF MonitorPcs
  <1> QED
    BY <1>1, <1>2, <1>3, <1>4, MonitorMoves

LEMMA MonitorStep ==
    ASSUME RoleInv, NEW h \in Hosts, Monitor(h)
    PROVE  RoleInv'
  <1>0. sup \in [Hosts -> Sups] /\ sup[h] \in Sups /\ sup[h].child \in 0..MaxPids
    BY Unpacked DEF Sups
  <1>1. CASE NoteEmbeddedServerAlive(h)
    <2>0. mon[h] = "top" /\ UNCHANGED <<shellVars, phase, shutdown, launching, procs, launched>>
      BY <1>1 DEF NoteEmbeddedServerAlive
    <2>1. CASE mon' = [mon EXCEPT ![h] = "done"] /\ UNCHANGED sup
      BY <1>0, <2>0, <2>1, MonitorGoesOn
    <2>2. CASE /\ mon' = [mon EXCEPT ![h] = "poll"]
               /\ \E alive \in BOOLEAN :
                     sup' = [sup EXCEPT ![h] =
                               LET s == [@ EXCEPT !.server_alive = alive] IN
                               IF s.child # 0 /\ s.state \in {"Healthy", "Degraded"}
                               THEN [s EXCEPT !.state = DeriveUpState(s)] ELSE s]
      <3>1. PICK alive \in BOOLEAN :
                     sup' = [sup EXCEPT ![h] =
                               LET s == [@ EXCEPT !.server_alive = alive] IN
                               IF s.child # 0 /\ s.state \in {"Healthy", "Degraded"}
                               THEN [s EXCEPT !.state = DeriveUpState(s)] ELSE s]
        BY <2>2
      <3> DEFINE q == [sup[h] EXCEPT !.server_alive = alive]
                 u == DeriveUpState(q)
                 v == [q EXCEPT !.state = u]
                 w == IF q.child # 0 /\ q.state \in {"Healthy", "Degraded"} THEN v ELSE q
      <3>2. sup' = [sup EXCEPT ![h] = w]
        BY <3>1, Zenon DEF q, u, v, w
      <3>3. q \in Sups /\ q.child = sup[h].child
        BY <1>0 DEF Sups
      <3>4. u \in States
        BY UpStates
      <3> HIDE DEF q, u
      <3>5. v \in Sups /\ v.child = q.child
        BY <3>3, <3>4 DEF Sups
      <3> HIDE DEF v
      <3>6. w \in Sups /\ w.child = sup[h].child
        BY <3>3, <3>5
      <3> HIDE DEF w
      <3>7. sup' \in [Hosts -> Sups] /\ \A g \in Hosts : sup'[g].child = sup[g].child
        BY <1>0, <3>2, <3>6, SetSup
      <3> QED
        BY <1>0, <2>0, <2>2, <3>7, MonitorGoesOn
    <2> QED
      BY <1>1, <2>1, <2>2 DEF NoteEmbeddedServerAlive
  <1>2. CASE Poll(h)
    <2>0. mon[h] = "poll" /\ UNCHANGED <<shellVars, phase, shutdown, launching, procs, launched>>
      BY <1>2 DEF Poll
    <2>1. CASE /\ sup' = [sup EXCEPT ![h].state = DeriveUpState(sup[h])]
               /\ mon' = [mon EXCEPT ![h] = "top"]
      <3>1. sup' \in [Hosts -> Sups] /\ \A g \in Hosts : sup'[g].child = sup[g].child
        BY <1>0, <2>1, UpStates DEF Sups
      <3> QED
        BY <1>0, <2>0, <2>1, <3>1, MonitorGoesOn
    <2>2. CASE /\ sup[h].child \notin procs /\ sup' = [sup EXCEPT ![h].child = 0]
               /\ mon' = [mon EXCEPT ![h] = "terminal"]
      <3>0. 0 \in 0..MaxPids /\ "terminal" \in MonitorPcs \ {"off"}
        BY HostsAreHosts DEF MonitorPcs
      <3>1. sup' \in [Hosts -> Sups] /\ \A g \in Hosts : sup'[g].child = IF g = h THEN 0 ELSE sup[g].child
        BY <1>0, <2>2, <3>0 DEF Sups
      <3> QED
        BY <2>0, <2>2, <3>0, <3>1, MonitorMoves
    <2>3. CASE mon' = [mon EXCEPT ![h] = "top"] /\ UNCHANGED sup
      BY <1>0, <2>0, <2>3, MonitorGoesOn
    <2>4. CASE /\ sup[h].child = 0 /\ sup' = [sup EXCEPT ![h].spawning = TRUE]
               /\ mon' = [mon EXCEPT ![h] = "spawn"]
      <3>1. sup' \in [Hosts -> Sups] /\ \A g \in Hosts : sup'[g].child = sup[g].child
        BY <1>0, <2>4 DEF Sups
      <3> DEFINE c == sup[h].child
      <3>2. c \in 0..MaxPids /\ c = 0 /\ c = sup[h].child
        BY <1>0, <2>4
      <3>3. \A g \in Hosts : sup'[g].child = IF g = h THEN c ELSE sup[g].child
        BY <3>1
      <3> DEFINE pc == "spawn"
      <3>4. /\ pc \in MonitorPcs \ {"off"} /\ mon[h] \notin {"off", "done", "spawn"}
            /\ mon' = [mon EXCEPT ![h] = pc]
        BY <2>0, <2>4 DEF MonitorPcs
      <3> HIDE DEF c, pc
      <3> QED
        BY <2>0, <3>1, <3>2, <3>3, <3>4, MonitorMoves
    <2> QED
      BY <1>2, <2>1, <2>2, <2>3, <2>4 DEF Poll
  <1>3. CASE AfterTerminal(h)
    <2>0. /\ mon[h] = "terminal" /\ UNCHANGED <<shellVars, phase, shutdown, launching, procs, launched>>
          /\ sup' = [sup EXCEPT ![h] = RecordAndCheck(sup[h])] /\ mon' = [mon EXCEPT ![h] = "top"]
      BY <1>3 DEF AfterTerminal
    <2>1. sup' \in [Hosts -> Sups] /\ \A g \in Hosts : sup'[g].child = sup[g].child
      BY <1>0, <2>0, RecordAndCheckKeeps, SetSup
    <2> QED
      BY <1>0, <2>0, <2>1, MonitorGoesOn
  <1> QED
    BY <1>1, <1>2, <1>3 DEF Monitor

\* -------------------------------------------------------------- surroundings

LEMMA OutsideStep ==
    ASSUME RoleInv,
           \/ \E p \in 1..MaxPids : ProcessDies(p)
           \/ \E h \in Hosts : BackoffEnds(h) \/ Prune(h)
    PROVE  RoleInv'
  <1>1. CASE \E p \in 1..MaxPids : ProcessDies(p)
    <2>1. /\ procs' \subseteq procs
          /\ UNCHANGED <<shellVars, phase, shutdown, mon, sup, launching, launched>>
      BY <1>1 DEF ProcessDies
    <2>2. RoleTypeOK'
      BY <2>1, Unpacked DEF RoleTypeOK, shellVars
    <2>3. OwnerInv'
      BY <2>1, Unpacked DEF OwnerInv, shellVars
    <2>4. ProcInv'
      BY <2>1, Unpacked DEF ProcInv, Spawning
    <2> QED
      BY <2>2, <2>3, <2>4 DEF RoleInv
  <1>2. ASSUME NEW h \in Hosts, BackoffEnds(h) \/ Prune(h)
        PROVE  RoleInv'
    <2>0. UNCHANGED <<shellVars, phase, shutdown, mon, launching, procs, launched>>
      BY <1>2 DEF BackoffEnds, Prune
    <2>1. sup' \in [Hosts -> Sups] /\ \A g \in Hosts : sup'[g].child = sup[g].child
      <3>1. CASE BackoffEnds(h)
        <4> DEFINE q == [sup EXCEPT ![h].due = TRUE]
        <4>1. sup' = q
          BY <3>1 DEF BackoffEnds
        <4>2. q \in [Hosts -> Sups] /\ \A g \in Hosts : q[g].child = sup[g].child
          BY SupTyped DEF Sups
        <4> HIDE DEF q
        <4> QED
          BY <4>1, <4>2
      <3>2. CASE Prune(h)
        <4> DEFINE n == sup[h].attempts - 1
        <4>1. n \in 0..MaxRestarts /\ sup' = [sup EXCEPT ![h].attempts = n]
          BY <3>2, Unpacked, HostsAreHosts DEF Prune, Sups
        <4> HIDE DEF n
        <4> QED
          BY <4>1, SupTyped DEF Sups
      <3> QED
        BY <1>2, <3>1, <3>2
    <2>2. RoleTypeOK'
      BY <2>0, <2>1, Unpacked DEF RoleTypeOK, shellVars, Sups
    <2>3. OwnerInv'
      BY <2>0, Unpacked DEF OwnerInv, shellVars
    <2>4. ProcInv'
      BY <2>0, <2>1, Unpacked DEF ProcInv, Spawning
    <2> QED
      BY <2>2, <2>3, <2>4 DEF RoleInv
  <1> QED
    BY <1>1, <1>2

\* --------------------------------------------------------------- the theorem

\* Whoever has a process is the one Host the shell holds, awaits or stops.
LEMMA OneOwner ==
    ASSUME RoleInv
    PROVE  OneFoundation /\ NoOrphanFoundation
  <1> DEFINE Active(h) == sup[h].child # 0 \/ launching[h] # 0
  <1>1. \A h \in Hosts : Active(h) => phase[h] \in Booting \cup {"up"}
    BY Unpacked DEF ProcInv, Spawning, Booting
  <1>2. \A h \in Hosts : Active(h) => h \in {slot, starting, ui.host} \ {0}
    BY <1>1, Unpacked, HostsAreHosts DEF OwnerInv
  <1>3. \A g, h \in Hosts : Active(g) /\ Active(h) => g = h
    BY <1>1, Unpacked, HostsAreHosts DEF OwnerInv
  <1>4. \A h \in Hosts : sup[h].child = 0 \/ launching[h] = 0
    BY Unpacked DEF ProcInv
  <1>5. \A p \in procs : \E h \in Hosts : Active(h) /\ p \in {sup[h].child, launching[h]}
    BY Unpacked DEF ProcInv
  <1>6. NoOrphanFoundation
    BY <1>2, <1>5 DEF NoOrphanFoundation
  <1>7. \A p, q \in procs : p = q
    BY <1>3, <1>4, <1>5, Unpacked
  <1>8. CASE procs = {}
    BY <1>6, <1>8, FS_EmptySet DEF OneFoundation
  <1>9. CASE procs # {}
    <2>1. PICK p : procs = {p}
      BY <1>7, <1>9
    <2>2. Cardinality(procs) = 1
      BY <2>1, FS_Singleton
    <2> QED
      BY <1>6, <2>2 DEF OneFoundation
  <1> QED
    BY <1>8, <1>9

LEMMA RoleInitInv ==
    ASSUME RoleInit
    PROVE  RoleInv
  <1>1. RoleTypeOK
    <2>1. sup \in [Hosts -> Sups]
      BY HostsAreHosts DEF RoleInit, Sups, States
    <2> QED
      BY <2>1, HostsAreHosts
      DEF RoleInit, RoleTypeOK, Sups, IdleUi, BootPhases, MonitorPcs
  <1>2. OwnerInv
    BY HostsAreHosts DEF RoleInit, OwnerInv, IdleUi, Booting
  <1>3. ProcInv
    BY DEF RoleInit, ProcInv, Spawning
  <1> QED
    BY <1>1, <1>2, <1>3 DEF RoleInv

\* At most one Foundation process is alive, and the Host that owns it is held,
\* awaited or being stopped by the shell (FoundationSupervisor, App::start_host,
\* Host::stop): for every restart budget and any number of Hosts and processes,
\* however role switches, boots, respawns, stops and crashes interleave.
THEOREM OwnedFoundation == RoleSpec => []FoundationOwned
  <1>1. RoleInit => RoleInv
    BY RoleInitInv
  <1>2. RoleInv /\ [RoleNext]_roleVars => RoleInv'
    <2> SUFFICES ASSUME RoleInv, [RoleNext]_roleVars PROVE RoleInv'
      OBVIOUS
    <2>1. CASE UNCHANGED roleVars
      BY <2>1 DEF roleVars, RoleInv, RoleTypeOK, OwnerInv, ProcInv, Spawning
    <2> QED
      BY <2>1, ShellStep, BootStep, LaunchStep, CommitSpawnedStep, CommitFailedStep,
         MonitorStep, OutsideStep DEF RoleNext
  <1>3. RoleInv => FoundationOwned
    BY OneOwner DEF RoleInv, FoundationOwned
  <1> QED
    BY <1>1, <1>2, <1>3, PTL DEF RoleSpec

(***************************************************************************)
(* The properties of HostAuthority for every set of remotes, lease length, *)
(* generation ring, set of monitors and stream cap.                        *)
(***************************************************************************)

\* ---------------------------------------------------- the inductive invariant

\* A held lease and the ticks since it was granted add up to its length, and
\* time does not run past the watchdog's tick.
LeaseInv ==
    /\ lease \in [st : {"local", "held", "degraded"}, owner : Remotes \cup {"none"},
                  gen : 0..(GenRing - 1), left : Int]
    /\ quiet \in Nat
    /\ lease.st = "held" => /\ lease.left \in -1..LeaseMs
                            /\ quiet = LeaseMs - lease.left

\* Entries are found under identities of the ring of models.
RegistryInv ==
    /\ DOMAIN registry \subseteq 0..(Models - 1)
    /\ registry \in [DOMAIN registry -> [at : Int, connected : BOOLEAN, streaming : BOOLEAN]]
    /\ plugged \in DisplayLists
    /\ StreamsBounded

AuthorityInv == LeaseInv /\ NoOrphanProtection /\ RegistryInv

\* ------------------------------------------------------------- the registry

\* What a list of displays is.
LEMMA DisplayListFacts ==
    ASSUME NEW l \in DisplayLists
    PROVE  /\ \E n \in 0..Monitors : DOMAIN l = 1..n
           /\ \A k \in DOMAIN l : l[k] \in Nat
  <1>1. PICK n \in 0..Monitors : l \in [1..n -> 1..Monitors]
    BY DEF DisplayLists
  <1> QED
    BY <1>1, HostAuthorityAssumption

\* Identities are remainders.
LEMMA OutputIdRange ==
    ASSUME NEW m \in Nat
    PROVE  OutputId(m) \in 0..(Models - 1)
  BY HostAuthorityAssumption DEF OutputId

\* The position an entry is given is one of a monitor of that EDID.
LEMMA LastAtFound ==
    ASSUME NEW l \in DisplayLists, NEW id \in OutputIds(l)
    PROVE  LastAt(l, id) \in DOMAIN l /\ OutputId(l[LastAt(l, id)]) = id
  <1>1. PICK n \in 0..Monitors : DOMAIN l = 1..n
    BY DisplayListFacts
  <1> DEFINE Hits == {k \in DOMAIN l : OutputId(l[k]) = id}
             Rest == {n - k : k \in Hits}
  <1>2. n \in Nat /\ Hits \subseteq 1..n /\ Hits # {}
    BY <1>1, HostAuthorityAssumption DEF OutputIds
  <1>3. Rest \subseteq Nat /\ Rest # {}
    BY <1>2
  <1>4. PICK r \in Rest : \A q \in Rest : r <= q
    BY <1>3, LeastNatural
  <1>5. PICK k \in Hits : r = n - k
    BY <1>4
  <1>6. \A j \in Hits : j <= k
    <2> SUFFICES ASSUME NEW j \in Hits PROVE j <= k
      OBVIOUS
    <2>1. n - j \in Rest
      OBVIOUS
    <2>2. n - k <= n - j
      BY <1>4, <1>5, <2>1
    <2> QED
      BY <1>2, <2>2
  <1>7. /\ k \in DOMAIN l /\ OutputId(l[k]) = id
        /\ \A j \in DOMAIN l : OutputId(l[j]) = id => j <= k
    BY <1>5, <1>6
  <1> QED
    BY <1>7 DEF LastAt

\* Sets of identities are finite.
LEMMA FewStreams ==
    ASSUME NEW S, S \subseteq 0..(Models - 1)
    PROVE  IsFiniteSet(S) /\ Cardinality(S) \in Nat
  <1>1. IsFiniteSet(0..(Models - 1))
    BY FS_Interval, HostAuthorityAssumption
  <1> QED
    BY <1>1, FS_Subset, FS_CardinalityType

\* A display change: no stream is started by it.
LEMMA EnumerateStep ==
    ASSUME RegistryInv, NEW l \in DisplayLists, Enumerate(l)
    PROVE  RegistryInv'
  <1> DEFINE Before(id) == IF id \in DOMAIN registry THEN registry[id] ELSE Fresh
             Ids == DOMAIN registry \union OutputIds(l)
             Entry == [at : Int, connected : BOOLEAN, streaming : BOOLEAN]
  <1>1. plugged' = l /\ registry' = [id \in Ids |-> EntryAfter(Before(id), l, id)]
    BY DEF Enumerate
  <1>2. Ids \subseteq 0..(Models - 1)
    BY DisplayListFacts, OutputIdRange DEF OutputIds, RegistryInv
  <1>3. \A id \in Ids : Before(id) \in Entry
    BY DEF RegistryInv, Fresh
  <1>4. ASSUME NEW id \in Ids
        PROVE  /\ EntryAfter(Before(id), l, id) \in Entry
               /\ EntryAfter(Before(id), l, id).streaming =>
                     /\ Before(id).streaming /\ EntryAfter(Before(id), l, id).connected
    <2>1. CASE id \in OutputIds(l)
      <3>1. LastAt(l, id) \in Int
        BY <2>1, LastAtFound, DisplayListFacts
      <3> QED
        BY <1>3, <2>1, <3>1 DEF EntryAfter
    <2>2. CASE id \notin OutputIds(l)
      BY <1>3, <2>2 DEF EntryAfter
    <2> QED
      BY <2>1, <2>2
  <1> HIDE DEF Before
  <1>5. /\ DOMAIN registry' = Ids /\ registry' \in [Ids -> Entry]
        /\ \A id \in Ids : registry'[id] = EntryAfter(Before(id), l, id)
    BY <1>1, <1>4
  <1>6. \A id \in Ids : Before(id).streaming => id \in StreamingIds
    BY DEF Before, Fresh, StreamingIds
  <1>7. StreamingIds' \subseteq StreamingIds /\ \A id \in StreamingIds' : registry'[id].connected
    BY <1>4, <1>5, <1>6 DEF StreamingIds
  <1>8. Cardinality(StreamingIds') <= Cardinality(StreamingIds)
    <2>1. StreamingIds \subseteq 0..(Models - 1)
      BY DEF RegistryInv, StreamingIds
    <2> QED
      BY <1>7, <2>1, FewStreams, FS_Subset
  <1>9. Cardinality(StreamingIds') <= MaxStreams
    <2>1. /\ StreamingIds \subseteq 0..(Models - 1) /\ StreamingIds' \subseteq 0..(Models - 1)
      BY <1>7 DEF RegistryInv, StreamingIds
    <2>2. Cardinality(StreamingIds) \in Nat /\ Cardinality(StreamingIds') \in Nat
      BY <2>1, FewStreams
    <2> QED
      BY <1>8, <2>2, HostAuthorityAssumption DEF RegistryInv, StreamsBounded
  <1> QED
    BY <1>1, <1>2, <1>5, <1>7, <1>9 DEF RegistryInv, StreamsBounded

\* try_stream adds one stream below the cap, on a connected output.
LEMMA TryStreamStep ==
    ASSUME RegistryInv, NEW i \in Nat, TryStream(i)
    PROVE  RegistryInv'
  <1> DEFINE Entry == [at : Int, connected : BOOLEAN, streaming : BOOLEAN]
  <1>1. /\ i \in DOMAIN registry /\ registry[i].connected /\ plugged' = plugged
        /\ registry' = [registry EXCEPT ![i].streaming = TRUE]
        /\ Cardinality(StreamingIds) < MaxStreams
    BY DEF TryStream, StreamsBelowCap
  <1>2. /\ DOMAIN registry' = DOMAIN registry /\ registry' \in [DOMAIN registry -> Entry]
        /\ \A j \in DOMAIN registry : registry'[j].connected = registry[j].connected
    BY <1>1 DEF RegistryInv
  <1>3. StreamingIds' = StreamingIds \cup {i}
    BY <1>1, <1>2 DEF StreamingIds, RegistryInv
  <1>4. StreamingIds \subseteq 0..(Models - 1) /\ IsFiniteSet(StreamingIds)
        /\ Cardinality(StreamingIds) \in Nat
    BY FewStreams DEF RegistryInv, StreamingIds
  <1>5. Cardinality(StreamingIds') <= MaxStreams
    <2>1. Cardinality(StreamingIds \cup {i}) \in {Cardinality(StreamingIds), Cardinality(StreamingIds) + 1}
      BY <1>4, FS_AddElement
    <2> QED
      BY <1>1, <1>3, <1>4, <2>1, HostAuthorityAssumption
  <1>6. \A j \in StreamingIds' : registry'[j].connected
    BY <1>1, <1>2, <1>3 DEF RegistryInv, StreamsBounded, StreamingIds
  <1> QED
    BY <1>1, <1>2, <1>5, <1>6 DEF RegistryInv, StreamsBounded

\* stop_stream.
LEMMA StopStreamStep ==
    ASSUME RegistryInv, NEW i \in Nat, StopStream(i)
    PROVE  RegistryInv'
  <1> DEFINE Entry == [at : Int, connected : BOOLEAN, streaming : BOOLEAN]
  <1>1. /\ i \in DOMAIN registry /\ plugged' = plugged
        /\ registry' = [registry EXCEPT ![i].streaming = FALSE]
    BY DEF StopStream
  <1>2. /\ DOMAIN registry' = DOMAIN registry /\ registry' \in [DOMAIN registry -> Entry]
        /\ \A j \in DOMAIN registry : registry'[j].connected = registry[j].connected
    BY <1>1 DEF RegistryInv
  <1>3. StreamingIds' \subseteq StreamingIds
    BY <1>1, <1>2 DEF StreamingIds, RegistryInv
  <1>4. StreamingIds \subseteq 0..(Models - 1) /\ StreamingIds' \subseteq 0..(Models - 1)
    BY <1>3 DEF RegistryInv, StreamingIds
  <1>5. Cardinality(StreamingIds') <= MaxStreams
    <2>1. /\ Cardinality(StreamingIds) \in Nat /\ Cardinality(StreamingIds') \in Nat
          /\ IsFiniteSet(StreamingIds)
      BY <1>4, FewStreams
    <2>2. Cardinality(StreamingIds') <= Cardinality(StreamingIds)
      BY <1>3, <2>1, FS_Subset
    <2> QED
      BY <2>1, <2>2, HostAuthorityAssumption DEF RegistryInv, StreamsBounded
  <1>6. \A j \in StreamingIds' : registry'[j].connected
    BY <1>2, <1>3 DEF RegistryInv, StreamsBounded, StreamingIds
  <1> QED
    BY <1>1, <1>2, <1>5, <1>6 DEF RegistryInv, StreamsBounded

\* --------------------------------------------------- the lease and the privacy

\* A lease that has been held long enough is over; the others are kept.
LEMMA ExpiresType ==
    ASSUME LeaseInv
    PROVE  /\ Local \in [st : {"local", "held", "degraded"}, owner : Remotes \cup {"none"},
                         gen : 0..(GenRing - 1), left : Int]
           /\ Expires(lease) \in {Local, lease}
           /\ Expires(lease).st = "held" => Expires(lease) = lease /\ lease.left > 0
  BY HostAuthorityAssumption DEF Local, Expires, LeaseInv

\* acquire grants a whole lease and restarts the count, or changes nothing
\* but a lease that was over.
LEMMA AcquireStep ==
    ASSUME LeaseInv, NEW o \in Remotes, NEW g \in 0..(GenRing - 1), Acquire(o, g)
    PROVE  LeaseInv'
  <1>1. Held(o, g) \in [st : {"local", "held", "degraded"}, owner : Remotes \cup {"none"},
                        gen : 0..(GenRing - 1), left : Int]
    BY HostAuthorityAssumption DEF Held
  <1>2. CASE lease' = Held(o, g)
    <2>1. quiet' = 0 /\ lease'.left = LeaseMs
      BY <1>2 DEF Acquire, Held
    <2> QED
      BY <1>1, <1>2, <2>1, HostAuthorityAssumption DEF LeaseInv
  <1>3. CASE lease' # Held(o, g)
    <2>1. lease' = Expires(lease) /\ quiet' = quiet
      BY <1>3 DEF Acquire, Grants
    <2> QED
      BY <2>1, ExpiresType DEF LeaseInv, Local
  <1> QED
    BY <1>2, <1>3

\* Time, releases, faults and reboots.
LEMMA LeaseOtherStep ==
    ASSUME LeaseInv,
           \/ LeaseTick \/ WatchdogPoll \/ Fault \/ ClearFault \/ Reboot
           \/ \E o \in Remotes : Releases(o)
    PROVE  LeaseInv'
  <1>1. CASE LeaseTick
    <2>1. CASE lease.st = "held"
      <3>1. /\ lease.left \in 0..LeaseMs /\ quiet = LeaseMs - lease.left
        BY <1>1, <2>1, HostAuthorityAssumption DEF LeaseTick, LeaseInv
      <3>2. /\ lease' = [lease EXCEPT !.left = @ - 1] /\ quiet' = quiet + 1
        BY <1>1, <2>1, <3>1, HostAuthorityAssumption DEF LeaseTick, LeaseInv
      <3> QED
        BY <3>1, <3>2, HostAuthorityAssumption DEF LeaseInv
    <2>2. CASE lease.st # "held"
      <3>1. lease' = lease /\ quiet' \in Nat
        BY <1>1, <2>2, HostAuthorityAssumption DEF LeaseTick, LeaseInv
      <3> QED
        BY <2>2, <3>1 DEF LeaseInv
    <2> QED
      BY <2>1, <2>2
  <1>2. CASE \/ lease' \in {lease, Local, [Local EXCEPT !.st = "degraded"]} /\ quiet' = quiet
             \/ lease' = Local /\ quiet' = LeaseMs + 2
    BY <1>2, HostAuthorityAssumption DEF LeaseInv, Local
  <1>3. CASE WatchdogPoll \/ Fault \/ ClearFault \/ Reboot \/ \E o \in Remotes : Releases(o)
    BY <1>2, <1>3, ExpiresType DEF WatchdogPoll, Fault, ClearFault, Reboot, Releases, Recovered
  <1> QED
    BY <1>1, <1>3

\* Re-engaging starts from nothing in force, a failure leaves nothing in
\* force, and a success leaves what was asked for.
LEMMA PrivacyOneStep ==
    ASSUME NoOrphanProtection,
           \/ \E a \in SUBSET (PROTECT_ALL \union {"future"}), f \in SUBSET PROTECT_ALL : Engage(a, f)
           \/ Disengage \/ FailOpen
    PROVE  NoOrphanProtection'
  <1>1. CleanBase(inForce) = {} /\ inForce \ privacy.protections = {}
    BY DEF NoOrphanProtection, CleanBase
  <1>2. ASSUME privacy' = Off, inForce' = {}, \E s : reported' = Report(Off, s)
        PROVE  NoOrphanProtection'
    <2>1. PICK s : reported' = Report(Off, s)
      BY <1>2
    <2>2. /\ privacy'.protections = {} /\ privacy'.active = FALSE
          /\ reported'.protections = {} /\ reported'.active = FALSE
      BY <1>2, <2>1 DEF Off, Report
    <2> QED
      BY <1>2, <2>2 DEF NoOrphanProtection
  <1>3. ASSUME NEW a \in SUBSET (PROTECT_ALL \union {"future"}), NEW f \in SUBSET PROTECT_ALL,
               Engage(a, f)
        PROVE  NoOrphanProtection'
    <2>1. CASE EngageRefused(a)
      BY <1>3, <2>1 DEF Engage, NoOrphanProtection, Report
    <2>2. CASE ~EngageRefused(a) /\ a \intersect f # {}
      <3>1. inForce' = {} /\ privacy' = Off /\ reported' = Report(Off, "rejected")
        BY <1>1, <1>3, <2>2 DEF Engage, AfterFailure
      <3> QED
        BY <1>2, <3>1
    <2>3. CASE ~EngageRefused(a) /\ a \intersect f = {}
      <3>1. /\ inForce' = a /\ a # {} /\ privacy' = [active |-> TRUE, protections |-> a]
            /\ reported' = Report(privacy', "applied")
        BY <1>1, <1>3, <2>3 DEF Engage, EngageRefused
      <3> QED
        BY <3>1 DEF NoOrphanProtection, Report
    <2> QED
      BY <2>1, <2>2, <2>3
  <1>4. CASE Disengage \/ FailOpen
    BY <1>1, <1>2, <1>4 DEF Disengage, FailOpen
  <1> QED
    BY <1>3, <1>4

\* --------------------------------------------------------------- the theorems

LEMMA AuthorityStart == AuthorityInit => AuthorityInv
  <1> SUFFICES ASSUME AuthorityInit PROVE AuthorityInv
    OBVIOUS
  <1>1. LeaseInv
    BY HostAuthorityAssumption DEF AuthorityInit, LeaseInv, Local
  <1>2. NoOrphanProtection
    BY DEF AuthorityInit, NoOrphanProtection, Off, Report
  <1>3. RegistryInv
    <2>1. DOMAIN registry = {} /\ StreamingIds = {}
      BY DEF AuthorityInit, StreamingIds
    <2>2. Cardinality(StreamingIds) = 0
      BY <2>1, FS_EmptySet
    <2>3. << >> \in DisplayLists
      <3>1. << >> \in [1..0 -> 1..Monitors] /\ 0 \in 0..Monitors /\ DOMAIN << >> = {}
        BY HostAuthorityAssumption
      <3> QED
        BY <3>1 DEF DisplayLists
    <2> QED
      BY <2>1, <2>2, <2>3, HostAuthorityAssumption DEF AuthorityInit, RegistryInv, StreamsBounded
  <1> QED
    BY <1>1, <1>2, <1>3 DEF AuthorityInv

\* Each of the three parts leaves the other two alone.
LEMMA AuthorityStep == AuthorityInv /\ [AuthorityNext]_authorityVars => AuthorityInv'
  <1> SUFFICES ASSUME AuthorityInv, [AuthorityNext]_authorityVars PROVE AuthorityInv'
    OBVIOUS
  <1>0. LeaseInv /\ NoOrphanProtection /\ RegistryInv
    BY DEF AuthorityInv
  <1>1. UNCHANGED holdVars => LeaseInv'
    BY <1>0 DEF holdVars, LeaseInv
  <1>2. UNCHANGED privacyVars => NoOrphanProtection'
    BY <1>0 DEF privacyVars, NoOrphanProtection
  <1>3. UNCHANGED registryVars => RegistryInv'
    BY <1>0 DEF registryVars, RegistryInv, StreamsBounded, StreamingIds
  <1>4. CASE \/ \E o \in Remotes, g \in 0..(GenRing - 1) : Acquire(o, g)
             \/ LeaseTick \/ WatchdogPoll \/ Fault \/ ClearFault \/ Reboot
             \/ \E o \in Remotes : Releases(o)
    <2>1. LeaseInv'
      BY <1>0, <1>4, AcquireStep, LeaseOtherStep
    <2>2. UNCHANGED <<privacyVars, registryVars>>
      BY <1>4 DEF Acquire, LeaseTick, WatchdogPoll, Fault, ClearFault, Reboot, Releases, LeaseStep
    <2> QED
      BY <1>2, <1>3, <2>1, <2>2 DEF AuthorityInv
  <1>5. CASE \/ \E a \in SUBSET (PROTECT_ALL \union {"future"}), f \in SUBSET PROTECT_ALL : Engage(a, f)
             \/ Disengage \/ FailOpen
    <2>1. NoOrphanProtection'
      BY <1>0, <1>5, PrivacyOneStep
    <2>2. UNCHANGED <<holdVars, registryVars>>
      BY <1>5 DEF Engage, Disengage, FailOpen, PrivacyStep
    <2> QED
      BY <1>1, <1>3, <2>1, <2>2 DEF AuthorityInv
  <1>6. CASE \/ \E l \in DisplayLists : Enumerate(l)
             \/ \E m \in 1..Monitors : TryStream(OutputId(m)) \/ StopStream(OutputId(m))
    <2>1. RegistryInv'
      <3>1. \A m \in 1..Monitors : OutputId(m) \in Nat
        BY OutputIdRange, HostAuthorityAssumption
      <3> QED
        BY <1>0, <1>6, <3>1, EnumerateStep, TryStreamStep, StopStreamStep
    <2>2. UNCHANGED <<holdVars, privacyVars>>
      BY <1>6 DEF Enumerate, TryStream, StopStream, RegistryStep
    <2> QED
      BY <1>1, <1>2, <2>1, <2>2 DEF AuthorityInv
  <1>7. CASE UNCHANGED authorityVars
    BY <1>1, <1>2, <1>3, <1>7 DEF AuthorityInv, authorityVars
  <1> QED
    BY <1>4, <1>5, <1>6, <1>7 DEF AuthorityNext

LEMMA AuthorityInvariance == AuthoritySpec => []AuthorityInv
  BY AuthorityStart, AuthorityStep, PTL DEF AuthoritySpec

\* Nothing outlives its owner (host_authority.rs, privacy_mode.rs,
\* output_registry.rs), for every lease length, ring, set of remotes and
\* monitors, and cap: a lease nobody is granted lapses within its length and
\* the watchdog's tick, no protection stays in force that is not recorded and
\* reported, and streams stay on connected outputs below the cap.
THEOREM FailsOpen == AuthoritySpec => []AuthorityFailsOpen
  <1>1. AuthorityInv => AuthorityFailsOpen
    <2> SUFFICES ASSUME AuthorityInv PROVE AuthorityFailsOpen
      OBVIOUS
    <2>1. FailsOpenInTime
      BY HostAuthorityAssumption DEF AuthorityInv, LeaseInv, FailsOpenInTime
    <2> QED
      BY <2>1 DEF AuthorityInv, RegistryInv, AuthorityFailsOpen
  <1> QED
    BY <1>1, AuthorityInvariance, PTL

\* Neither a live lease nor a streaming output changes hands by an event that
\* does not concern it (acquire, enumerate).
THEOREM Undisturbed == AuthoritySpec => AuthorityUndisturbed
  <1> DEFINE HolderStep ==
                lease.st = "held" /\ lease'.st = "held" =>
                   \/ lease'.owner = lease.owner /\ NewerOwnership(lease'.gen, lease.gen)
                   \/ lease.left <= 0
             StableStep ==
                \A id \in StreamingIds :
                   /\ \A k \in DOMAIN plugged' : OutputId(plugged'[k]) = id /\ plugged' # plugged =>
                         registry'[id].streaming /\ OutputId(plugged'[registry'[id].at]) = id
  <1>1. ASSUME AuthorityInv, [AuthorityNext]_authorityVars PROVE HolderStep
    <2> SUFFICES ASSUME lease.st = "held", lease'.st = "held"
                 PROVE  \/ lease'.owner = lease.owner /\ NewerOwnership(lease'.gen, lease.gen)
                        \/ lease.left <= 0
      OBVIOUS
    <2>0. LeaseInv
      BY <1>1 DEF AuthorityInv
    <2>1. ASSUME NEW o \in Remotes, NEW g \in 0..(GenRing - 1), Acquire(o, g), lease.left > 0
          PROVE  lease'.owner = lease.owner /\ NewerOwnership(lease'.gen, lease.gen)
      <3>1. Expires(lease) = lease
        BY <2>0, <2>1 DEF Expires, LeaseInv
      <3>2. lease' = Grants(lease, o, g)
        BY <2>1, <3>1 DEF Acquire
      <3> QED
        BY <3>2 DEF Grants, Held, NewerOwnership
    <2>2. ASSUME lease' = lease \/ lease' = [lease EXCEPT !.left = @ - 1]
          PROVE  lease'.owner = lease.owner /\ NewerOwnership(lease'.gen, lease.gen)
      BY <2>0, <2>2 DEF NewerOwnership, LeaseInv
    <2>3. CASE LeaseTick
      BY <2>2, <2>3 DEF LeaseTick
    <2>4. CASE WatchdogPoll \/ Fault \/ ClearFault \/ Reboot \/ \E o \in Remotes : Releases(o)
      BY <2>2, <2>4 DEF WatchdogPoll, Fault, ClearFault, Reboot, Releases, Recovered, Expires, Local
    <2>5. CASE UNCHANGED holdVars
      BY <2>2, <2>5 DEF holdVars
    <2>6. CASE \/ \E a \in SUBSET (PROTECT_ALL \union {"future"}), f \in SUBSET PROTECT_ALL : Engage(a, f)
               \/ Disengage \/ FailOpen
               \/ \E l \in DisplayLists : Enumerate(l)
               \/ \E m \in 1..Monitors : TryStream(OutputId(m)) \/ StopStream(OutputId(m))
      <3>1. UNCHANGED holdVars
        BY <2>6 DEF Engage, Disengage, FailOpen, PrivacyStep, Enumerate, TryStream, StopStream, RegistryStep
      <3> QED
        BY <2>5, <3>1
    <2>7. CASE \E o \in Remotes, g \in 0..(GenRing - 1) : Acquire(o, g)
      <3>1. lease.left > 0 \/ lease.left <= 0
        BY <2>0 DEF LeaseInv
      <3> QED
        BY <2>1, <2>7, <3>1
    <2> QED
      BY <1>1, <2>3, <2>4, <2>5, <2>6, <2>7 DEF AuthorityNext, authorityVars
  <1>2. ASSUME AuthorityInv, [AuthorityNext]_authorityVars PROVE StableStep
    <2>0. RegistryInv
      BY <1>2 DEF AuthorityInv
    <2>1. ASSUME NEW l \in DisplayLists, Enumerate(l) PROVE StableStep
      <3> SUFFICES ASSUME NEW id \in StreamingIds, NEW k \in DOMAIN plugged',
                          OutputId(plugged'[k]) = id
                   PROVE  registry'[id].streaming /\ OutputId(plugged'[registry'[id].at]) = id
        OBVIOUS
      <3>1. plugged' = l /\ id \in DOMAIN registry /\ registry[id].streaming
        BY <2>1 DEF Enumerate, StreamingIds
      <3>2. id \in OutputIds(l)
        BY <3>1 DEF OutputIds
      <3>3. registry'[id] = EntryAfter(registry[id], l, id)
        BY <2>1, <3>1 DEF Enumerate
      <3>4. registry'[id].streaming = registry[id].streaming /\ registry'[id].at = LastAt(l, id)
        BY <2>0, <3>1, <3>2, <3>3 DEF EntryAfter, RegistryInv
      <3> QED
        BY <3>1, <3>2, <3>4, LastAtFound
    <2>2. CASE plugged' = plugged
      BY <2>2
    <2>3. CASE ~\E l \in DisplayLists : Enumerate(l)
      BY <1>2, <2>2, <2>3
      DEF AuthorityNext, Acquire, LeaseTick, WatchdogPoll, Fault, ClearFault, Reboot, Releases, LeaseStep,
          Engage, Disengage, FailOpen, PrivacyStep, TryStream, StopStream, registryVars, authorityVars
    <2> QED
      BY <2>1, <2>3
  <1>3. AuthorityInv /\ [AuthorityNext]_authorityVars => [HolderStep]_authorityVars /\ [StableStep]_authorityVars
    BY <1>1, <1>2
  <1>4. AuthoritySpec => [][HolderStep]_authorityVars /\ [][StableStep]_authorityVars
    BY <1>3, AuthorityInvariance, PTL DEF AuthoritySpec
  <1> QED
    BY <1>4 DEF AuthorityUndisturbed, HolderUndisturbed, IdentityStable

(***************************************************************************)
(* The property of VirtualDisplay for every timing in which the pause      *)
(* after an ADD fits into the driver's watchdog.                           *)
(***************************************************************************)

\* ---------------------------------------------------- the inductive invariant

DisplayTypes ==
    /\ daemon \in {"ensure", "settle", "loop", "cleanup", "done"}
    /\ handle \in {"none", "open", "stale"} /\ idx \in Slots \cup {-1}
    /\ testing \in BOOLEAN /\ muddled \in BOOLEAN
    /\ displays \subseteq Slots /\ unpinged \in Nat

\* The daemon forgets its index with its handle, and opens neither before its
\* first ensure.
ForgottenTogether ==
    /\ handle = "none" => idx = -1
    /\ daemon = "ensure" => handle = "none"

\* A display that was added and not yet pinged is there as well.
HeldIsAttached ==
    daemon \in {"settle", "loop"} /\ handle = "open" /\ idx >= 0 /\ ~muddled => displays # {}

DisplayInv == DisplayTypes /\ ForgottenTogether /\ StrayNeedsMuddle /\ HeldIsAttached

\* ----------------------------------------------------------------- the driver

LEMMA Timing ==
    /\ Watchdog \in Nat /\ Attach \in Nat /\ Settle \in Nat /\ Attach + 1 <= Watchdog
    /\ 1 <= Watchdog /\ Slots \subseteq Nat /\ -1 \notin Slots
  BY DisplayAssumption

\* The driver finds an index as long as one is free.
LEMMA NextIndexFree ==
    ASSUME Free # {}
    PROVE  NextIndex \in Free
  <1>1. Free \subseteq Nat
    BY Timing DEF Free
  <1>2. \E i \in Free : \A j \in Free : ~(<<j, i>> \in OpToRel(<, Nat))
    BY <1>1, WFMin, NatLessThanWellFounded
  <1>3. PICK i \in Free : \A j \in Free : ~(<<j, i>> \in OpToRel(<, Nat))
    BY <1>2
  <1>4. \A j \in Free : ~(j < i)
    BY <1>1, <1>3 DEF OpToRel
  <1>5. \A j \in Free : i <= j
    BY <1>1, <1>4
  <1> QED
    BY <1>5 DEF NextIndex

\* Within the watchdog's time nothing is let go.
LEMMA ElapseKeeps ==
    ASSUME NEW since \in Nat, NEW n \in Nat, NEW before, Elapse(since, n, before)
    PROVE  /\ unpinged' \in Nat /\ displays' \in {before, {}}
           /\ since + n <= Watchdog => displays' = before
  BY Timing DEF Elapse

\* ------------------------------------------------------------------- the steps

LEMMA EnsureStep ==
    ASSUME DisplayInv, Ensure
    PROVE  DisplayInv'
  <1>0. /\ DisplayTypes /\ ForgottenTogether /\ StrayNeedsMuddle
        /\ unpinged \in Nat /\ displays \subseteq Slots /\ testing' = testing
        /\ daemon \in {"ensure", "loop"}
    BY DEF DisplayInv, DisplayTypes, Ensure
  <1>1. idx = -1
    BY <1>0, Timing DEF Ensure, DisplayTypes, ForgottenTogether
  <1>2. ~muddled => displays = {}
    BY <1>0, <1>1, Timing DEF StrayNeedsMuddle
  <1>3. /\ AfterEnsure(TRUE) \in {"settle", "loop"}
        /\ AfterEnsure(FALSE) \in {"settle", "loop", "done"}
    BY <1>0 DEF AfterEnsure
  <1>4. CASE OpenFails
    <2>1. /\ handle = "none" /\ daemon' \in {"settle", "loop", "done"} /\ UNCHANGED <<handle, idx, muddled>>
          /\ Elapse(unpinged, 1, displays)
      BY <1>3, <1>4 DEF OpenFails
    <2>2. unpinged' \in Nat /\ displays' \in {displays, {}}
      BY <1>0, <2>1, ElapseKeeps
    <2> QED
      BY <1>0, <1>2, <2>1, <2>2
      DEF DisplayInv, DisplayTypes, ForgottenTogether, StrayNeedsMuddle, HeldIsAttached
  <1>5. CASE AddFails
    <2>1. /\ muddled' = TRUE /\ handle' = "none" /\ idx' = -1 /\ daemon' \in {"settle", "loop", "done"}
      BY <1>3, <1>5 DEF AddFails
    <2>2. PICK after \in {displays} \union {displays \union {i} : i \in Free} : Elapse(unpinged, 1, after)
      BY <1>5 DEF AddFails
    <2>3. unpinged' \in Nat /\ displays' \in {after, {}} /\ after \subseteq Slots
      BY <1>0, <2>2, ElapseKeeps DEF Free
    <2> QED
      BY <1>0, <2>1, <2>3
      DEF DisplayInv, DisplayTypes, ForgottenTogether, StrayNeedsMuddle, HeldIsAttached
  <1>6. CASE AddSucceeds
    <2> DEFINE n == Attach + (IF daemon = "loop" THEN PingPeriod ELSE 0)
    <2>1. /\ Free # {} /\ handle' = "open" /\ idx' = NextIndex /\ daemon' \in {"settle", "loop"}
          /\ Elapse(0, n, displays \union {NextIndex})
          /\ muddled' = (muddled /\ displays # {})
      BY <1>3, <1>6 DEF AddSucceeds
    <2>2. NextIndex \in Slots
      BY <2>1, NextIndexFree DEF Free
    <2>3. n \in Nat /\ 0 + n <= Watchdog
      BY Timing DEF PingPeriod
    <2> HIDE DEF n
    <2>4. unpinged' \in Nat /\ displays' = displays \union {NextIndex}
      BY <2>1, <2>3, ElapseKeeps
    <2>5. muddled' \in BOOLEAN /\ (~muddled' => displays = {})
      BY <1>2, <2>1
    <2>6. DisplayTypes'
      BY <1>0, <2>1, <2>2, <2>4, <2>5 DEF DisplayTypes
    <2> QED
      BY <2>1, <2>4, <2>5, <2>6 DEF DisplayInv, ForgottenTogether, StrayNeedsMuddle, HeldIsAttached
  <1>7. CASE AddUnpinged
    <2>1. /\ Free # {} /\ handle' = "open" /\ idx' = NextIndex /\ daemon' \in {"settle", "loop"}
          /\ muddled' = TRUE
      BY <1>3, <1>7 DEF AddUnpinged
    <2>2. PICK n \in {Attach, Attach + Watchdog + 1} : Elapse(unpinged, n, displays \union {NextIndex})
      BY <1>7 DEF AddUnpinged
    <2>3. NextIndex \in Slots /\ n \in Nat
      BY <2>1, <2>2, NextIndexFree, Timing DEF Free
    <2>4. unpinged' \in Nat /\ displays' \in {displays \union {NextIndex}, {}}
      BY <1>0, <2>2, <2>3, ElapseKeeps
    <2> QED
      BY <1>0, <2>1, <2>3, <2>4
      DEF DisplayInv, DisplayTypes, ForgottenTogether, StrayNeedsMuddle, HeldIsAttached
  <1> QED
    BY <1>4, <1>5, <1>6, <1>7 DEF Ensure

\* The loop's pings and pumps.
LEMMA LoopStep ==
    ASSUME DisplayInv, SettlePump \/ Ping \/ PingFails
    PROVE  DisplayInv'
  <1>0. /\ DisplayTypes /\ ForgottenTogether /\ StrayNeedsMuddle /\ HeldIsAttached
        /\ unpinged \in Nat /\ displays \subseteq Slots /\ muddled \in BOOLEAN
    BY DEF DisplayInv, DisplayTypes
  <1>1. CASE SettlePump
    <2>1. /\ daemon = "settle" /\ daemon' = "loop" /\ UNCHANGED <<handle, idx, testing>>
          /\ Elapse(unpinged, Settle, displays)
          /\ muddled' = (muddled \/ unpinged + Settle > Watchdog)
      BY <1>1 DEF SettlePump
    <2>2. /\ unpinged' \in Nat /\ displays' \in {displays, {}}
          /\ unpinged + Settle <= Watchdog => displays' = displays
      BY <1>0, <2>1, Timing, ElapseKeeps
    <2> DEFINE late == unpinged + Settle > Watchdog
    <2>3. ~late => unpinged + Settle <= Watchdog
      BY <1>0, Timing
    <2>4. muddled' = (muddled \/ late)
      BY <2>1
    <2> HIDE DEF late
    <2>5. muddled' \in BOOLEAN /\ (~muddled' => ~muddled /\ ~late)
      BY <1>0, <2>4, Zenon
    <2> QED
      BY <1>0, <2>1, <2>2, <2>3, <2>5
      DEF DisplayInv, DisplayTypes, ForgottenTogether, StrayNeedsMuddle, HeldIsAttached
  <1>2. CASE Ping
    <2>1. /\ UNCHANGED <<daemon, handle, idx, testing, muddled>> /\ Elapse(0, PingPeriod, displays)
      BY <1>2 DEF Ping
    <2>2. unpinged' \in Nat /\ displays' = displays
      BY <2>1, Timing, ElapseKeeps DEF PingPeriod
    <2> QED
      BY <1>0, <2>1, <2>2
      DEF DisplayInv, DisplayTypes, ForgottenTogether, StrayNeedsMuddle, HeldIsAttached
  <1>3. CASE PingFails
    <2>1. /\ daemon = "loop" /\ handle # "none" /\ UNCHANGED <<daemon, testing>> /\ muddled' = TRUE
          /\ (handle' = "none" /\ idx' = -1) \/ UNCHANGED <<handle, idx>>
      BY <1>3 DEF PingFails
    <2>2. PICK n \in {PingPeriod, Watchdog + 1} : Elapse(unpinged, n, displays)
      BY <1>3 DEF PingFails
    <2>3. n \in Nat
      BY Timing DEF PingPeriod
    <2>4. unpinged' \in Nat /\ displays' \in {displays, {}}
      BY <1>0, <2>2, <2>3, ElapseKeeps
    <2> QED
      BY <1>0, <2>1, <2>4
      DEF DisplayInv, DisplayTypes, ForgottenTogether, StrayNeedsMuddle, HeldIsAttached
  <1> QED
    BY <1>1, <1>2, <1>3

\* The end of a test, a restarted driver and --remove-all.
LEMMA DisplayOutsideStep ==
    ASSUME DisplayInv, DriverRestarts \/ Deadline \/ RemoveAll
    PROVE  DisplayInv'
  <1>1. CASE DriverRestarts \/ RemoveAll
    <2>1. /\ UNCHANGED <<daemon, idx, testing>> /\ displays' = {} /\ unpinged' = 0 /\ muddled' = TRUE
          /\ handle' = handle \/ (handle = "open" /\ handle' = "stale")
      BY <1>1 DEF DriverRestarts, RemoveAll
    <2> QED
      BY <2>1 DEF DisplayInv, DisplayTypes, ForgottenTogether, StrayNeedsMuddle, HeldIsAttached
  <1>2. CASE Deadline
    <2>1. /\ daemon' = "done" /\ UNCHANGED <<testing, muddled>> /\ idx' = -1 /\ unpinged' = 0
          /\ handle' \in {"none", handle} /\ displays' \subseteq displays
      BY <1>2 DEF Deadline
    <2> QED
      BY <2>1 DEF DisplayInv, DisplayTypes, ForgottenTogether, StrayNeedsMuddle, HeldIsAttached
  <1> QED
    BY <1>1, <1>2

\* --------------------------------------------------------------- the theorem

\* The daemon keeps exactly its display (parsec-vdd-keepalive run): it never
\* keeps a second one or one under another index, and its ping loop by itself
\* never lets the display go, for every timing that leaves room for the pause
\* after an ADD.
THEOREM KeptDisplay == DisplaySpec => []DisplayKept
  <1>1. DisplayInit => DisplayInv
    <2> SUFFICES ASSUME DisplayInit PROVE DisplayInv
      OBVIOUS
    <2>1. testing \in BOOLEAN /\ muddled \in BOOLEAN
      BY Zenon DEF DisplayInit
    <2>2. /\ daemon = "ensure" /\ handle = "none" /\ idx = -1 /\ displays = {} /\ unpinged = 0
      BY DEF DisplayInit
    <2> QED
      BY <2>1, <2>2 DEF DisplayInv, DisplayTypes, ForgottenTogether, StrayNeedsMuddle, HeldIsAttached
  <1>2. DisplayInv /\ [DisplayNext]_displayVars => DisplayInv'
    <2> SUFFICES ASSUME DisplayInv, [DisplayNext]_displayVars PROVE DisplayInv'
      OBVIOUS
    <2>1. CASE UNCHANGED displayVars
      BY <2>1 DEF displayVars, DisplayInv, DisplayTypes, ForgottenTogether, StrayNeedsMuddle, HeldIsAttached
    <2> QED
      BY <2>1, EnsureStep, LoopStep, DisplayOutsideStep DEF DisplayNext
  <1>3. DisplayInv => DisplayKept
    BY DEF DisplayInv, HeldIsAttached, LoopKeepsDisplay, DisplayKept
  <1> QED
    BY <1>1, <1>2, <1>3, PTL DEF DisplaySpec

(***************************************************************************)
(* An installation survives any number of starts, updates, errors and      *)
(* crashes.                                                                *)
(*                                                                         *)
(* Of the swap the invariant says, at each step, whether the old set is    *)
(* still installed or kept under the name the journal has, and that there  *)
(* are fewer kept sets than stamps.  Of the migration it says which of     *)
(* destination and backup is whole, and how far the current step has got.  *)
(***************************************************************************)

\* ---------------------------------------------------- the update swap

Runs == [pc : Steps \cup {"idle"}, outgoing : Names, prev : Prevs]
Journals == [phase : {"none", "torn", "PrevRenamed", "StagedMoved"}, prev : Prevs]

\* Where the old set is at each step of a run.
SwapProgress ==
    /\ run.pc \in {"recover", "forget", "mark_prev", "rename_prev", "move_staged"} => Exists(staged)
    /\ run.pc \in {"forget", "mark_prev"} => (Exists(current) => Exists(install))
    /\ run.pc = "rename_prev" =>
          install = current /\ journal.phase = "PrevRenamed" /\ journal.prev = run.prev
    /\ run.pc \in {"mark_moved", "remove_journal", "copy_manifest"} => Exists(install)

\* Every kept set, the installed and the staged one were staged once, except
\* the set that was there at the start.
Kept == { p \in Prevs : Exists(prevs[p]) }
One(d) == IF Exists(d) THEN 1 ELSE 0
SetsCounted ==
    IsFiniteSet(Kept) /\ Cardinality(Kept) + One(install) + One(staged) <= sets + 1

SwapInv == SwapTypeOK /\ SwapProgress /\ SetsCounted /\ AlwaysRestorable

LEMMA SwapTypes ==
    ASSUME SwapTypeOK
    PROVE  /\ install \in Dirs \cup {NoSet} /\ staged \in Dirs \cup {NoSet}
           /\ current \in Dirs \cup {NoSet}
           /\ prevs \in [Prevs -> Dirs \cup {NoSet}] /\ journal \in Journals /\ run \in Runs
           /\ run.pc \in Steps \cup {"idle"} /\ run.prev \in Prevs /\ run.outgoing \in Names
           /\ journal.prev \in Prevs
           /\ incoming \in Versions /\ stops \in 0..MaxStops /\ sets \in 0..MaxSets
  BY DEF SwapTypeOK, Journals, Runs

LEMMA SwapNumbers ==
    /\ MaxStops \in Nat /\ MaxSets \in Nat /\ "none" \notin Versions /\ "unknown" \notin Versions
    /\ NoPrev \in Prevs
  BY SwapAssumption DEF NoPrev, Prevs, Names

\* A directory that names a version exists.
LEMMA DirsExist ==
    /\ \A d \in Dirs : Exists(d)
    /\ ~Exists(NoSet)
  BY SwapNumbers DEF Dirs, NoSet, Exists

LEMMA IdleRun == SwapIdle \in Runs /\ SwapIdle.pc = "idle"
  BY SwapNumbers DEF SwapIdle, Runs, Names

LEMMA GotoEffect ==
    ASSUME NEW pc \in Steps \cup {"idle"}, run \in Runs, Goto(pc)
    PROVE  run' \in Runs /\ run'.pc = pc /\ run'.prev = run.prev /\ run'.outgoing = run.outgoing
  BY DEF Goto, Runs

\* ---------------------------------------------------------- the kept sets

LEMMA OneIsSmall ==
    ASSUME NEW d
    PROVE  One(d) \in {0, 1} /\ (Exists(d) <=> One(d) = 1)
  BY DEF One

\* There is a stamp that no directory has.
LEMMA PrevPathFree ==
    ASSUME SwapInv, Exists(staged), NEW v \in Names
    PROVE  PrevPath(v) \in Prevs /\ ~Exists(prevs[PrevPath(v)])
  <1> DEFINE Stamps == { k \in 0..MaxSets : ~Exists(prevs[<<v, k>>]) }
  <1>1. Stamps # {}
    <2> SUFFICES ASSUME Stamps = {} PROVE FALSE
      OBVIOUS
    <2> DEFINE f == [k \in 0..MaxSets |-> <<v, k>>]
    <2>1. \A k \in 0..MaxSets : <<v, k>> \in Kept
      BY DEF Kept, Prevs
    <2>2. f \in Injection(0..MaxSets, Kept)
      BY <2>1 DEF Injection, IsInjective
    <2>4. IsFiniteSet(Kept) /\ Cardinality(Kept) + One(install) + One(staged) <= sets + 1
      BY DEF SwapInv, SetsCounted
    <2>5. Cardinality(0..MaxSets) <= Cardinality(Kept)
      BY <2>2, <2>4, FS_Injection
    <2>6. Cardinality(0..MaxSets) = MaxSets + 1
      BY SwapNumbers, FS_Interval
    <2>7. One(install) \in {0, 1} /\ One(staged) = 1 /\ Cardinality(Kept) \in Nat /\ sets \in 0..MaxSets
      BY <2>4, OneIsSmall, FS_CardinalityType, SwapTypes DEF SwapInv
    <2> QED
      BY <2>4, <2>5, <2>6, <2>7, SwapNumbers
  <1>2. Stamps \subseteq Nat
    BY SwapNumbers
  <1>3. PICK k \in Stamps : \A j \in Stamps : k <= j
    <2> HIDE DEF Stamps
    <2> QED
      BY <1>1, <1>2, LeastNatural
  <1>5. k \in 0..MaxSets /\ ~Exists(prevs[<<v, k>>])
    BY <1>3
  <1>6. \A j \in 0..MaxSets : j < k => Exists(prevs[<<v, j>>])
    BY <1>3, SwapNumbers
  <1> DEFINE P(i) == /\ ~Exists(prevs[<<v, i>>])
                     /\ \A j \in 0..MaxSets : j < i => Exists(prevs[<<v, j>>])
             c == CHOOSE i \in 0..MaxSets : P(i)
  <1>7. c \in 0..MaxSets /\ ~Exists(prevs[<<v, c>>])
    BY <1>5, <1>6, Zenon
  <1>8. PrevPath(v) = <<v, c>>
    BY Zenon DEF PrevPath
  <1> HIDE DEF c, P
  <1> QED
    BY <1>7, <1>8 DEF Prevs

\* Keeping a set under a free name, and taking it back.
LEMMA KeptAdded ==
    ASSUME NEW p \in Prevs, NEW d, prevs \in [Prevs -> Dirs \cup {NoSet}], IsFiniteSet(Kept),
           ~Exists(prevs[p]), Exists(d), prevs' = [prevs EXCEPT ![p] = d]
    PROVE  IsFiniteSet(Kept') /\ Cardinality(Kept') = Cardinality(Kept) + 1
  <1>1. p \notin Kept
    BY DEF Kept
  <1>2. Kept' = Kept \cup {p}
    BY DEF Kept
  <1> HIDE DEF Kept
  <1> QED
    BY <1>1, <1>2, FS_AddElement

LEMMA KeptTaken ==
    ASSUME NEW p \in Prevs, prevs \in [Prevs -> Dirs \cup {NoSet}], IsFiniteSet(Kept),
           Exists(prevs[p]), prevs' = [prevs EXCEPT ![p] = NoSet]
    PROVE  IsFiniteSet(Kept') /\ Cardinality(Kept') = Cardinality(Kept) - 1
  <1>1. p \in Kept
    BY DEF Kept
  <1>2. Kept' = Kept \ {p}
    BY DirsExist DEF Kept
  <1> HIDE DEF Kept
  <1> QED
    BY <1>1, <1>2, FS_RemoveElement

\* What SetsCounted says, in numbers.
LEMMA Counts ==
    ASSUME SwapInv
    PROVE  /\ IsFiniteSet(Kept) /\ Cardinality(Kept) \in Nat /\ sets \in Nat /\ sets \in 0..MaxSets
           /\ One(install) \in {0, 1} /\ One(staged) \in {0, 1}
           /\ Cardinality(Kept) + One(install) + One(staged) <= sets + 1
  <1>1. IsFiniteSet(Kept) /\ Cardinality(Kept) + One(install) + One(staged) <= sets + 1
    BY DEF SwapInv, SetsCounted
  <1>2. sets \in 0..MaxSets
    BY SwapTypes DEF SwapInv
  <1> QED
    BY <1>1, <1>2, FS_CardinalityType, OneIsSmall, SwapNumbers

\* ------------------------------------------------- steps that move no set

\* A step that moves nothing keeps the count.
LEMMA CountKept ==
    ASSUME SwapInv, UNCHANGED <<install, staged, prevs, sets>>
    PROVE  SetsCounted'
  BY DEF SwapInv, SetsCounted, Kept, One, Exists

LEMMA StageStep ==
    ASSUME SwapInv, Stage
    PROVE  SwapInv'
  <1>1. /\ run.pc = "idle" /\ ~Exists(staged) /\ sets < MaxSets /\ sets' = sets + 1
        /\ incoming' \in Versions /\ staged' = [set |-> incoming', tag |-> "none"]
        /\ install' = install /\ prevs' = prevs /\ journal' = journal /\ run' = run
        /\ stops' = stops /\ current' = current
    BY DEF Stage, At
  <1>2. staged' \in Dirs
    BY <1>1 DEF Dirs
  <1>3. sets' \in 0..MaxSets
    BY <1>1, SwapTypes, SwapNumbers DEF SwapInv
  <1>4. SwapTypeOK'
    BY <1>1, <1>2, <1>3 DEF SwapInv, SwapTypeOK
  <1>5. SwapProgress' /\ AlwaysRestorable'
    BY <1>1 DEF SwapInv, SwapProgress, AlwaysRestorable
  <1>6. Kept' = Kept /\ One(install)' = One(install) /\ One(staged) = 0 /\ One(staged)' \in {0, 1}
    BY <1>1, OneIsSmall DEF Kept, One, Exists
  <1>7. SetsCounted'
    BY <1>1, <1>6, Counts DEF SetsCounted
  <1> QED
    BY <1>4, <1>5, <1>7 DEF SwapInv

LEMMA RunSwapStep ==
    ASSUME SwapInv, RunSwap
    PROVE  SwapInv'
  <1> DEFINE o == IF install.tag \in Versions THEN install.tag ELSE "unknown"
             r == [pc |-> "recover", outgoing |-> o, prev |-> NoPrev]
  <1>1. run' = r
    BY Zenon DEF RunSwap, SwapIdle
  <1>2. o \in Names
    BY DEF Names
  <1> HIDE DEF o
  <1>3. run' \in Runs /\ run'.pc = "recover"
    BY <1>1, <1>2, SwapNumbers DEF Runs, Steps
  <1>4. /\ Exists(staged) /\ UNCHANGED <<install, staged, prevs, journal, incoming, stops, sets, current>>
    BY DEF RunSwap
  <1>5. SwapTypeOK'
    BY <1>3, <1>4 DEF SwapInv, SwapTypeOK, Runs
  <1>6. SwapProgress' /\ AlwaysRestorable'
    BY <1>3, <1>4 DEF SwapInv, SwapProgress, AlwaysRestorable
  <1> QED
    BY <1>4, <1>5, <1>6, CountKept DEF SwapInv
LEMMA ForgetStep ==
    ASSUME SwapInv, Forget
    PROVE  SwapInv'
  <1> DEFINE q == PrevPath(run.outgoing)
  <1>1. run.pc = "forget" /\ journal' = NoJournal
        /\ UNCHANGED <<install, staged, prevs, incoming, stops, sets, current>>
    BY DEF Forget, At
  <1>2. Exists(staged) /\ (Exists(current) => Exists(install))
    BY <1>1 DEF SwapInv, SwapProgress
  <1>3. q \in Prevs
    BY <1>2, PrevPathFree, SwapTypes DEF SwapInv
  <1> DEFINE r == [run EXCEPT !.pc = "mark_prev"]
  <1>4. run' = [r EXCEPT !.prev = q]
    BY Zenon DEF Forget
  <1> HIDE DEF q
  <1>5. r \in Runs /\ r.pc = "mark_prev"
    BY SwapTypes DEF SwapInv, Runs, Steps
  <1> HIDE DEF r
  <1>6. run' \in Runs /\ run'.pc = "mark_prev"
    BY <1>3, <1>4, <1>5 DEF Runs
  <1>7. journal' \in Journals
    BY <1>1, SwapNumbers DEF NoJournal, Journals
  <1>8. SwapTypeOK'
    BY <1>1, <1>6, <1>7 DEF SwapInv, SwapTypeOK, Runs, Journals
  <1>9. SwapProgress' /\ AlwaysRestorable'
    BY <1>1, <1>2, <1>6 DEF SwapProgress, AlwaysRestorable
  <1> QED
    BY <1>1, <1>8, <1>9, CountKept DEF SwapInv

\* Writing the journal, at either of its two places.
LEMMA JournalWritten ==
    ASSUME SwapInv, NEW from, NEW to \in Steps, NEW mark \in {"PrevRenamed", "StagedMoved"},
           WriteJournal(from, to, mark), current' \in {current, install}
    PROVE  /\ SwapTypeOK' /\ SetsCounted' /\ run'.pc = to /\ run'.prev = run.prev
           /\ journal'.phase = mark /\ journal'.prev = run.prev
  <1>1. /\ journal' = [phase |-> mark, prev |-> run.prev] /\ Goto(to)
        /\ UNCHANGED <<install, staged, prevs, incoming, stops, sets>>
    BY DEF WriteJournal
  <1>2. run' \in Runs /\ run'.pc = to /\ run'.prev = run.prev
    BY <1>1, GotoEffect, SwapTypes DEF SwapInv
  <1>3. journal' \in Journals /\ journal'.phase = mark /\ journal'.prev = run.prev
    BY <1>1, SwapTypes DEF SwapInv, Journals
  <1>4. SwapTypeOK'
    BY <1>1, <1>2, <1>3 DEF SwapInv, SwapTypeOK, Runs, Journals
  <1> QED
    BY <1>1, <1>2, <1>3, <1>4, CountKept

LEMMA MarkPrevStep ==
    ASSUME SwapInv, MarkPrev
    PROVE  SwapInv'
  <1>1. /\ WriteJournal("mark_prev", "rename_prev", "PrevRenamed") /\ current' = install
    BY DEF MarkPrev
  <1>2. /\ SwapTypeOK' /\ SetsCounted' /\ run'.pc = "rename_prev" /\ run'.prev = run.prev
        /\ journal'.phase = "PrevRenamed" /\ journal'.prev = run.prev
    BY <1>1, JournalWritten DEF Steps
  <1>3. run.pc = "mark_prev" /\ install' = install /\ staged' = staged
    BY <1>1 DEF WriteJournal, At
  <1>4. SwapProgress' /\ AlwaysRestorable'
    BY <1>1, <1>2, <1>3 DEF SwapInv, SwapProgress, AlwaysRestorable
  <1> QED
    BY <1>2, <1>4 DEF SwapInv

LEMMA MarkMovedStep ==
    ASSUME SwapInv, MarkMoved
    PROVE  SwapInv'
  <1>1. /\ WriteJournal("mark_moved", "remove_journal", "StagedMoved") /\ current' = current
    BY DEF MarkMoved
  <1>2. /\ SwapTypeOK' /\ SetsCounted' /\ run'.pc = "remove_journal"
    BY <1>1, JournalWritten DEF Steps
  <1>3. run.pc = "mark_moved" /\ install' = install /\ staged' = staged
    BY <1>1 DEF WriteJournal, At
  <1>4. SwapProgress' /\ AlwaysRestorable'
    BY <1>1, <1>2, <1>3 DEF SwapInv, SwapProgress, AlwaysRestorable
  <1> QED
    BY <1>2, <1>4 DEF SwapInv

LEMMA RemoveJournalStep ==
    ASSUME SwapInv, RemoveJournal
    PROVE  SwapInv'
  <1>1. /\ run.pc = "remove_journal" /\ journal' = NoJournal /\ Goto("copy_manifest")
        /\ UNCHANGED <<install, staged, prevs, incoming, stops, sets, current>>
    BY DEF RemoveJournal, At
  <1>2. run' \in Runs /\ run'.pc = "copy_manifest"
    BY <1>1, GotoEffect, SwapTypes DEF SwapInv, Steps
  <1>3. journal' \in Journals
    BY <1>1, SwapNumbers DEF NoJournal, Journals
  <1>4. SwapTypeOK'
    BY <1>1, <1>2, <1>3 DEF SwapInv, SwapTypeOK, Runs, Journals
  <1>5. SwapProgress' /\ AlwaysRestorable'
    BY <1>1, <1>2 DEF SwapInv, SwapProgress, AlwaysRestorable
  <1> QED
    BY <1>1, <1>4, <1>5, CountKept DEF SwapInv

\* A run that stops loses at most the journal, and only where the program is
\* installed.
LEMMA StopStep ==
    ASSUME SwapInv, Stop
    PROVE  SwapInv'
  <1>1. /\ run' = SwapIdle /\ stops < MaxStops /\ stops' = stops + 1
        /\ UNCHANGED <<install, staged, prevs, incoming, sets, current>>
    BY DEF Stop
  <1>2. \/ journal' = journal
        \/ run.pc \in {"mark_prev", "mark_moved"} /\ journal' = Torn
    BY DEF Stop, At
  <1>3. run' \in Runs /\ run'.pc = "idle"
    BY <1>1, IdleRun
  <1>4. journal' \in Journals
    BY <1>2, SwapTypes, SwapNumbers DEF SwapInv, Torn, Journals
  <1>5. stops' \in 0..MaxStops
    BY <1>1, SwapTypes, SwapNumbers DEF SwapInv
  <1>6. SwapTypeOK'
    BY <1>1, <1>3, <1>4, <1>5 DEF SwapInv, SwapTypeOK, Runs, Journals
  <1>7. SwapProgress'
    BY <1>3 DEF SwapProgress
  <1>8. AlwaysRestorable'
    BY <1>1, <1>2 DEF SwapInv, SwapProgress, AlwaysRestorable
  <1> QED
    BY <1>1, <1>6, <1>7, <1>8, CountKept DEF SwapInv

\* ---------------------------------------------------- steps that move a set

\* An interrupted swap is undone: the journal names the set that is put back.
LEMMA RecoverStep ==
    ASSUME SwapInv, RecoverIfInterrupted
    PROVE  SwapInv'
  <1>1. run.pc = "recover" /\ UNCHANGED <<staged, journal, incoming, stops, sets, current>>
    BY DEF RecoverIfInterrupted, At
  <1>2. Exists(staged) /\ AlwaysRestorable
    BY <1>1 DEF SwapInv, SwapProgress
  <1>3. CASE run' = SwapIdle /\ UNCHANGED <<install, prevs>>
    <2>1. run' \in Runs /\ run'.pc = "idle"
      BY <1>3, IdleRun
    <2>2. SwapTypeOK'
      BY <1>1, <1>3, <2>1 DEF SwapInv, SwapTypeOK, Runs
    <2>3. SwapProgress' /\ AlwaysRestorable'
      BY <1>1, <1>2, <1>3, <2>1 DEF SwapProgress, AlwaysRestorable
    <2> QED
      BY <1>1, <1>3, <2>2, <2>3, CountKept DEF SwapInv
  <1>4. ASSUME Goto("forget")
        PROVE  run' \in Runs /\ run'.pc = "forget"
    BY <1>4, GotoEffect, SwapTypes DEF SwapInv, Steps
  <1>5. CASE /\ DecideRecovery /\ install' = prevs[journal.prev]
             /\ prevs' = [prevs EXCEPT ![journal.prev] = NoSet] /\ Goto("forget")
    <2>1. ~Exists(install) /\ Exists(prevs[journal.prev])
      BY <1>5 DEF DecideRecovery
    <2>2. run' \in Runs /\ run'.pc = "forget" /\ Exists(install')
      BY <1>4, <1>5, <2>1
    <2>3. SwapTypeOK'
      BY <1>1, <1>5, <2>2, SwapTypes DEF SwapInv, SwapTypeOK, Runs
    <2>4. SwapProgress' /\ AlwaysRestorable'
      BY <1>1, <1>2, <2>2 DEF SwapProgress, AlwaysRestorable
    <2>5. IsFiniteSet(Kept') /\ Cardinality(Kept') = Cardinality(Kept) - 1
      BY <1>5, <2>1, KeptTaken, SwapTypes, Counts DEF SwapInv
    <2>6. One(install) = 0 /\ One(install)' = 1 /\ One(staged)' = One(staged)
      BY <1>1, <2>1, <2>2 DEF One
    <2>7. SetsCounted'
      BY <1>1, <2>5, <2>6, Counts DEF SetsCounted
    <2> QED
      BY <2>3, <2>4, <2>7 DEF SwapInv
  <1>6. CASE ~DecideRecovery /\ Goto("forget") /\ UNCHANGED <<install, prevs>>
    <2>1. run' \in Runs /\ run'.pc = "forget"
      BY <1>4, <1>6
    <2>2. Exists(current) => Exists(install)
      BY <1>2, <1>6 DEF AlwaysRestorable, DecideRecovery
    <2>3. SwapTypeOK'
      BY <1>1, <1>6, <2>1 DEF SwapInv, SwapTypeOK, Runs
    <2>4. SwapProgress' /\ AlwaysRestorable'
      BY <1>1, <1>2, <1>6, <2>1, <2>2 DEF SwapProgress, AlwaysRestorable
    <2> QED
      BY <1>1, <1>6, <2>3, <2>4, CountKept DEF SwapInv
  <1> QED
    BY <1>3, <1>5, <1>6 DEF RecoverIfInterrupted

LEMMA RenamePrevStep ==
    ASSUME SwapInv, RenamePrev
    PROVE  SwapInv'
  <1>1. run.pc = "rename_prev" /\ UNCHANGED <<staged, journal, incoming, stops, sets, current>>
    BY DEF RenamePrev, At
  <1>2. /\ Exists(staged) /\ AlwaysRestorable /\ install = current
        /\ journal.phase = "PrevRenamed" /\ journal.prev = run.prev
    BY <1>1 DEF SwapInv, SwapProgress
  <1>3. CASE run' = SwapIdle /\ UNCHANGED <<install, prevs>>
    <2>1. run' \in Runs /\ run'.pc = "idle"
      BY <1>3, IdleRun
    <2>2. SwapTypeOK'
      BY <1>1, <1>3, <2>1 DEF SwapInv, SwapTypeOK, Runs
    <2>3. SwapProgress' /\ AlwaysRestorable'
      BY <1>1, <1>2, <1>3, <2>1 DEF SwapProgress, AlwaysRestorable
    <2> QED
      BY <1>1, <1>3, <2>2, <2>3, CountKept DEF SwapInv
  <1>4. ASSUME Goto("move_staged")
        PROVE  run' \in Runs /\ run'.pc = "move_staged"
    BY <1>4, GotoEffect, SwapTypes DEF SwapInv, Steps
  <1>5. CASE /\ Exists(install) /\ ~Exists(prevs[run.prev])
             /\ prevs' = [prevs EXCEPT ![run.prev] = install]
             /\ install' = NoSet /\ Goto("move_staged")
    <2>1. run' \in Runs /\ run'.pc = "move_staged"
      BY <1>4, <1>5
    <2>2. SwapTypeOK'
      BY <1>1, <1>5, <2>1, SwapTypes DEF SwapInv, SwapTypeOK, Runs
    <2>3. prevs'[run.prev] = current
      BY <1>2, <1>5, SwapTypes DEF SwapInv
    <2>4. SwapProgress' /\ AlwaysRestorable'
      BY <1>1, <1>2, <2>1, <2>3 DEF SwapProgress, AlwaysRestorable
    <2>5. IsFiniteSet(Kept') /\ Cardinality(Kept') = Cardinality(Kept) + 1
      BY <1>5, KeptAdded, SwapTypes, Counts DEF SwapInv
    <2>6. One(install) = 1 /\ One(install)' = 0 /\ One(staged)' = One(staged)
      BY <1>1, <1>5, DirsExist DEF One
    <2>7. SetsCounted'
      BY <1>1, <2>5, <2>6, Counts DEF SetsCounted
    <2> QED
      BY <2>2, <2>4, <2>7 DEF SwapInv
  <1>6. CASE ~Exists(install) /\ Goto("move_staged") /\ UNCHANGED <<install, prevs>>
    <2>1. run' \in Runs /\ run'.pc = "move_staged"
      BY <1>4, <1>6
    <2>2. SwapTypeOK'
      BY <1>1, <1>6, <2>1 DEF SwapInv, SwapTypeOK, Runs
    <2>3. SwapProgress' /\ AlwaysRestorable'
      BY <1>1, <1>2, <1>6, <2>1 DEF SwapProgress, AlwaysRestorable
    <2> QED
      BY <1>1, <1>6, <2>2, <2>3, CountKept DEF SwapInv
  <1> QED
    BY <1>3, <1>5, <1>6 DEF RenamePrev

LEMMA MoveStagedStep ==
    ASSUME SwapInv, MoveStaged
    PROVE  SwapInv'
  <1>1. /\ run.pc = "move_staged" /\ install' = staged /\ staged' = NoSet /\ Goto("mark_moved")
        /\ UNCHANGED <<prevs, journal, incoming, stops, sets, current>>
    BY DEF MoveStaged, At
  <1>2. Exists(staged)
    BY <1>1 DEF SwapInv, SwapProgress
  <1>3. run' \in Runs /\ run'.pc = "mark_moved"
    BY <1>1, GotoEffect, SwapTypes DEF SwapInv, Steps
  <1>4. SwapTypeOK'
    BY <1>1, <1>3 DEF SwapInv, SwapTypeOK, Runs
  <1>5. SwapProgress' /\ AlwaysRestorable'
    BY <1>1, <1>2, <1>3 DEF SwapProgress, AlwaysRestorable
  <1>6. Kept' = Kept /\ One(staged) = 1 /\ One(install)' = 1 /\ One(staged)' = 0
    BY <1>1, <1>2, DirsExist DEF Kept, One, Exists
  <1>7. SetsCounted'
    BY <1>1, <1>6, Counts DEF SetsCounted
  <1> QED
    BY <1>4, <1>5, <1>7 DEF SwapInv

LEMMA CopyManifestStep ==
    ASSUME SwapInv, CopyManifest
    PROVE  SwapInv'
  <1>1. /\ run.pc = "copy_manifest" /\ install' = [install EXCEPT !.tag = incoming] /\ run' = SwapIdle
        /\ UNCHANGED <<staged, prevs, journal, incoming, stops, sets, current>>
    BY DEF CopyManifest, At
  <1>2. Exists(install)
    BY <1>1 DEF SwapInv, SwapProgress
  <1>3. install \in Dirs
    BY <1>2, SwapTypes, DirsExist DEF SwapInv
  <1>4. install' \in Dirs
    BY <1>1, <1>3, SwapTypes DEF SwapInv, Dirs
  <1>5. Exists(install')
    BY <1>4, DirsExist
  <1>6. run' \in Runs /\ run'.pc = "idle"
    BY <1>1, IdleRun
  <1>7. SwapTypeOK'
    BY <1>1, <1>4, <1>6 DEF SwapInv, SwapTypeOK, Runs
  <1>8. SwapProgress' /\ AlwaysRestorable'
    BY <1>5, <1>6 DEF SwapProgress, AlwaysRestorable
  <1>9. Kept' = Kept /\ One(install)' = One(install) /\ One(staged)' = One(staged)
    BY <1>1, <1>2, <1>5 DEF Kept, One, Exists
  <1>10. SetsCounted'
    BY <1>1, <1>9, Counts DEF SetsCounted
  <1> QED
    BY <1>7, <1>8, <1>10 DEF SwapInv

\* ----------------------------------------------------------- the whole swap

LEMMA SwapStarts == SwapInit => SwapInv
  <1> SUFFICES ASSUME SwapInit PROVE SwapInv
    OBVIOUS
  <1>1. /\ staged = NoSet /\ prevs = [p \in Prevs |-> NoSet] /\ journal = NoJournal
        /\ run = SwapIdle /\ stops = 0 /\ sets = 0 /\ incoming \in Versions /\ current = install
    BY DEF SwapInit
  <1>2. install \in Dirs \cup {NoSet}
    BY DEF SwapInit, Dirs
  <1>3. run \in Runs /\ run.pc = "idle"
    BY <1>1, IdleRun
  <1>4. journal \in Journals
    BY <1>1, SwapNumbers DEF NoJournal, Journals
  <1>5. SwapTypeOK
    BY <1>1, <1>2, <1>3, <1>4, SwapNumbers DEF SwapTypeOK, Runs, Journals
  <1>6. SwapProgress /\ AlwaysRestorable
    BY <1>1, <1>3 DEF SwapProgress, AlwaysRestorable
  <1>7. Kept = {}
    BY <1>1, DirsExist DEF Kept
  <1>8. One(staged) = 0 /\ One(install) \in {0, 1}
    BY <1>1, DirsExist DEF One
  <1>9. SetsCounted
    BY <1>1, <1>7, <1>8, FS_EmptySet DEF SetsCounted
  <1> QED
    BY <1>5, <1>6, <1>9 DEF SwapInv

LEMMA SwapSteps == SwapInv /\ [SwapNext]_swapVars => SwapInv'
  <1> SUFFICES ASSUME SwapInv, [SwapNext]_swapVars PROVE SwapInv'
    OBVIOUS
  <1>1. CASE UNCHANGED swapVars
    BY <1>1 DEF swapVars, SwapInv, SwapTypeOK, SwapProgress, SetsCounted, AlwaysRestorable, Kept
  <1> QED
    BY <1>1, StageStep, RunSwapStep, RecoverStep, ForgetStep, MarkPrevStep, RenamePrevStep,
       MoveStagedStep, MarkMovedStep, RemoveJournalStep, CopyManifestStep, StopStep
       DEF SwapNext, PerformSwap

\* Wherever runs of the updater stop, the program is installed or the journal
\* names the directory that holds exactly what was installed (swap.rs).
THEOREM ProgramSurvives == SwapSpec => [](SwapTypeOK /\ AlwaysRestorable)
  <1>1. SwapInv => SwapTypeOK /\ AlwaysRestorable
    BY DEF SwapInv
  <1> QED
    BY <1>1, SwapStarts, SwapSteps, PTL DEF SwapSpec

\* ---------------------------------------------------- the identity migration

Whole(d) == d \in {good, All("legacy")}
Disks == [dest : [Parts -> Content], backup : [Parts -> Content],
          staging : [Parts -> Content \ {"old"}], journal : BOOLEAN]
Marking == SwitchSteps \cup RollbackSteps   \* the steps at which there is a journal

\* How far the step s has got on the disk k.
Progress(k, s) ==
    /\ s = "backup_identity" => \A p \in Parts : k.backup[p] = "none"
    /\ s = "backup_config" => k.backup["identity"] = k.dest["identity"] /\ k.backup["config"] = "none"
    /\ s = "mark_backed_up" => \A p \in Parts : k.backup[p] = k.dest[p]
    /\ s = "stage_identity" => \A p \in Parts : k.staging[p] = "none"
    /\ s = "stage_config" => k.staging["identity"] = "legacy" /\ k.staging["config"] = "none"
    /\ s \in {"mark_staged", "verify", "mark_verified", "remove_identity", "remove_config",
              "switch_identity"} => \A p \in Parts : k.staging[p] = "legacy"
    /\ s = "switch_config" => k.dest["identity"] = "legacy" /\ k.staging["config"] = "legacy"
    /\ s \in {"drop_staging", "drop_journal"} => \A p \in Parts : k.dest[p] = "legacy"
    /\ s = "rb_config" => k.dest["identity"] = "none"
    /\ s = "rb_restore_identity" => \A p \in Parts : k.dest[p] = "none"
    /\ s = "rb_restore_config" => k.dest["identity"] = k.backup["identity"] /\ k.dest["config"] = "none"
    /\ s = "rb_journal" => \A p \in Parts : k.dest[p] = k.backup[p]

\* The journal tells which of backup and destination is whole.
Recoverable(k) == IF k.journal THEN Whole(k.backup) ELSE Whole(k.dest)

\* What the host ran with was whole, and legacy or the old identity once paired.
History ==
    /\ good \in {All("none"), All("old"), All("legacy")}
    /\ paired # {} => good \in {All("old"), All("legacy")}

MigInv ==
    /\ MigrationTypeOK /\ History /\ Recoverable(disk) /\ Progress(disk, nextStep)
    /\ sources \in {{}, Parts} /\ (nextStep \in BackupSteps \cup SwitchSteps => sources = Parts)
    /\ nextStep \in Marking => disk.journal
    /\ nextStep \in BackupSteps \cup {"up"} => ~disk.journal

\* The two ways a step ends.
Advanced(to) == nextStep' = to /\ UNCHANGED <<sources, recovering, faults, good, paired>>
Interrupted(s) ==
    /\ \/ nextStep' = "idle"
       \/ nextStep' = "rb_staging" /\ s \in Fallible /\ s \notin RollbackSteps
    /\ faults < MaxFaults /\ faults' = faults + 1
    /\ recovering' = FALSE /\ UNCHANGED <<sources, good, paired>>

Ends(s, to, done, cut) ==
    /\ nextStep = s
    /\ \/ Advanced(to) /\ disk' = done
       \/ Interrupted(s) /\ disk' \in cut

\* An error, as opposed to a crash, never follows the whole effect of a call.
LEMMA DoEffect ==
    ASSUME NEW s, NEW to, NEW done, NEW cut, Do(s, to, done, cut)
    PROVE  /\ Ends(s, to, done, cut)
           /\ nextStep' = "rb_staging" /\ Interrupted(s) => disk' # done \/ Advanced(to)
  BY DEF Do, Completes, Fails, Crashes, Advanced, Interrupted, Ends

LEMMA WriteEffect ==
    ASSUME NEW s, NEW to, WriteMigrationJournal(s, to)
    PROVE  Ends(s, to, Marked(TRUE), {disk, Marked(TRUE)})
  BY DEF WriteMigrationJournal, Completes, Fails, Crashes, Advanced, Interrupted, Ends

LEMMA SamePlace ==
    ASSUME NEW d \in [Parts -> Content], NEW e \in [Parts -> Content],
           d["identity"] = e["identity"], d["config"] = e["config"]
    PROVE  d = e
  BY DEF Parts

\* Marking changes the journal alone.
LEMMA MarkedEffect ==
    ASSUME disk \in Disks, NEW b \in BOOLEAN
    PROVE  /\ Marked(b) \in Disks /\ Marked(b).journal = b
           /\ Marked(b).dest = disk.dest /\ Marked(b).backup = disk.backup
           /\ Marked(b).staging = disk.staging
  BY DEF Marked, Disks

LEMMA RemovedDest ==
    ASSUME disk \in Disks, NEW ps \in SUBSET Parts,
           NEW k \in RemovedCut("dest", ps) \cup {Removed("dest", ps)}
    PROVE  /\ k \in Disks /\ k.backup = disk.backup /\ k.staging = disk.staging
           /\ k.journal = disk.journal
           /\ k = Removed("dest", ps) =>
                \A p \in Parts : k.dest[p] = IF p \in ps THEN "none" ELSE disk.dest[p]
  <1>1. CASE k = Removed("dest", ps)
    BY <1>1 DEF Removed, Disks, Content
  <1>2. CASE k \in RemovedCut("dest", ps) /\ k # Removed("dest", ps)
    <2>1. PICK d \in [Parts -> Content] : k = [disk EXCEPT !["dest"] = d]
      BY <1>2 DEF RemovedCut
    <2> QED
      BY <1>2, <2>1 DEF Disks
  <1> QED
    BY <1>1, <1>2

LEMMA RemovedBackup ==
    ASSUME disk \in Disks,
           NEW k \in RemovedCut("backup", Parts) \cup {Removed("backup", Parts)}
    PROVE  /\ k \in Disks /\ k.dest = disk.dest /\ k.staging = disk.staging
           /\ k.journal = disk.journal
           /\ k = Removed("backup", Parts) => \A p \in Parts : k.backup[p] = "none"
  <1>1. CASE k = Removed("backup", Parts)
    BY <1>1 DEF Removed, Disks, Content
  <1>2. CASE k \in RemovedCut("backup", Parts) /\ k # Removed("backup", Parts)
    <2>1. PICK d \in [Parts -> Content] : k = [disk EXCEPT !["backup"] = d]
      BY <1>2 DEF RemovedCut
    <2> QED
      BY <1>2, <2>1 DEF Disks
  <1> QED
    BY <1>1, <1>2

LEMMA RemovedStaging ==
    ASSUME disk \in Disks,
           NEW k \in RemovedCut("staging", Parts) \cup {Removed("staging", Parts)}
    PROVE  /\ k \in Disks /\ k.dest = disk.dest /\ k.backup = disk.backup
           /\ k.journal = disk.journal
           /\ k = Removed("staging", Parts) => \A p \in Parts : k.staging[p] = "none"
  <1>1. CASE k = Removed("staging", Parts)
    BY <1>1 DEF Removed, Disks, Content
  <1>2. CASE k \in RemovedCut("staging", Parts) /\ k # Removed("staging", Parts)
    <2>1. PICK d \in [Parts -> Content] :
              /\ k = [disk EXCEPT !["staging"] = d]
              /\ \A p \in Parts : d[p] \in CutRemoval(p, disk["staging"][p])
      BY <1>2 DEF RemovedCut
    <2>2. \A p \in Parts : disk["staging"][p] # "old"
      BY DEF Disks
    <2>3. \A p \in Parts : d[p] # "old"
      BY <2>1, <2>2 DEF CutRemoval
    <2>4. d \in [Parts -> Content \ {"old"}]
      BY <2>3
    <2> QED
      BY <1>2, <2>1, <2>4 DEF Disks
  <1> QED
    BY <1>1, <1>2

\* A copy changes one part of one place.
LEMMA CopiedBackup ==
    ASSUME disk \in Disks, NEW c \in Content, NEW q \in Parts,
           NEW k \in CopiedCut(c, "backup", q) \cup {Copied(c, "backup", q)}
    PROVE  /\ k \in Disks /\ k.dest = disk.dest /\ k.staging = disk.staging
           /\ k.journal = disk.journal
           /\ k = Copied(c, "backup", q) /\ disk.backup[q] = "none" => k.backup[q] = c
           /\ \A p \in Parts \ {q} : k.backup[p] = disk.backup[p]
  <1>1. k = disk \/ k = Copied(c, "backup", q) \/ k = [disk EXCEPT !["backup"][q] = "torn"]
    BY DEF CopiedCut
  <1>2. CASE k = disk
    BY <1>2 DEF Copied, Disks
  <1>3. CASE k = Copied(c, "backup", q)
    BY <1>3 DEF Copied, Disks
  <1>4. CASE k = [disk EXCEPT !["backup"][q] = "torn"]
    BY <1>4 DEF Copied, Disks, Content
  <1> QED
    BY <1>1, <1>2, <1>3, <1>4

LEMMA CopiedStaging ==
    ASSUME disk \in Disks, NEW c \in Content \ {"old"}, NEW q \in Parts,
           NEW k \in CopiedCut(c, "staging", q) \cup {Copied(c, "staging", q)}
    PROVE  /\ k \in Disks /\ k.dest = disk.dest /\ k.backup = disk.backup
           /\ k.journal = disk.journal
           /\ k = Copied(c, "staging", q) /\ disk.staging[q] = "none" => k.staging[q] = c
           /\ \A p \in Parts \ {q} : k.staging[p] = disk.staging[p]
  <1>1. k = disk \/ k = Copied(c, "staging", q) \/ k = [disk EXCEPT !["staging"][q] = "torn"]
    BY DEF CopiedCut
  <1>2. CASE k = disk
    BY <1>2 DEF Copied, Disks
  <1>3. CASE k = Copied(c, "staging", q)
    BY <1>3 DEF Copied, Disks
  <1>4. CASE k = [disk EXCEPT !["staging"][q] = "torn"]
    BY <1>4 DEF Copied, Disks, Content
  <1> QED
    BY <1>1, <1>2, <1>3, <1>4

LEMMA CopiedDest ==
    ASSUME disk \in Disks, NEW c \in Content, NEW q \in Parts,
           NEW k \in CopiedCut(c, "dest", q) \cup {Copied(c, "dest", q)}
    PROVE  /\ k \in Disks /\ k.backup = disk.backup /\ k.staging = disk.staging
           /\ k.journal = disk.journal
           /\ k = Copied(c, "dest", q) /\ disk.dest[q] = "none" => k.dest[q] = c
           /\ \A p \in Parts \ {q} : k.dest[p] = disk.dest[p]
  <1>1. k = disk \/ k = Copied(c, "dest", q) \/ k = [disk EXCEPT !["dest"][q] = "torn"]
    BY DEF CopiedCut
  <1>2. CASE k = disk
    BY <1>2 DEF Copied, Disks
  <1>3. CASE k = Copied(c, "dest", q)
    BY <1>3 DEF Copied, Disks
  <1>4. CASE k = [disk EXCEPT !["dest"][q] = "torn"]
    BY <1>4 DEF Copied, Disks, Content
  <1> QED
    BY <1>1, <1>2, <1>3, <1>4

\* A part that is staged replaces the destination's.
LEMMA SwitchedEffect ==
    ASSUME disk \in Disks, NEW q \in Parts, disk.staging[q] = "legacy"
    PROVE  /\ Switched(q) \in Disks /\ Switched(q).backup = disk.backup
           /\ Switched(q).journal = disk.journal
           /\ Switched(q).dest[q] = "legacy"
           /\ \A p \in Parts \ {q} : /\ Switched(q).dest[p] = disk.dest[p]
                                     /\ Switched(q).staging[p] = disk.staging[p]
  <1> DEFINE k == [disk EXCEPT !.dest[q] = disk.staging[q]]
  <1>1. Switched(q) = [k EXCEPT !.staging[q] = "none"]
    BY Zenon DEF Switched
  <1>2. /\ k \in Disks /\ k.backup = disk.backup /\ k.journal = disk.journal
        /\ k.staging = disk.staging /\ k.dest[q] = "legacy"
        /\ \A p \in Parts \ {q} : k.dest[p] = disk.dest[p]
    BY DEF Disks, Content
  <1> HIDE DEF k
  <1> QED
    BY <1>1, <1>2 DEF Disks, Content

\* ------------------------------------------------------- the ends of a step

LEMMA MigTypes ==
    ASSUME MigInv
    PROVE  /\ disk \in Disks /\ disk.dest \in [Parts -> Content] /\ disk.backup \in [Parts -> Content]
           /\ disk.staging \in [Parts -> Content \ {"old"}] /\ disk.journal \in BOOLEAN
           /\ nextStep \in MigrationSteps \cup {"idle", "up"} /\ recovering \in BOOLEAN
           /\ faults \in 0..MaxFaults /\ faults \in Nat /\ sources \in {{}, Parts}
           /\ good \in [Parts -> Content] /\ paired \in SUBSET Parts
  <1>1. disk \in Disks
    BY DEF MigInv, MigrationTypeOK, Disks
  <1>2. faults \in 0..MaxFaults /\ faults \in Nat
    BY MigrationAssumption DEF MigInv, MigrationTypeOK
  <1>3. nextStep \in MigrationSteps \cup {"idle", "up"} /\ recovering \in BOOLEAN
        /\ good \in [Parts -> Content] /\ paired \in SUBSET Parts /\ sources \in {{}, Parts}
    BY DEF MigInv, MigrationTypeOK
  <1> QED
    BY <1>1, <1>2, <1>3 DEF Disks

LEMMA AfterAdvance ==
    ASSUME MigInv, NEW to \in MigrationSteps \cup {"idle", "up"}, Advanced(to), disk' \in Disks,
           Recoverable(disk'), Progress(disk', to),
           to \in BackupSteps \cup SwitchSteps => sources = Parts,
           to \in Marking => disk'.journal,
           to \in BackupSteps \cup {"up"} => ~disk'.journal
    PROVE  MigInv'
  <1>1. /\ nextStep' = to /\ sources' = sources /\ recovering' = recovering /\ faults' = faults
        /\ good' = good /\ paired' = paired
    BY DEF Advanced
  <1>2. MigrationTypeOK'
    BY <1>1 DEF MigInv, MigrationTypeOK, Disks
  <1>3. History' /\ Recoverable(disk)'
    BY <1>1 DEF MigInv, History, Recoverable, Whole
  <1>4. Progress(disk, nextStep)'
    BY <1>1 DEF Progress
  <1> QED
    BY <1>1, <1>2, <1>3, <1>4 DEF MigInv

LEMMA AfterInterrupt ==
    ASSUME MigInv, NEW s, Interrupted(s), disk' \in Disks, Recoverable(disk'),
           nextStep' = "rb_staging" => disk'.journal
    PROVE  MigInv'
  <1>1. /\ nextStep' \in {"idle", "rb_staging"} /\ sources' = sources /\ recovering' = FALSE
        /\ faults' = faults + 1 /\ faults < MaxFaults /\ good' = good /\ paired' = paired
    BY DEF Interrupted
  <1>2. faults' \in 0..MaxFaults
    BY <1>1, MigTypes, MigrationAssumption
  <1>3. MigrationTypeOK'
    BY <1>1, <1>2 DEF MigInv, MigrationTypeOK, Disks, MigrationSteps, RollbackSteps
  <1>4. History' /\ Recoverable(disk)'
    BY <1>1 DEF MigInv, History, Recoverable, Whole
  <1>5. Progress(disk, nextStep)'
    BY <1>1 DEF Progress
  <1>6. nextStep' \notin BackupSteps \cup SwitchSteps \cup {"up"}
    BY <1>1 DEF BackupSteps, SwitchSteps
  <1>7. sources' \in {{}, Parts} /\ (nextStep' \in Marking => disk'.journal)
    BY <1>1 DEF MigInv, Marking, SwitchSteps, RollbackSteps
  <1> QED
    BY <1>3, <1>4, <1>5, <1>6, <1>7 DEF MigInv

\* The legacy source is whole or absent, and no I/O error stops the backup: the
\* runs identity_partial_source and identity_backup_error show why each is
\* needed.
OrderlyMigration == SourceSets \subseteq {{}, Parts} /\ Fallible \cap BackupSteps = {}

\* While there is a journal a step may do anything but touch the backup, and
\* before there is one anything but touch the destination.
LEMMA UnderJournal ==
    ASSUME MigInv, nextStep \in Marking, NEW k \in Disks,
           k.journal = disk.journal, k.backup = disk.backup
    PROVE  k.journal /\ Recoverable(k)
  <1>1. disk.journal
    BY DEF MigInv
  <1>2. Whole(disk.backup)
    BY <1>1 DEF MigInv, Recoverable
  <1> QED
    BY <1>1, <1>2 DEF Recoverable

LEMMA BeforeJournal ==
    ASSUME MigInv, nextStep \in BackupSteps, NEW k \in Disks,
           k.journal = disk.journal, k.dest = disk.dest
    PROVE  ~k.journal /\ Recoverable(k)
  <1>1. ~disk.journal
    BY DEF MigInv
  <1>2. Whole(disk.dest)
    BY <1>1 DEF MigInv, Recoverable
  <1> QED
    BY <1>1, <1>2 DEF Recoverable

LEMMA BackupStops ==
    ASSUME OrderlyMigration, NEW s \in BackupSteps, Interrupted(s)
    PROVE  nextStep' = "idle"
  BY DEF OrderlyMigration, Interrupted

\* ---------------------------------------------------------------- the backup

\* A step of the backup leaves the destination alone.
LEMMA BackupStep ==
    ASSUME MigInv, OrderlyMigration, NEW s \in BackupSteps, NEW to \in BackupSteps,
           NEW done, NEW cut, Ends(s, to, done, cut),
           \A k \in cut \cup {done} : k \in Disks /\ k.dest = disk.dest /\ k.journal = disk.journal,
           nextStep = s => Progress(done, to)
    PROVE  MigInv'
  <1>1. /\ nextStep = s
        /\ \/ Advanced(to) /\ disk' = done
           \/ Interrupted(s) /\ disk' \in cut
    BY DEF Ends
  <1>2. disk' \in Disks /\ disk'.dest = disk.dest /\ disk'.journal = disk.journal
    BY <1>1
  <1>3. ~disk'.journal /\ Recoverable(disk')
    BY <1>1, <1>2, BeforeJournal
  <1>4. CASE Advanced(to) /\ disk' = done
    <2>1. to \in MigrationSteps \cup {"idle", "up"} /\ to \notin Marking
      BY DEF MigrationSteps, BackupSteps, Marking, SwitchSteps, RollbackSteps
    <2>2. sources = Parts
      BY <1>1 DEF MigInv
    <2>3. Progress(disk', to)
      BY <1>1, <1>4
    <2> QED
      BY <1>2, <1>3, <1>4, <2>1, <2>2, <2>3, AfterAdvance
  <1>5. CASE Interrupted(s)
    <2>1. nextStep' = "idle"
      BY <1>5, BackupStops
    <2> QED
      BY <1>2, <1>3, <1>5, <2>1, AfterInterrupt
  <1> QED
    BY <1>1, <1>4, <1>5

\* A step under the journal leaves the backup alone.
LEMMA MarkingStep ==
    ASSUME MigInv, NEW s \in Marking, NEW to \in Marking, to \in SwitchSteps => s \in SwitchSteps,
           NEW done, NEW cut, Ends(s, to, done, cut),
           \A k \in cut \cup {done} : k \in Disks /\ k.backup = disk.backup /\ k.journal = disk.journal,
           nextStep = s => Progress(done, to)
    PROVE  MigInv'
  <1>1. /\ nextStep = s
        /\ \/ Advanced(to) /\ disk' = done
           \/ Interrupted(s) /\ disk' \in cut
    BY DEF Ends
  <1>2. disk' \in Disks /\ disk'.backup = disk.backup /\ disk'.journal = disk.journal
    BY <1>1
  <1>3. disk'.journal /\ Recoverable(disk')
    BY <1>1, <1>2, UnderJournal
  <1>4. CASE Advanced(to) /\ disk' = done
    <2>1. to \in MigrationSteps \cup {"idle", "up"} /\ to \notin BackupSteps \cup {"up"}
      BY DEF MigrationSteps, BackupSteps, Marking, SwitchSteps, RollbackSteps
    <2>2. to \in SwitchSteps => sources = Parts
      BY <1>1 DEF MigInv
    <2>3. Progress(disk', to)
      BY <1>1, <1>4
    <2> QED
      BY <1>2, <1>3, <1>4, <2>1, <2>2, <2>3, AfterAdvance
  <1>5. CASE Interrupted(s)
    BY <1>2, <1>3, <1>5, AfterInterrupt
  <1> QED
    BY <1>1, <1>4, <1>5

LEMMA BackUpStep ==
    ASSUME MigInv, OrderlyMigration, BackUp
    PROVE  MigInv'
  <1>1. /\ disk \in Disks /\ disk.dest["identity"] \in Content /\ disk.dest["config"] \in Content
        /\ "identity" \in Parts /\ "config" \in Parts
    BY MigTypes DEF Parts
  <1>s. {"remove_backup", "backup_identity", "backup_config", "mark_backed_up"} \subseteq BackupSteps
    BY DEF BackupSteps
  <1>2. CASE RemoveParts("remove_backup", "backup_identity", "backup", Parts)
    <2> DEFINE done == Removed("backup", Parts)
               cut == RemovedCut("backup", Parts)
    <2>1. Do("remove_backup", "backup_identity", done, cut)
      BY <1>2 DEF RemoveParts
    <2>2. \A k \in cut \cup {done} : k \in Disks /\ k.dest = disk.dest /\ k.journal = disk.journal
      BY <1>1, RemovedBackup
    <2>3. Progress(done, "backup_identity")
      <3>1. \A p \in Parts : done.backup[p] = "none"
        BY <1>1, RemovedBackup
      <3> QED
        BY <3>1 DEF Progress
    <2> HIDE DEF done, cut
    <2> QED
      BY <1>s, <2>1, <2>2, <2>3, DoEffect, BackupStep
  <1>3. CASE Copy("backup_identity", "backup_config", disk.dest["identity"], "backup", "identity")
    <2> DEFINE c == disk.dest["identity"]
               done == Copied(c, "backup", "identity")
               cut == CopiedCut(c, "backup", "identity")
    <2>1. Do("backup_identity", "backup_config", done, cut)
      BY <1>3 DEF Copy
    <2>2. \A k \in cut \cup {done} : k \in Disks /\ k.dest = disk.dest /\ k.journal = disk.journal
      BY <1>1, CopiedBackup
    <2>3. ASSUME nextStep = "backup_identity" PROVE Progress(done, "backup_config")
      <3>1. \A p \in Parts : disk.backup[p] = "none"
        BY <2>3 DEF MigInv, Progress
      <3>2. done.backup["identity"] = c /\ done.backup["config"] = "none" /\ done.dest = disk.dest
        BY <1>1, <3>1, CopiedBackup
      <3> QED
        BY <3>2 DEF Progress
    <2> HIDE DEF done, cut
    <2> QED
      BY <1>s, <2>1, <2>2, <2>3, DoEffect, BackupStep
  <1>4. CASE Copy("backup_config", "mark_backed_up", disk.dest["config"], "backup", "config")
    <2> DEFINE c == disk.dest["config"]
               done == Copied(c, "backup", "config")
               cut == CopiedCut(c, "backup", "config")
    <2>1. Do("backup_config", "mark_backed_up", done, cut)
      BY <1>4 DEF Copy
    <2>2. \A k \in cut \cup {done} : k \in Disks /\ k.dest = disk.dest /\ k.journal = disk.journal
      BY <1>1, CopiedBackup
    <2>3. ASSUME nextStep = "backup_config" PROVE Progress(done, "mark_backed_up")
      <3>1. disk.backup["identity"] = disk.dest["identity"] /\ disk.backup["config"] = "none"
        BY <2>3 DEF MigInv, Progress
      <3>2. /\ done.backup["config"] = c /\ done.backup["identity"] = disk.dest["identity"]
            /\ done.dest = disk.dest
        BY <1>1, <3>1, CopiedBackup
      <3> QED
        BY <3>2 DEF Progress, Parts
    <2> HIDE DEF done, cut
    <2> QED
      BY <1>s, <2>1, <2>2, <2>3, DoEffect, BackupStep
  <1>5. CASE WriteMigrationJournal("mark_backed_up", "clear_staging")
    <2>1. /\ nextStep = "mark_backed_up"
          /\ \/ Advanced("clear_staging") /\ disk' = Marked(TRUE)
             \/ Interrupted("mark_backed_up") /\ disk' \in {disk, Marked(TRUE)}
      BY <1>5, WriteEffect DEF Ends
    <2>2. /\ Marked(TRUE) \in Disks /\ Marked(TRUE).journal = TRUE
          /\ Marked(TRUE).backup = disk.backup
      BY <1>1, MarkedEffect
    <2>3. sources = Parts /\ ~disk.journal
      BY <1>s, <2>1 DEF MigInv
    <2>4. disk.backup = disk.dest
      <3>1. disk.backup["identity"] = disk.dest["identity"] /\ disk.backup["config"] = disk.dest["config"]
        BY <1>1, <2>1 DEF MigInv, Progress
      <3> QED
        BY <3>1, SamePlace, MigTypes
    <2>5. Whole(disk.dest) /\ Recoverable(disk)
      BY <2>3 DEF MigInv, Recoverable
    <2>6. Recoverable(Marked(TRUE))
      BY <2>2, <2>4, <2>5 DEF Recoverable
    <2>7. CASE Advanced("clear_staging") /\ disk' = Marked(TRUE)
      <3>1. Progress(disk', "clear_staging")
        BY DEF Progress
      <3>2. /\ "clear_staging" \in MigrationSteps \cup {"idle", "up"}
            /\ "clear_staging" \notin BackupSteps \cup {"up"}
        BY DEF MigrationSteps, SwitchSteps, BackupSteps
      <3> QED
        BY <2>2, <2>3, <2>6, <2>7, <3>1, <3>2, AfterAdvance
    <2>8. CASE Interrupted("mark_backed_up") /\ disk' \in {disk, Marked(TRUE)}
      <3>1. nextStep' = "idle"
        BY <1>s, <2>8, BackupStops
      <3>2. disk' \in Disks /\ Recoverable(disk')
        BY <1>1, <2>2, <2>5, <2>6, <2>8
      <3> QED
        BY <2>8, <3>1, <3>2, AfterInterrupt
    <2> QED
      BY <2>1, <2>7, <2>8
  <1> QED
    BY <1>2, <1>3, <1>4, <1>5 DEF BackUp

\* -------------------------------------------------------- under the journal

\* A later write of the journal changes nothing but the phase in it.
LEMMA JournalAgain ==
    ASSUME MigInv, NEW s \in SwitchSteps, NEW to \in SwitchSteps, WriteMigrationJournal(s, to),
           nextStep = s => Progress(disk, to),
           to \in {"verify", "remove_identity"}
    PROVE  MigInv'
  <1>1. Ends(s, to, Marked(TRUE), {disk, Marked(TRUE)})
    BY WriteEffect
  <1>2. s \in Marking /\ to \in Marking /\ nextStep = s
    BY <1>1 DEF Marking, Ends
  <1>3. disk \in Disks /\ disk.journal \in BOOLEAN /\ disk.journal
    BY <1>2, MigTypes DEF MigInv
  <1>4. /\ Marked(TRUE) \in Disks /\ Marked(TRUE).backup = disk.backup
        /\ Marked(TRUE).staging = disk.staging /\ Marked(TRUE).journal = TRUE
    BY <1>3, MarkedEffect
  <1>5. disk.journal = TRUE
    BY <1>3, Zenon
  <1>6. \A k \in {disk, Marked(TRUE)} : k \in Disks /\ k.backup = disk.backup /\ k.journal = disk.journal
    BY <1>3, <1>4, <1>5
  <1>7. Progress(Marked(TRUE), to)
    <2> DEFINE k == Marked(TRUE)
    <2>1. \A p \in Parts : disk.staging[p] = "legacy"
      BY <1>2 DEF Progress
    <2>2. \A p \in Parts : k.staging[p] = "legacy"
      BY <1>4, <2>1
    <2> HIDE DEF k
    <2>3. Progress(k, to)
      BY <2>2 DEF Progress
    <2> QED
      BY <2>3 DEF k
  <1> DEFINE done == Marked(TRUE)
             cut == {disk, done}
  <1>8. /\ Ends(s, to, done, cut) /\ Progress(done, to)
        /\ \A k \in cut \cup {done} :
              k \in Disks /\ k.backup = disk.backup /\ k.journal = disk.journal
    BY <1>1, <1>6, <1>7
  <1> HIDE DEF done, cut
  <1> QED
    BY <1>2, <1>8, MarkingStep

LEMMA StagePartsStep ==
    ASSUME MigInv, StageParts
    PROVE  MigInv'
  <1>1. disk \in Disks /\ "identity" \in Parts /\ "config" \in Parts /\ "legacy" \in Content \ {"old"}
    BY MigTypes DEF Parts, Content
  <1>s. /\ {"clear_staging", "stage_identity", "stage_config", "mark_staged", "verify"} \subseteq SwitchSteps
        /\ SwitchSteps \subseteq Marking
    BY DEF SwitchSteps, Marking
  <1>2. CASE RemoveParts("clear_staging", "stage_identity", "staging", Parts)
    <2> DEFINE done == Removed("staging", Parts)
               cut == RemovedCut("staging", Parts)
    <2>1. Do("clear_staging", "stage_identity", done, cut)
      BY <1>2 DEF RemoveParts
    <2>2. \A k \in cut \cup {done} : k \in Disks /\ k.backup = disk.backup /\ k.journal = disk.journal
      BY <1>1, RemovedStaging
    <2>3. ASSUME nextStep = "clear_staging" PROVE Progress(done, "stage_identity")
      <3>2. \A p \in Parts : done.staging[p] = "none"
        BY <1>1, RemovedStaging
      <3> QED
        BY <3>2 DEF Progress
    <2> HIDE DEF done, cut
    <2> QED
      BY <1>s, <2>1, <2>2, <2>3, DoEffect, MarkingStep
  <1>3. ASSUME nextStep \in SwitchSteps PROVE Source("identity") = "legacy" /\ Source("config") = "legacy"
    BY <1>3 DEF MigInv, Source, Parts
  <1>4. Source("identity") \in Content \ {"old"} /\ Source("config") \in Content \ {"old"}
    BY DEF Source, Content
  <1>5. CASE Copy("stage_identity", "stage_config", Source("identity"), "staging", "identity")
    <2> DEFINE done == Copied(Source("identity"), "staging", "identity")
               cut == CopiedCut(Source("identity"), "staging", "identity")
    <2>1. Do("stage_identity", "stage_config", done, cut)
      BY <1>5 DEF Copy
    <2>2. \A k \in cut \cup {done} : k \in Disks /\ k.backup = disk.backup /\ k.journal = disk.journal
      BY <1>1, <1>4, CopiedStaging
    <2>3. ASSUME nextStep = "stage_identity" PROVE Progress(done, "stage_config")
      <3>0. Source("identity") = "legacy" /\ Source("config") = "legacy"
        BY <1>s, <1>3, <2>3
      <3>1. \A p \in Parts : disk.staging[p] = "none"
        BY <2>3 DEF MigInv, Progress
      <3>2. done.staging["identity"] = "legacy" /\ done.staging["config"] = "none"
        BY <1>1, <1>4, <3>0, <3>1, CopiedStaging
      <3> QED
        BY <3>1, <3>2 DEF Progress
    <2> HIDE DEF done, cut
    <2> QED
      BY <1>s, <2>1, <2>2, <2>3, DoEffect, MarkingStep
  <1>6. CASE Copy("stage_config", "mark_staged", Source("config"), "staging", "config")
    <2> DEFINE done == Copied(Source("config"), "staging", "config")
               cut == CopiedCut(Source("config"), "staging", "config")
    <2>1. Do("stage_config", "mark_staged", done, cut)
      BY <1>6 DEF Copy
    <2>2. \A k \in cut \cup {done} : k \in Disks /\ k.backup = disk.backup /\ k.journal = disk.journal
      BY <1>1, <1>4, CopiedStaging
    <2>3. ASSUME nextStep = "stage_config" PROVE Progress(done, "mark_staged")
      <3>0. Source("identity") = "legacy" /\ Source("config") = "legacy"
        BY <1>s, <1>3, <2>3
      <3>1. disk.staging["identity"] = "legacy" /\ disk.staging["config"] = "none"
        BY <2>3 DEF MigInv, Progress
      <3>2. done.staging["identity"] = "legacy" /\ done.staging["config"] = "legacy"
        BY <1>1, <1>4, <3>0, <3>1, CopiedStaging
      <3> QED
        BY <3>1, <3>2 DEF Progress, Parts
    <2> HIDE DEF done, cut
    <2> QED
      BY <1>s, <2>1, <2>2, <2>3, DoEffect, MarkingStep
  <1>7. CASE WriteMigrationJournal("mark_staged", "verify")
    <2>1. nextStep = "mark_staged" => Progress(disk, "verify")
      BY DEF MigInv, Progress
    <2> QED
      BY <1>s, <1>7, <2>1, JournalAgain
  <1> QED
    BY <1>2, <1>5, <1>6, <1>7 DEF StageParts

LEMMA VerifyStep ==
    ASSUME MigInv, Verify
    PROVE  MigInv'
  <1>s. /\ {"verify", "mark_verified", "remove_identity"} \subseteq SwitchSteps
        /\ SwitchSteps \subseteq Marking
    BY DEF SwitchSteps, Marking
  <1>1. CASE \/ Completes("verify", "mark_verified", disk)
             \/ Fails("verify", {disk}) \/ Crashes("verify", {disk})
    <2>1. Ends("verify", "mark_verified", disk, {disk})
      BY <1>1 DEF Completes, Fails, Crashes, Advanced, Interrupted, Ends
    <2>2. \A k \in {disk} \cup {disk} : k \in Disks /\ k.backup = disk.backup /\ k.journal = disk.journal
      BY MigTypes
    <2>3. nextStep = "verify" => Progress(disk, "mark_verified")
      BY DEF MigInv, Progress
    <2> QED
      BY <1>s, <2>1, <2>2, <2>3, MarkingStep
  <1>2. CASE WriteMigrationJournal("mark_verified", "remove_identity")
    <2>1. nextStep = "mark_verified" => Progress(disk, "remove_identity")
      BY DEF MigInv, Progress
    <2> QED
      BY <1>s, <1>2, <2>1, JournalAgain
  <1> QED
    BY <1>1, <1>2 DEF Verify

\* Dropping the journal, where the destination is whole.
LEMMA DropJournalStep ==
    ASSUME MigInv, NEW s \in {"drop_journal", "rb_journal"}, NEW to \in {"up", "idle", "remove_backup"},
           to = "remove_backup" => sources = Parts, DropJournal(s, to)
    PROVE  MigInv'
  <1>1. Do(s, to, Marked(FALSE), {disk, Marked(FALSE)})
    BY DEF DropJournal
  <1>2. /\ nextStep = s
        /\ \/ Advanced(to) /\ disk' = Marked(FALSE)
           \/ Interrupted(s) /\ disk' \in {disk, Marked(FALSE)}
        /\ nextStep' = "rb_staging" /\ Interrupted(s) => disk' # Marked(FALSE) \/ Advanced(to)
    BY <1>1, DoEffect DEF Ends
  <1>3. nextStep \in Marking
    BY <1>2 DEF Marking, SwitchSteps, RollbackSteps
  <1>4. disk \in Disks /\ disk.journal /\ Recoverable(disk)
    BY <1>3, MigTypes DEF MigInv
  <1>5. /\ Marked(FALSE) \in Disks /\ Marked(FALSE).journal = FALSE
        /\ Marked(FALSE).dest = disk.dest
    BY <1>4, MarkedEffect
  <1>6. Whole(disk.dest)
    <2>1. CASE s = "drop_journal"
      <3>1. \A p \in Parts : disk.dest[p] = "legacy"
        BY <1>2, <2>1 DEF MigInv, Progress
      <3>2. All("legacy") \in [Parts -> Content] /\ \A p \in Parts : All("legacy")[p] = "legacy"
        BY DEF All, Content
      <3>3. disk.dest = All("legacy")
        BY <3>1, <3>2, SamePlace, MigTypes DEF Parts
      <3> QED
        BY <3>3 DEF Whole
    <2>2. CASE s = "rb_journal"
      <3>1. \A p \in Parts : disk.dest[p] = disk.backup[p]
        BY <1>2, <2>2 DEF MigInv, Progress
      <3>2. disk.dest = disk.backup
        BY <3>1, SamePlace, MigTypes DEF Parts
      <3> QED
        BY <1>4, <3>2 DEF Recoverable
    <2> QED
      BY <2>1, <2>2
  <1>7. Recoverable(Marked(FALSE))
    BY <1>5, <1>6 DEF Recoverable
  <1>8. CASE Advanced(to) /\ disk' = Marked(FALSE)
    <2>1. Progress(disk', to)
      BY DEF Progress
    <2>2. to \in MigrationSteps \cup {"idle", "up"} /\ to \notin Marking /\ to \notin SwitchSteps
      BY DEF MigrationSteps, BackupSteps, Marking, SwitchSteps, RollbackSteps
    <2>3. to \in BackupSteps \cup SwitchSteps => sources = Parts
      BY <2>2 DEF BackupSteps
    <2> QED
      BY <1>5, <1>7, <1>8, <2>1, <2>2, <2>3, AfterAdvance
  <1>9. CASE Interrupted(s) /\ disk' \in {disk, Marked(FALSE)}
    <2>1. nextStep' = "rb_staging" => disk' = disk
      BY <1>2, <1>9 DEF Advanced
    <2>2. disk' \in Disks /\ Recoverable(disk')
      BY <1>4, <1>5, <1>7, <1>9
    <2> QED
      BY <1>4, <1>9, <2>1, <2>2, AfterInterrupt
  <1> QED
    BY <1>2, <1>8, <1>9

\* A rename out of the staging area.
LEMMA SwitchPartStep ==
    ASSUME MigInv, NEW s \in SwitchSteps, NEW to \in SwitchSteps, NEW q \in Parts, Switch(s, to, q),
           nextStep = s => disk.staging[q] = "legacy" /\ Progress(Switched(q), to)
    PROVE  MigInv'
  <1>1. Ends(s, to, Switched(q), {disk, Switched(q)})
    BY DoEffect DEF Switch
  <1>2. nextStep = s /\ s \in Marking /\ to \in Marking
    BY <1>1 DEF Ends, Marking
  <1>3. \A k \in {disk, Switched(q)} : k \in Disks /\ k.backup = disk.backup /\ k.journal = disk.journal
    BY <1>2, SwitchedEffect, MigTypes
  <1> QED
    BY <1>1, <1>2, <1>3, MarkingStep

LEMMA SwitchOverStep ==
    ASSUME MigInv, SwitchOver
    PROVE  MigInv'
  <1>1. /\ disk \in Disks /\ "identity" \in Parts /\ "config" \in Parts
        /\ {"identity"} \in SUBSET Parts /\ {"config"} \in SUBSET Parts
    BY MigTypes DEF Parts
  <1>s. /\ {"remove_identity", "remove_config", "switch_identity", "switch_config",
            "drop_staging", "drop_journal"} \subseteq SwitchSteps
        /\ SwitchSteps \subseteq Marking
    BY DEF SwitchSteps, Marking
  <1>2. CASE RemoveParts("remove_identity", "remove_config", "dest", {"identity"})
    <2> DEFINE done == Removed("dest", {"identity"})
               cut == RemovedCut("dest", {"identity"})
    <2>1. Do("remove_identity", "remove_config", done, cut)
      BY <1>2 DEF RemoveParts
    <2>2. \A k \in cut \cup {done} : k \in Disks /\ k.backup = disk.backup /\ k.journal = disk.journal
      BY <1>1, RemovedDest
    <2>3. ASSUME nextStep = "remove_identity" PROVE Progress(done, "remove_config")
      <3>1. \A p \in Parts : disk.staging[p] = "legacy"
        BY <2>3 DEF MigInv, Progress
      <3>2. done.staging = disk.staging
        BY <1>1, <3>1, RemovedDest
      <3> QED
        BY <3>1, <3>2 DEF Progress
    <2> HIDE DEF done, cut
    <2> QED
      BY <1>s, <2>1, <2>2, <2>3, DoEffect, MarkingStep
  <1>3. CASE RemoveParts("remove_config", "switch_identity", "dest", {"config"})
    <2> DEFINE done == Removed("dest", {"config"})
               cut == RemovedCut("dest", {"config"})
    <2>1. Do("remove_config", "switch_identity", done, cut)
      BY <1>3 DEF RemoveParts
    <2>2. \A k \in cut \cup {done} : k \in Disks /\ k.backup = disk.backup /\ k.journal = disk.journal
      BY <1>1, RemovedDest
    <2>3. ASSUME nextStep = "remove_config" PROVE Progress(done, "switch_identity")
      <3>1. \A p \in Parts : disk.staging[p] = "legacy"
        BY <2>3 DEF MigInv, Progress
      <3>2. done.staging = disk.staging
        BY <1>1, <3>1, RemovedDest
      <3> QED
        BY <3>1, <3>2 DEF Progress
    <2> HIDE DEF done, cut
    <2> QED
      BY <1>s, <2>1, <2>2, <2>3, DoEffect, MarkingStep
  <1>4. CASE Switch("switch_identity", "switch_config", "identity")
    <2>1. ASSUME nextStep = "switch_identity"
          PROVE  disk.staging["identity"] = "legacy" /\ Progress(Switched("identity"), "switch_config")
      <3>1. disk.staging["identity"] = "legacy" /\ disk.staging["config"] = "legacy"
        BY <1>1, <2>1 DEF MigInv, Progress
      <3>2. /\ Switched("identity").dest["identity"] = "legacy"
            /\ Switched("identity").staging["config"] = "legacy"
        BY <1>1, <3>1, SwitchedEffect
      <3> QED
        BY <3>1, <3>2 DEF Progress
    <2> QED
      BY <1>1, <1>s, <1>4, <2>1, SwitchPartStep
  <1>5. CASE Switch("switch_config", "drop_staging", "config")
    <2>1. ASSUME nextStep = "switch_config"
          PROVE  disk.staging["config"] = "legacy" /\ Progress(Switched("config"), "drop_staging")
      <3>1. disk.staging["config"] = "legacy" /\ disk.dest["identity"] = "legacy"
        BY <2>1 DEF MigInv, Progress
      <3>2. /\ Switched("config").dest["config"] = "legacy"
            /\ Switched("config").dest["identity"] = "legacy"
        BY <1>1, <3>1, SwitchedEffect
      <3> QED
        BY <3>1, <3>2 DEF Progress, Parts
    <2> QED
      BY <1>1, <1>s, <1>5, <2>1, SwitchPartStep
  <1>6. CASE RemoveParts("drop_staging", "drop_journal", "staging", Parts)
    <2> DEFINE done == Removed("staging", Parts)
               cut == RemovedCut("staging", Parts)
    <2>1. Do("drop_staging", "drop_journal", done, cut)
      BY <1>6 DEF RemoveParts
    <2>2. \A k \in cut \cup {done} : k \in Disks /\ k.backup = disk.backup /\ k.journal = disk.journal
      BY <1>1, RemovedStaging
    <2>3. ASSUME nextStep = "drop_staging" PROVE Progress(done, "drop_journal")
      <3>1. \A p \in Parts : disk.dest[p] = "legacy"
        BY <2>3 DEF MigInv, Progress
      <3>2. done.dest = disk.dest
        BY <1>1, <3>1, RemovedStaging
      <3> QED
        BY <3>1, <3>2 DEF Progress
    <2> HIDE DEF done, cut
    <2> QED
      BY <1>s, <2>1, <2>2, <2>3, DoEffect, MarkingStep
  <1>7. CASE DropJournal("drop_journal", "up")
    BY <1>7, DropJournalStep
  <1> QED
    BY <1>2, <1>3, <1>4, <1>5, <1>6, <1>7 DEF SwitchOver

LEMMA RollbackStep ==
    ASSUME MigInv, Rollback
    PROVE  MigInv'
  <1>1. /\ disk \in Disks /\ "identity" \in Parts /\ "config" \in Parts
        /\ {"identity"} \in SUBSET Parts /\ {"config"} \in SUBSET Parts
        /\ disk.backup["identity"] \in Content /\ disk.backup["config"] \in Content
    BY MigTypes DEF Parts
  <1>s. /\ {"rb_staging", "rb_identity", "rb_config", "rb_restore_identity",
            "rb_restore_config", "rb_journal"} \subseteq Marking
        /\ {"rb_staging", "rb_identity", "rb_config", "rb_restore_identity",
            "rb_restore_config", "rb_journal"} \cap SwitchSteps = {}
    BY DEF SwitchSteps, RollbackSteps, Marking
  <1>2. CASE RemoveParts("rb_staging", "rb_identity", "staging", Parts)
    <2> DEFINE done == Removed("staging", Parts)
               cut == RemovedCut("staging", Parts)
    <2>1. Do("rb_staging", "rb_identity", done, cut)
      BY <1>2 DEF RemoveParts
    <2>2. \A k \in cut \cup {done} : k \in Disks /\ k.backup = disk.backup /\ k.journal = disk.journal
      BY <1>1, RemovedStaging
    <2>3. ASSUME nextStep = "rb_staging" PROVE Progress(done, "rb_identity")
      BY DEF Progress
    <2> HIDE DEF done, cut
    <2> QED
      BY <1>s, <2>1, <2>2, <2>3, DoEffect, MarkingStep
  <1>3. CASE RemoveParts("rb_identity", "rb_config", "dest", {"identity"})
    <2> DEFINE done == Removed("dest", {"identity"})
               cut == RemovedCut("dest", {"identity"})
    <2>1. Do("rb_identity", "rb_config", done, cut)
      BY <1>3 DEF RemoveParts
    <2>2. \A k \in cut \cup {done} : k \in Disks /\ k.backup = disk.backup /\ k.journal = disk.journal
      BY <1>1, RemovedDest
    <2>3. ASSUME nextStep = "rb_identity" PROVE Progress(done, "rb_config")
      <3>2. done.dest["identity"] = "none"
        BY <1>1, RemovedDest
      <3> QED
        BY <3>2 DEF Progress
    <2> HIDE DEF done, cut
    <2> QED
      BY <1>s, <2>1, <2>2, <2>3, DoEffect, MarkingStep
  <1>4. CASE RemoveParts("rb_config", "rb_restore_identity", "dest", {"config"})
    <2> DEFINE done == Removed("dest", {"config"})
               cut == RemovedCut("dest", {"config"})
    <2>1. Do("rb_config", "rb_restore_identity", done, cut)
      BY <1>4 DEF RemoveParts
    <2>2. \A k \in cut \cup {done} : k \in Disks /\ k.backup = disk.backup /\ k.journal = disk.journal
      BY <1>1, RemovedDest
    <2>3. ASSUME nextStep = "rb_config" PROVE Progress(done, "rb_restore_identity")
      <3>1. disk.dest["identity"] = "none"
        BY <2>3 DEF MigInv, Progress
      <3>2. done.dest["identity"] = "none" /\ done.dest["config"] = "none"
        BY <1>1, <3>1, RemovedDest
      <3> QED
        BY <3>1, <3>2 DEF Progress, Parts
    <2> HIDE DEF done, cut
    <2> QED
      BY <1>s, <2>1, <2>2, <2>3, DoEffect, MarkingStep
  <1>5. CASE Copy("rb_restore_identity", "rb_restore_config", disk.backup["identity"], "dest", "identity")
    <2> DEFINE done == Copied(disk.backup["identity"], "dest", "identity")
               cut == CopiedCut(disk.backup["identity"], "dest", "identity")
    <2>1. Do("rb_restore_identity", "rb_restore_config", done, cut)
      BY <1>5 DEF Copy
    <2>2. \A k \in cut \cup {done} : k \in Disks /\ k.backup = disk.backup /\ k.journal = disk.journal
      BY <1>1, CopiedDest
    <2>3. ASSUME nextStep = "rb_restore_identity" PROVE Progress(done, "rb_restore_config")
      <3>1. \A p \in Parts : disk.dest[p] = "none"
        BY <2>3 DEF MigInv, Progress
      <3>2. /\ done.dest["identity"] = disk.backup["identity"] /\ done.dest["config"] = "none"
            /\ done.backup = disk.backup
        BY <1>1, <3>1, CopiedDest
      <3> QED
        BY <3>1, <3>2 DEF Progress
    <2> HIDE DEF done, cut
    <2> QED
      BY <1>s, <2>1, <2>2, <2>3, DoEffect, MarkingStep
  <1>6. CASE Copy("rb_restore_config", "rb_journal", disk.backup["config"], "dest", "config")
    <2> DEFINE done == Copied(disk.backup["config"], "dest", "config")
               cut == CopiedCut(disk.backup["config"], "dest", "config")
    <2>1. Do("rb_restore_config", "rb_journal", done, cut)
      BY <1>6 DEF Copy
    <2>2. \A k \in cut \cup {done} : k \in Disks /\ k.backup = disk.backup /\ k.journal = disk.journal
      BY <1>1, CopiedDest
    <2>3. ASSUME nextStep = "rb_restore_config" PROVE Progress(done, "rb_journal")
      <3>1. disk.dest["identity"] = disk.backup["identity"] /\ disk.dest["config"] = "none"
        BY <2>3 DEF MigInv, Progress
      <3>2. /\ done.dest["config"] = disk.backup["config"]
            /\ done.dest["identity"] = disk.backup["identity"] /\ done.backup = disk.backup
        BY <1>1, <3>1, CopiedDest
      <3> QED
        BY <3>1, <3>2 DEF Progress, Parts
    <2> HIDE DEF done, cut
    <2> QED
      BY <1>s, <2>1, <2>2, <2>3, DoEffect, MarkingStep
  <1>7. CASE DropJournal("rb_journal", IF recovering THEN Migrate ELSE "idle")
    <2> DEFINE after == IF recovering THEN Migrate ELSE "idle"
    <2>1. sources \in {{}, Parts}
      BY MigTypes
    <2>2. after \in {"up", "idle", "remove_backup"} /\ (after = "remove_backup" => sources = Parts)
      BY <2>1 DEF Migrate
    <2> HIDE DEF after
    <2>3. DropJournal("rb_journal", after)
      BY <1>7 DEF after
    <2> QED
      BY <2>2, <2>3, DropJournalStep
  <1> QED
    BY <1>2, <1>3, <1>4, <1>5, <1>6, <1>7 DEF Rollback

\* ------------------------------------------------------- the whole migration

LEMMA InstallStartStep ==
    ASSUME MigInv, OrderlyMigration, StartMigration
    PROVE  MigInv'
  <1>1. /\ sources' \in {{}, Parts} /\ recovering' = disk.journal
        /\ disk' = disk /\ faults' = faults /\ good' = good /\ paired' = paired
    BY DEF StartMigration, OrderlyMigration
  <1>2. \/ disk.journal /\ nextStep' = "rb_staging"
        \/ ~disk.journal /\ nextStep' = "up"
        \/ ~disk.journal /\ nextStep' = "remove_backup" /\ sources' = Parts
    BY <1>1 DEF StartMigration, Migrate
  <1>3. recovering' \in BOOLEAN
    BY <1>1, MigTypes
  <1>4. nextStep' \in MigrationSteps \cup {"idle", "up"}
    BY <1>2 DEF MigrationSteps, BackupSteps, RollbackSteps
  <1>5. sources' \subseteq Parts
    BY <1>1
  <1>6. MigrationTypeOK'
    BY <1>1, <1>3, <1>4, <1>5 DEF MigInv, MigrationTypeOK
  <1>7. History' /\ Recoverable(disk)'
    BY <1>1 DEF MigInv, History, Recoverable, Whole
  <1>8. Progress(disk, nextStep)'
    BY <1>2 DEF Progress
  <1>9. /\ nextStep' \in BackupSteps \cup SwitchSteps => sources' = Parts
        /\ nextStep' \in Marking => disk.journal
        /\ nextStep' \in BackupSteps \cup {"up"} => ~disk.journal
    BY <1>2 DEF BackupSteps, SwitchSteps, RollbackSteps, Marking
  <1> QED
    BY <1>1, <1>6, <1>7, <1>8, <1>9 DEF MigInv

\* A destination that was whole when the host ran is good.
LEMMA ExitStep ==
    ASSUME MigInv, Exit
    PROVE  MigInv'
  <1>1. /\ nextStep = "up" /\ nextStep' = "idle" /\ good' = disk.dest
        /\ paired' = paired \cup HeldParts(disk.dest) /\ recovering' = FALSE
        /\ disk' = disk /\ sources' = sources /\ faults' = faults
    BY DEF Exit
  <1>2. Whole(disk.dest) /\ ~disk.journal
    BY <1>1 DEF MigInv, Recoverable
  <1>3. HeldParts(disk.dest) \subseteq Parts
    BY DEF HeldParts
  <1>4. disk.dest \in [Parts -> Content] /\ paired \in SUBSET Parts
    BY MigTypes
  <1>5. MigrationTypeOK'
    BY <1>1, <1>3, <1>4 DEF MigInv, MigrationTypeOK
  <1>6. Recoverable(disk)'
    BY <1>1, <1>2 DEF Recoverable, Whole
  <1>7. History'
    <2>1. good' \in {All("none"), All("old"), All("legacy")}
      BY <1>1, <1>2 DEF MigInv, History, Whole
    <2>2. ASSUME HeldParts(disk.dest) # {} PROVE disk.dest # All("none")
      BY <2>2 DEF HeldParts, All
    <2>3. ASSUME paired # {} PROVE disk.dest \in {All("old"), All("legacy")}
      BY <1>2, <2>3 DEF MigInv, History, Whole
    <2> QED
      BY <1>1, <2>1, <2>2, <2>3 DEF History
  <1>8. Progress(disk, nextStep)'
    BY <1>1 DEF Progress
  <1>9. nextStep' \notin BackupSteps \cup SwitchSteps \cup Marking \cup {"up"}
    BY <1>1 DEF BackupSteps, SwitchSteps, RollbackSteps, Marking
  <1>10. sources' \in {{}, Parts}
    BY <1>1, MigTypes
  <1> QED
    BY <1>5, <1>6, <1>7, <1>8, <1>9, <1>10 DEF MigInv

LEMMA MigrationStarts == MigrationInit => MigInv
  <1> SUFFICES ASSUME MigrationInit PROVE MigInv
    OBVIOUS
  <1>1. PICK c \in {"none", "old"} :
            disk = [dest |-> All(c), backup |-> All("none"), staging |-> All("none"), journal |-> FALSE]
    BY DEF MigrationInit
  <1>2. /\ sources = {} /\ nextStep = "idle" /\ recovering = FALSE /\ faults = 0
        /\ good = disk.dest /\ paired = HeldParts(disk.dest)
    BY DEF MigrationInit
  <1>3. /\ disk.dest = All(c) /\ disk.backup = All("none") /\ disk.staging = All("none")
        /\ ~disk.journal
    BY <1>1
  <1>4. disk \in Disks
    BY <1>1 DEF Disks, All, Content
  <1>5. disk.dest \in [Parts -> Content] /\ HeldParts(disk.dest) \subseteq Parts
    BY <1>4 DEF Disks, HeldParts
  <1>6. MigrationTypeOK
    <2>1. faults \in 0..MaxFaults /\ nextStep \in MigrationSteps \cup {"idle", "up"}
      BY <1>2, MigrationAssumption
    <2>2. sources \subseteq Parts /\ recovering \in BOOLEAN
      BY <1>2, Zenon
    <2>3. good \in [Parts -> Content] /\ paired \subseteq Parts
      BY <1>2, <1>5
    <2> QED
      BY <1>4, <2>1, <2>2, <2>3 DEF MigrationTypeOK, Disks
  <1>7. History
    <2>1. HeldParts(All("none")) = {}
      BY DEF HeldParts, All
    <2> QED
      BY <1>2, <1>3, <2>1 DEF History
  <1>8. Recoverable(disk)
    BY <1>2, <1>3 DEF Recoverable, Whole
  <1>9. Progress(disk, nextStep)
    BY <1>2 DEF Progress
  <1>10. nextStep \notin BackupSteps \cup SwitchSteps \cup Marking \cup {"up"}
    BY <1>2 DEF BackupSteps, SwitchSteps, RollbackSteps, Marking
  <1> QED
    BY <1>2, <1>6, <1>7, <1>8, <1>9, <1>10 DEF MigInv

LEMMA MigrationKeeps == OrderlyMigration /\ MigInv /\ [MigrationNext]_migrationVars => MigInv'
  <1> SUFFICES ASSUME OrderlyMigration, MigInv, [MigrationNext]_migrationVars PROVE MigInv'
    OBVIOUS
  <1>1. CASE UNCHANGED migrationVars
    BY <1>1 DEF migrationVars, MigInv, MigrationTypeOK, History, Recoverable, Whole, Progress
  <1> QED
    BY <1>1, InstallStartStep, BackUpStep, StagePartsStep, VerifyStep, SwitchOverStep, RollbackStep,
       ExitStep DEF MigrationNext

\* Every part that was ever paired is whole in the destination or in the
\* backup: the journal tells which of them is.
LEMMA MigrationIsSafe == MigInv => MigrationSafe
  <1> SUFFICES ASSUME MigInv PROVE MigrationSafe
    OBVIOUS
  <1>1. PICK at \in {"dest", "backup"} : Whole(disk[at])
    BY MigTypes DEF MigInv, Recoverable, Disks
  <1>2. ASSUME paired # {} PROVE \A p \in Parts : disk[at][p] \in Intact
    <2>1. disk[at] \in {All("old"), All("legacy")}
      BY <1>1, <1>2 DEF MigInv, History, Whole
    <2> QED
      BY <2>1 DEF All, Intact
  <1>3. paired \subseteq Parts
    BY MigTypes
  <1>4. NeverLosePairedInstall
    BY <1>1, <1>2, <1>3 DEF NeverLosePairedInstall
  <1>5. NeverHalfMigrated
    BY DEF MigInv, Recoverable, Whole, NeverHalfMigrated
  <1> QED
    BY <1>4, <1>5 DEF MigInv, MigrationSafe

\* Starts of the host, updates, I/O errors and crashes in any order lose neither
\* the paired identity nor the program, and never bring up a half-migrated
\* identity, as long as the legacy source is whole or absent and no I/O error
\* stops the backup itself (identity.rs, swap.rs).
THEOREM InstallationSurvives ==
    OrderlyMigration => (MigrationSpec /\ SwapSpec => []InstallSurvives)
  <1> SUFFICES ASSUME OrderlyMigration PROVE MigrationSpec /\ SwapSpec => []InstallSurvives
    OBVIOUS
  <1>1. MigInv /\ [MigrationNext]_migrationVars => MigInv'
    BY MigrationKeeps
  <1>2. MigInv /\ SwapInv => InstallSurvives
    BY MigrationIsSafe DEF SwapInv, InstallSurvives
  <1> QED
    BY <1>1, <1>2, MigrationStarts, SwapStarts, SwapSteps, PTL DEF MigrationSpec, SwapSpec

=============================================================================
