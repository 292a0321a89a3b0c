---------------------------- MODULE HostAuthority ----------------------------
(***************************************************************************)
(* Who controls the host's own resources: the renewable lease of a remote   *)
(* owner, the privacy mode whose protections are applied as a transaction,  *)
(* and the registry of monitors whose identity survives reordering.  The    *)
(* three share no state, so a behaviour follows one of them.                *)
(*                                                                          *)
(* The clock is represented by the time left of the lease.                  *)
(***************************************************************************)
EXTENDS Integers, Sequences, FiniteSets

CONSTANTS
    Remotes,      \* remote owners
    LeaseMs,      \* lease_ms, in ticks of the watchdog
    GenRing,      \* size of the generation ring, an even number
    Monitors,     \* number of physical monitors
    Models,       \* number of distinct EDIDs among them: monitors of one model may share one
    MaxStreams    \* max_streams

ASSUME HostAuthorityAssumption ==
    /\ LeaseMs \in Nat \ {0} /\ MaxStreams \in Nat
    /\ GenRing \in Nat /\ GenRing >= 2 /\ GenRing % 2 = 0
    /\ Monitors \in Nat /\ Models \in Nat \ {0}

VARIABLES
    desk,     \* the part this behaviour follows
    lease,    \* HostAuthorityLease: [st, owner, gen, left]
    quiet,    \* history: ticks since the last attempt that was not denied
    privacy,  \* PrivacyMode: [active, protections]
    inForce,  \* protections the platform really applies
    reported, \* PrivacyState sent to the remote last
    plugged,  \* the OS display list
    registry  \* OutputRegistry: entries by EDID, [at, connected, streaming]

holdVars == <<lease, quiet>>
privacyVars == <<privacy, inForce, reported>>
registryVars == <<plugged, registry>>
authorityVars == <<desk, holdVars, privacyVars, registryVars>>

\* --------------------------------------------------------------- the lease

Local == [st |-> "local", owner |-> "none", gen |-> 0, left |-> 0]
Held(owner, gen) == [st |-> "held", owner |-> owner, gen |-> gen, left |-> LeaseMs]

LeaseStep == desk = "lease" /\ UNCHANGED <<desk, privacyVars, registryVars>>

\* poll: at the deadline the lease is over.
Expires(l) == IF l.st = "held" /\ l.left <= 0 THEN Local ELSE l

NewerOwnership(a, b) == a = b \/ (a # b /\ (a - b) % GenRing < GenRing \div 2)

\* acquire: expire, then grant a free lease, renew the holder's own, deny everyone else, every
\* older generation, and everyone while degraded.
GrantsAny(l, owner, gen) == IF l.st = "degraded" THEN l ELSE Held(owner, gen)
Grants(l, owner, gen) ==
    IF \/ l.st = "local"
       \/ l.st = "held" /\ owner = l.owner /\ NewerOwnership(gen, l.gen)
    THEN Held(owner, gen) ELSE l

Acquire(owner, gen) ==
    /\ LeaseStep
    /\ lease' = Grants(Expires(lease), owner, gen)
    /\ quiet' = IF lease' = Held(owner, gen) THEN 0 ELSE quiet

\* Time passes; the watchdog polls no later than a tick after the deadline.
LeaseTick ==
    /\ LeaseStep /\ (lease.st = "held" => lease.left >= 0)
    /\ lease' = IF lease.st = "held" THEN [lease EXCEPT !.left = @ - 1] ELSE lease
    /\ quiet' = IF quiet <= LeaseMs + 1 THEN quiet + 1 ELSE quiet
WatchdogPoll == LeaseStep /\ lease' = Expires(lease) /\ UNCHANGED quiet

\* release: by the holder only.
Releases(owner) ==
    /\ LeaseStep /\ lease' = IF lease.st = "held" /\ lease.owner = owner THEN Local ELSE lease
    /\ UNCHANGED quiet

\* fault and clear_fault: the host has local control, visibly degraded, until cleared.
Fault == LeaseStep /\ lease' = [Local EXCEPT !.st = "degraded"] /\ UNCHANGED quiet
ClearFault ==
    /\ LeaseStep /\ lease' = IF lease.st = "degraded" THEN Local ELSE lease
    /\ UNCHANGED quiet

\* journal and recover: whatever was journaled, a reboot comes back to local control.
Recovered(l) == Local
Reboot == LeaseStep /\ lease' = Recovered(lease) /\ quiet' = LeaseMs + 2

\* ------------------------------------------------------------- privacy mode

PROTECT_ALL == {"blank", "block"}
PROTECTION_BITS == <<"blank", "block">>

PrivacyStep == desk = "privacy" /\ UNCHANGED <<desk, holdVars, registryVars>>

Off == [active |-> FALSE, protections |-> {}]
Report(p, status) == [active |-> p.active, protections |-> p.protections, status |-> status]

\* Re-engaging rolls the protections in force back before anything is applied.
BaseKept(force) == force
CleanBase(force) == force \ privacy.protections

\* The closures applied in PROTECTION_BITS order until one of failing: those applied are rolled back.
AppliedInOrder(asked, failing) ==
    {b \in asked : \A k \in 1..2 : PROTECTION_BITS[k] \in asked \intersect failing =>
                       \E j \in 1..2 : PROTECTION_BITS[j] = b /\ j < k}
AfterFailure(base, asked, failing) == base \ AppliedInOrder(asked, failing)

\* decode_request refuses bits this build does not know; engage rejects an empty request.
EngageRefused(asked) == asked = {} \/ ~(asked \subseteq PROTECT_ALL)

Engage(asked, failing) ==
    /\ PrivacyStep
    /\ IF EngageRefused(asked) THEN
            /\ reported' = Report(privacy, "rejected") /\ UNCHANGED <<privacy, inForce>>
       ELSE IF asked \intersect failing # {} THEN
            /\ privacy' = Off /\ inForce' = AfterFailure(CleanBase(inForce), asked, failing)
            /\ reported' = Report(Off, "rejected")
       ELSE /\ privacy' = [active |-> TRUE, protections |-> asked]
            /\ inForce' = CleanBase(inForce) \union asked
            /\ reported' = Report(privacy', "applied")

\* disengage: rolls back what is recorded, and no more.
Disengage ==
    /\ PrivacyStep /\ privacy' = Off /\ inForce' = inForce \ privacy.protections
    /\ reported' = Report(Off, "applied")

\* fail_open, on a crash, an expired lease or a reboot: the platform has dropped the protections
\* and the caller reports the loss.
FailOpen ==
    /\ PrivacyStep /\ privacy' = Off /\ inForce' = {} /\ reported' = Report(Off, "applied")

\* ------------------------------------------------------------- the registry

RegistryStep == desk = "outputs" /\ UNCHANGED <<desk, holdVars, privacyVars>>

\* edid_output_id: the identity is the EDID's, whatever the position in the list.
OutputId(m) == m % Models
OutputIds(list) == {OutputId(list[k]) : k \in DOMAIN list}
LastAt(list, id) == CHOOSE k \in DOMAIN list :
                        OutputId(list[k]) = id /\ \A j \in DOMAIN list : OutputId(list[j]) = id => j <= k

\* enumerate: known ids keep their entry, absent ones are disconnected and stop streaming.
EntryAfter(e, list, id) ==
    IF id \in OutputIds(list) THEN [e EXCEPT !.connected = TRUE, !.at = LastAt(list, id)]
    ELSE [e EXCEPT !.connected = FALSE, !.streaming = FALSE]

Fresh == [at |-> 0, connected |-> FALSE, streaming |-> FALSE]

\* A display change: the OS presents another list and enumerate reconciles it.
Enumerate(list) ==
    /\ RegistryStep /\ plugged' = list
    /\ registry' = [id \in DOMAIN registry \union OutputIds(list) |->
                        EntryAfter(IF id \in DOMAIN registry THEN registry[id] ELSE Fresh, list, id)]

StreamingIds == {id \in DOMAIN registry : registry[id].streaming}

\* try_stream and stop_stream.
StreamsBelowCap == Cardinality(StreamingIds) < MaxStreams
TryStream(id) ==
    /\ RegistryStep /\ StreamsBelowCap /\ id \in DOMAIN registry /\ registry[id].connected
    /\ registry' = [registry EXCEPT ![id].streaming = TRUE] /\ UNCHANGED plugged
StopStream(id) ==
    /\ RegistryStep /\ id \in DOMAIN registry
    /\ registry' = [registry EXCEPT ![id].streaming = FALSE] /\ UNCHANGED plugged

\* ------------------------------------------------------------ specification

DisplayLists == {l \in UNION {[1..n -> 1..Monitors] : n \in 0..Monitors} :
                    \A j, k \in DOMAIN l : l[j] = l[k] => j = k}

AuthorityInit ==
    /\ desk \in {"lease", "privacy", "outputs"}
    /\ lease = Local /\ quiet = 0
    /\ privacy = Off /\ inForce = {} /\ reported = Report(Off, "applied")
    /\ plugged = <<>> /\ registry = <<>>

AuthorityNext ==
    \/ \E o \in Remotes, g \in 0..(GenRing - 1) : Acquire(o, g)
    \/ LeaseTick \/ WatchdogPoll \/ Fault \/ ClearFault \/ Reboot
    \/ \E o \in Remotes : Releases(o)
    \/ \E a \in SUBSET (PROTECT_ALL \union {"future"}), f \in SUBSET PROTECT_ALL : Engage(a, f)
    \/ Disengage \/ FailOpen
    \/ \E l \in DisplayLists : Enumerate(l)
    \/ \E m \in 1..Monitors : TryStream(OutputId(m)) \/ StopStream(OutputId(m))

AuthoritySpec == AuthorityInit /\ [][AuthorityNext]_authorityVars

\* --------------------------------------------------------------- properties

\* A live lease never passes straight to another owner, nor to an older generation of its own:
\* a release, a fault, a reboot or the deadline comes between (acquire).
HolderUndisturbed ==
    [][lease.st = "held" /\ lease'.st = "held" =>
          \/ lease'.owner = lease.owner /\ NewerOwnership(lease'.gen, lease.gen)
          \/ lease.left <= 0]_authorityVars

\* When nobody is granted anything, the host controls itself again within one lease and the watchdog's
\* tick: denied attempts keep no lease alive, and a reboot brings none back (poll, acquire, recover).
FailsOpenInTime == lease.st = "held" => quiet <= LeaseMs + 1

\* The protections the platform applies are the ones recorded, reported and active: whatever
\* fails, none is left in force that neither disengage nor fail_open would lift (engage).
NoOrphanProtection ==
    /\ inForce = privacy.protections /\ privacy.active = (inForce # {})
    /\ reported.protections = inForce /\ reported.active = privacy.active

\* Streams run on connected outputs only and never beyond the cap, through unplugs and replugs
\* (enumerate, try_stream).
StreamsBounded ==
    /\ Cardinality(StreamingIds) <= MaxStreams
    /\ \A id \in StreamingIds : registry[id].connected

\* An output keeps its identity and its stream through any display change that leaves its monitor
\* plugged, and its entry always points at a monitor of that EDID (edid_output_id, enumerate).
IdentityStable ==
    [][\A id \in StreamingIds :
          /\ \A k \in DOMAIN plugged' : OutputId(plugged'[k]) = id /\ plugged' # plugged =>
                 registry'[id].streaming /\ OutputId(plugged'[registry'[id].at]) = id]_authorityVars

\* Nothing outlives its owner: leases lapse, protections are lifted and
\* streams stay on connected outputs (host_authority.rs, privacy_mode.rs,
\* output_registry.rs).
AuthorityFailsOpen == FailsOpenInTime /\ NoOrphanProtection /\ StreamsBounded

\* Neither a live lease nor a streaming output changes hands by an event that
\* does not concern it (acquire, enumerate).
AuthorityUndisturbed == HolderUndisturbed /\ IdentityStable

=============================================================================
