---------------------------- MODULE LoginLimiter ----------------------------
(***************************************************************************)
(* The fixed-window login rate limiter of the web server and the login      *)
(* handler around it: the handler asks the limiter, verifies the password   *)
(* (which takes long, with other logins in between) and only then records   *)
(* the outcome.  Entries carry the age of their window.                     *)
(***************************************************************************)
EXTENDS Integers, FiniteSets, FiniteSetsExt, Functions

CONSTANTS
    Peers,        \* addresses that try to log in
    Logins,       \* login requests in flight
    MaxFailures,  \* MAX_FAILURES
    Window,       \* WINDOW, in ticks
    MapLimit      \* MAP_LIMIT

ASSUME LimiterAssumption ==
    /\ {MaxFailures, Window, MapLimit} \subseteq Nat \ {0} /\ IsFiniteSet(Peers) /\ IsFiniteSet(Logins)

FailureCap == MaxFailures + Cardinality(Logins)

VARIABLES
    entries,   \* peer -> [age, failures]
    login,     \* request -> the peer it verifies a password for, or "idle"
    refused,   \* the peer of the last refusal, or "idle"
    failed     \* history: peer -> ages of its failures inside the last window

limiterVars == <<entries, login, refused, failed>>

LimiterInit ==
    /\ entries = [p \in {} |-> 0] /\ login = [l \in Logins |-> "idle"] /\ refused = "idle"
    /\ failed = [p \in Peers |-> [a \in 0 .. Window - 1 |-> 0]]

Expired(e) == e.age >= Window

\* check: an expired window lets the attempt through; it is reset by the next failure.
Denied(p) == p \in DOMAIN entries /\ ~Expired(entries[p]) /\ entries[p].failures >= MaxFailures

\* login: the limiter is asked before any password work.
LoginBegins(l) ==
    /\ login[l] = "idle"
    /\ \E p \in Peers :
        \/ Denied(p) /\ refused' = p /\ UNCHANGED login
        \/ ~Denied(p) /\ login' = [login EXCEPT ![l] = p] /\ refused' = "idle"
    /\ UNCHANGED <<entries, failed>>

\* evict: the expired entries, or else one with the oldest window.
Evicted ==
    LET live == {p \in DOMAIN entries : ~Expired(entries[p])}
        oldest == {p \in live : \A q \in live : entries[q].age <= entries[p].age}
    IN IF Cardinality(live) < MapLimit THEN {live} ELSE {live \ {p} : p \in oldest}

\* The failures of an entry before this one is counted.
FreshWindow(e) == IF Expired(e) THEN [age |-> 0, failures |-> 0] ELSE e

\* record_failure: eviction before a new key, a fresh window for an expired entry.
RecordFailure(p) ==
    \E keep \in IF p \notin DOMAIN entries /\ Cardinality(DOMAIN entries) >= MapLimit
                THEN Evicted ELSE {DOMAIN entries} :
        LET old == IF p \in keep THEN FreshWindow(entries[p]) ELSE [age |-> 0, failures |-> 0]
        IN entries' = [q \in keep \union {p} |->
                          IF q = p THEN [old EXCEPT !.failures = Min({@ + 1, FailureCap})] ELSE entries[q]]

\* The verdict of a verification: wrong credentials are counted, a success clears the peer,
\* and an internal error does neither.
LoginEnds(l) ==
    /\ login[l] # "idle"
    /\ LET p == login[l]
       IN \/ RecordFailure(p) /\ failed' = [failed EXCEPT ![p][0] = Min({@ + 1, FailureCap})]
          \/ entries' = Restrict(entries, DOMAIN entries \ {p}) /\ failed' = [failed EXCEPT ![p] = [a \in 0 .. Window - 1 |-> 0]]
          \/ UNCHANGED <<entries, failed>>
    /\ login' = [login EXCEPT ![l] = "idle"] /\ refused' = "idle"

LimiterTick ==
    /\ entries' = [p \in DOMAIN entries |-> [entries[p] EXCEPT !.age = Min({@ + 1, Window})]]
    /\ failed' = [p \in Peers |-> [a \in 0 .. Window - 1 |-> IF a = 0 THEN 0 ELSE failed[p][a - 1]]]
    /\ refused' = "idle" /\ UNCHANGED login

LimiterNext == LimiterTick \/ \E l \in Logins : LoginBegins(l) \/ LoginEnds(l)

LimiterSpec == LimiterInit /\ [][LimiterNext]_limiterVars

\* --------------------------------------------------------------- properties

\* Memory is bounded whatever number of addresses fails to log in, and so is what a peer
\* can fail in one window: the verifications already running when the limit was reached are
\* counted on top of it, never more.
LimiterBounded ==
    /\ Cardinality(DOMAIN entries) <= MapLimit
    /\ \A p \in DOMAIN entries : ~Expired(entries[p]) => entries[p].failures <= MaxFailures + Cardinality(Logins) - 1

\* A refusal is earned: the peer failed MAX_FAILURES times within the last window, with no
\* successful login after those failures.
RefusalEarned == refused # "idle" => FoldFunction(+, 0, failed[refused]) >= MaxFailures

\* A blocked peer stays blocked for its window, whatever other peers do and however late its
\* own verifications end, unless one of those succeeds, or the map is full of live windows,
\* the peer's is the oldest of them and a new address fails: then it is evicted and may try
\* again at once (evict, against the note on eviction at the head of login_limiter.rs).
BlockKept ==
    [][\A p \in Peers : Denied(p) /\ ~Denied(p)' =>
          \/ entries[p].age + 1 >= Window /\ p \in DOMAIN entries'
          \/ \E l \in Logins : login[l] = p /\ login'[l] = "idle" /\ DOMAIN entries' = DOMAIN entries \ {p}
          \/ /\ p \notin DOMAIN entries' /\ DOMAIN entries' \ DOMAIN entries # {}
             /\ Cardinality(DOMAIN entries) >= MapLimit
             /\ \A q \in DOMAIN entries : entries[q].age <= entries[p].age]_limiterVars

\* The limiter is bounded and refuses only those who earned it
\* (login_limiter.rs record_failure, check).
LimiterFair == LimiterBounded /\ RefusalEarned

=============================================================================
