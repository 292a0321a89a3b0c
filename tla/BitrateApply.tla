---------------------------- MODULE BitrateApply ----------------------------
(***************************************************************************)
(* From the receiver's estimates to the host's encoder: the adaptive       *)
(* bitrate controller in the RTCP reader, the composition with the         *)
(* congestion controller's target, the apply gate, and the machine that    *)
(* sends one 0x5506 request at a time and waits for its 0x5509 answer.     *)
(* A stream started without a bitrate has no controller: its target is     *)
(* zero, and the gate has no baseline.                                     *)
(*                                                                         *)
(* Time is the 500 ms tick of the task; rates are in units of a tenth of   *)
(* the ceiling.                                                            *)
(***************************************************************************)
EXTENDS Integers, Sequences

CONSTANTS
    Ceiling, Floor,   \* the ABR bounds
    Step,             \* increase_step_kbps
    MinApplyInterval, \* MIN_APPLY_INTERVAL_MS in ticks
    AckTimeout,       \* ACK_TIMEOUT_MS in ticks
    AckQueue,         \* capacity of the channel of answers
    MaxChanges        \* bound on estimates in a run

\* What AbrConfig::sanitised leaves of a configuration.
AbrSanitised == {Ceiling, Floor, Step} \subseteq Nat \ {0} /\ Floor <= Ceiling

\* A failed send is tried again sooner than an answer is given up.
ASSUME ApplyAssumption ==
    /\ AbrSanitised /\ {MinApplyInterval, AckTimeout, AckQueue, MaxChanges} \subseteq Nat \ {0}
    /\ MinApplyInterval <= AckTimeout

VARIABLES
    abrKbps,    \* AbrController.current_kbps as the reader published it, 0 for none
    ccKbps,     \* the target CcShared shows the task, 0 for none
    gate,       \* ApplyGate: [last, age], last 0 for no baseline
    status,     \* BitrateApplyStatus: [at, kbps, age]
    attempt,    \* ticks since last_attempt_ms
    tracked,    \* ack_supported
    wire,       \* requests and answers between task and host
    answers,    \* the channel the control thread fills
    expired,    \* history: requests given up unanswered
    changes,    \* estimates so far
    held        \* history: ticks an emergency decrease has been waiting

applyVars == <<abrKbps, ccKbps, gate, status, attempt, tracked, wire, answers, expired, changes, held>>

Smaller(a, b) == IF a < b THEN a ELSE b
Larger(a, b) == IF a > b THEN a ELSE b

\* Ages stop where they no longer matter.
Cap == AckTimeout + MinApplyInterval
Older(age) == Smaller(age + 1, Cap)

Idle == [at |-> "idle", kbps |-> 0, age |-> 0]

\* Target and gate are seeded with the rate the stream was started with.
ApplyInit ==
    /\ abrKbps \in {0, Ceiling} /\ ccKbps = 0
    /\ gate = [last |-> abrKbps, age |-> 0] /\ status = Idle /\ attempt = Cap
    /\ tracked \in BOOLEAN /\ wire = <<>> /\ answers = <<>> /\ expired = 0
    /\ changes = 0 /\ held = 0

\* --------------------------------------------------- targets

\* Without a configured rate there is neither controller.
Changed == abrKbps # 0 /\ changes < MaxChanges /\ changes' = changes + 1

\* observe: down at once, up by one step, within the bounds.
Observe(estimate) ==
    LET usable == IF estimate >= Ceiling THEN Ceiling ELSE (estimate * 9) \div 10
        bounded == Larger(usable, Floor)
    IN /\ Changed
       /\ abrKbps' = IF bounded < abrKbps THEN bounded ELSE Smaller(abrKbps + Step, bounded)
       /\ UNCHANGED <<ccKbps, gate, status, attempt, tracked, wire, answers, expired, held>>

\* observe_loss with half of the packets lost.
ObserveLoss ==
    /\ Changed /\ abrKbps' = Larger((abrKbps * 3) \div 4, Floor)
    /\ UNCHANGED <<ccKbps, gate, status, attempt, tracked, wire, answers, expired, held>>

CcPublishes(kbps) ==
    /\ Changed /\ ccKbps' = kbps
    /\ UNCHANGED <<abrKbps, gate, status, attempt, tracked, wire, answers, expired, held>>

\* effective_target_kbps: zero is no signal, otherwise the smaller one.
EffectiveTarget ==
    IF abrKbps = 0 THEN ccKbps ELSE IF ccKbps = 0 THEN abrKbps ELSE Smaller(abrKbps, ccKbps)

\* --------------------------------------------------- the gate

Delta(kbps) == IF kbps > gate.last THEN kbps - gate.last ELSE gate.last - kbps

\* A decrease by a fifth does not wait for the interval.
Emergency(kbps) == kbps < gate.last /\ 5 * Delta(kbps) >= gate.last

\* Mutant: an emergency waits like any other change.
NextCandidatePatient(kbps, age) ==
    /\ kbps # 0
    /\ gate.last = 0 \/ (age >= MinApplyInterval /\ 10 * Delta(kbps) >= gate.last)

\* next_candidate: worth sending now.
NextCandidate(kbps, age) ==
    /\ kbps # 0
    /\ \/ gate.last = 0
       \/ (Emergency(kbps) \/ age >= MinApplyInterval) /\ 10 * Delta(kbps) >= gate.last

\* --------------------------------------------------- the machine

\* handle_ack: only a pending request is answered; the request an answer
\* belongs to is not on the wire.
Acked(s, a) ==
    IF s.at # "pending" \/ a.status = "unknown" THEN s
    ELSE [s EXCEPT !.at = IF a.status = "dispatched" THEN "applied" ELSE "refused", !.age = 0]

\* The answers drained at the start of a tick: the first known one decides.
KnownAnswers == {i \in 1 .. Len(answers) : answers[i].status # "unknown"}
FirstKnown == CHOOSE i \in KnownAnswers : \A j \in KnownAnswers : i <= j
Drained(s) == IF KnownAnswers = {} THEN s ELSE Acked(s, answers[FirstKnown])

Aged(s) == IF s.at = "pending" THEN [s EXCEPT !.age = Older(@)] ELSE s

\* record_sent_unacknowledged follows a queued request only.
Recorded(sent, kbps) == IF sent THEN [last |-> kbps, age |-> 0] ELSE [gate EXCEPT !.age = Older(@)]

\* apply: the library queues the request, fails, or knows the host cannot.
Apply(kbps, outcome) ==
    /\ gate' = Recorded(outcome = "sent", kbps) /\ attempt' = 0
    /\ status' = [kbps |-> kbps, age |-> 0,
                  at |-> IF outcome = "sent" THEN (IF tracked THEN "pending" ELSE "sent") ELSE outcome]
    /\ IF outcome = "sent" THEN wire' = Append(wire, kbps) ELSE UNCHANGED wire

Waits(s) ==
    \/ s.at \in {"unsupported", "pending"}
    \/ s.at = "failed" /\ Older(attempt) < MinApplyInterval

\* poll on a pending request: it times out.
Poll(s) == IF s.at = "pending" /\ s.age >= AckTimeout THEN [s EXCEPT !.at = "timeout", !.age = 0] ELSE s

\* One tick: drain the answers, compose the target, poll.  After Unsupported
\* the task has returned.
Tick ==
    LET s == Aged(Drained(status))
        polled == Poll(s)
        target == EffectiveTarget
        now == Older(gate.age)
        sends == polled = s /\ ~Waits(s) /\ NextCandidate(target, now)
    IN /\ status.at # "unsupported"
       /\ answers' = <<>>
       /\ held' = IF Emergency(target) /\ ~sends THEN Smaller(held + 1, Cap + Cap) ELSE 0
       /\ \/ sends /\ \E outcome \in {"sent", "failed", "unsupported"} : Apply(target, outcome)
          \/ /\ ~sends /\ status' = polled
             /\ gate' = [gate EXCEPT !.age = now] /\ attempt' = Older(attempt)
             /\ UNCHANGED wire
       /\ expired' = IF polled = s THEN expired ELSE expired + 1
       /\ UNCHANGED <<abrKbps, ccKbps, tracked, changes>>

\* --------------------------------------------------- the host (external)

\* The host takes the oldest request, accepts it or not, and answers; the
\* answer may be late, of an unknown kind, or not fit into the channel.
HostAnswers(verdict) ==
    /\ wire # <<>> /\ wire' = Tail(wire)
    /\ answers' = IF tracked /\ Len(answers) < AckQueue
                  THEN Append(answers, [kbps |-> Head(wire), status |-> verdict]) ELSE answers
    /\ UNCHANGED <<abrKbps, ccKbps, gate, status, attempt, tracked, expired, changes, held>>

\* The answer is lost.
HostSilent ==
    /\ wire # <<>> /\ tracked /\ wire' = Tail(wire)
    /\ UNCHANGED <<abrKbps, ccKbps, gate, status, attempt, tracked, answers, expired, changes, held>>

ApplyNext ==
    \/ \E estimate \in {0, Ceiling - 1, Ceiling} : Observe(estimate)
    \/ ObserveLoss \/ \E kbps \in {0, Floor, Ceiling} : CcPublishes(kbps)
    \/ Tick \/ HostSilent
    \/ \E verdict \in {"dispatched", "refused", "unknown"} : HostAnswers(verdict)

ApplySpec == ApplyInit /\ [][ApplyNext]_applyVars

\* ------------------------------------------------------------ properties

ApplyTypeOK ==
    /\ abrKbps = 0 \/ abrKbps \in Floor .. Ceiling
    /\ ccKbps = 0 \/ ccKbps \in Floor .. Ceiling
    /\ gate.last = 0 \/ gate.last \in Floor .. Ceiling
    /\ gate.age \in 0 .. Cap /\ Len(answers) <= AckQueue

\* An emergency decrease is held back by nothing but the request before it: it
\* goes out in the tick that sees it, or waits for an answer no longer than
\* the answer timeout, or after a failed send for less than the interval.
EmergencyBounded ==
    held <= CASE status.at \in {"pending", "timeout"} -> AckTimeout
              [] status.at = "failed" -> MinApplyInterval - 1
              [] OTHER -> 0

\* One request in flight: what is under way to the host and back is what was
\* given up unanswered and, while the task waits, the request it waits for.
\* Only a late answer to a request given up can thus be taken for another's.
OneInFlight ==
    tracked => Len(wire) + Len(answers) <= expired + IF status.at = "pending" THEN 1 ELSE 0

\* The host has been asked for a rate within a tenth of the target, or it
\* cannot change its rate, or the send failed, or nobody set a target.
NearTarget ==
    \/ EffectiveTarget = 0 \/ status.at \in {"unsupported", "failed"}
    \/ 10 * Delta(EffectiveTarget) < gate.last

\* An emergency goes out in time and an answer has a request to go with
\* (ApplyGate::next_candidate, BitrateApplyMachine::poll).
RateGoverned == ApplyTypeOK /\ EmergencyBounded /\ OneInFlight

=============================================================================
