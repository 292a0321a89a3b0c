----------------------------- MODULE FecWindow -----------------------------
(***************************************************************************)
(* The sliding-window FEC of one epoch: the host's encoder window, the     *)
(* lossy and reordering symbol channel, the client's rolling decoder and   *)
(* the acknowledgements that travel back.  A payload is the identity of    *)
(* its source symbol.  Numbers are kept in full and compared modulo        *)
(* SerialMod, as the code compares u32 serials; the GF(256) algebra is its    *)
(* rank: k independent equations give k unknowns.                          *)
(***************************************************************************)
EXTENDS Integers, Sequences, FiniteSets, FiniteSetsExt, SequencesExt

CONSTANTS
    SerialMod,       \* 2^w: source numbers wrap here
    WindowMax,    \* FecConfig.window_max_symbols of the encoder
    RxMax,        \* max_symbols of the decoder
    Denominator,  \* one repair per Denominator sources
    Bases,        \* where the modelled part of the stream starts
    MaxSent,      \* bound on source symbols from there
    MaxFlight,    \* bound on symbols in flight
    MaxDupes,     \* bound on repairs that arrive twice
    MaxLag        \* bound on how far the host runs ahead of the frontier

ASSUME FecAssumption ==
    /\ {SerialMod, WindowMax, RxMax, Denominator} \subseteq Nat \ {0}
    /\ WindowMax <= RxMax /\ 2 * RxMax < SerialMod /\ 2 * MaxLag < SerialMod

VARIABLES
    start,    \* the member of Bases this behaviour starts at
    window,   \* the encoder's window of source numbers
    nextSeq,  \* sources pushed so far
    nextRep,  \* repairs built so far
    ratio,    \* ratio_acc
    wire,     \* symbols in flight
    sources,  \* the decoder's BTreeMap: number mod SerialMod -> [st, id]
    repairs,  \* retained equations, oldest first
    hi,       \* highest_contiguous, -1 for None
    newest,   \* newest_seq, -1 for None
    horizon,  \* roll_horizon, <<>> for None
    acked,    \* last_acked_highest
    ackWire,  \* acknowledgements in flight
    dupes,    \* repairs delivered twice so far
    given,    \* history: identities handed to the receiver
    lost,     \* history: numbers reported as LossSpan or Evicted
    wrong,    \* history: numbers recovered to a wrong payload
    shed,     \* history: numbers forgotten at a cap or in a LossSpan, not by a roll
    slid      \* history: numbers the encoder dropped for an acknowledgement

encVars == <<start, window, nextSeq, nextRep, ratio, slid>>
decVars == <<sources, repairs, hi, newest, horizon, given, lost, wrong, shed>>
windowVars == <<encVars, wire, decVars, acked, ackWire, dupes>>

Half == SerialMod \div 2

\* ------------------------------------------------------- serial numbers

\* serial_cmp (RFC 1982): the exact half range is unordered.
SerialLess(a, b) == (b - a) % SerialMod \in 1 .. Half - 1
SerialLeq(a, b) == (a - b) % SerialMod = 0 \/ SerialLess(a, b)
SerialGreater(a, b) == SerialLess(b, a)

\* -------------------------------------------------------------- encoder

\* build_repair: one repair over the whole window, from its base to just past its newest.
BuildRepair(w) == [kind |-> "repair", rep |-> nextRep, base |-> w[1], end |-> nextSeq + 1]

\* push_source: evict at the symbol cap, append, and build the repairs that
\* the ratio counter calls for, each over the whole window.
PushSource ==
    /\ nextSeq < start + MaxSent /\ Cardinality(wire) < MaxFlight
    /\ nextSeq - hi <= MaxLag
    /\ LET kept == IF Len(window) >= WindowMax THEN Tail(window) ELSE window
           w == Append(kept, nextSeq)
           due == (ratio + 1) \div Denominator
       IN  /\ window' = w
           /\ ratio' = (ratio + 1) % Denominator
           /\ nextRep' = nextRep + due
           /\ wire' = wire \union {[kind |-> "source", seq |-> nextSeq]}
                           \union (IF due > 0 THEN {BuildRepair(w)} ELSE {})
    /\ nextSeq' = nextSeq + 1
    /\ UNCHANGED <<start, decVars, acked, ackWire, dupes, slid>>

\* Mutant: the source after the acknowledged one is dropped too.
AckedOneMore(ack) == SelectSeq(window, LAMBDA s : ~SerialLeq(s, ack + 1))

\* acknowledge: ignore what is after the newest source or unordered to it,
\* then drop the front while it is not after the acknowledged number.
Acked(ack) ==
    IF window = <<>> \/ ~SerialLeq(ack, window[Len(window)]) THEN window
    ELSE SelectSeq(window, LAMBDA s : ~SerialLeq(s, ack))

Acknowledge(ack) ==
    /\ ack \in ackWire
    /\ window' = Acked(ack)
    /\ slid' = slid \union (ToSet(window) \ ToSet(Acked(ack)))
    /\ ackWire' = ackWire \ {ack}
    /\ UNCHANGED <<start, nextSeq, nextRep, ratio, wire, decVars, acked, dupes>>

\* -------------------------------------------------------------- decoder

Known(src, s) == s % SerialMod \in DOMAIN src /\ src[s % SerialMod] # "missing"
Missing(src) == {k \in DOMAIN src : src[k] = "missing"}
Span(r) == {k % SerialMod : k \in r.base .. r.end - 1}
Drop(src, ks) == [k \in DOMAIN src \ ks |-> src[k]]
Mark(src, ks, st) == [k \in DOMAIN src \union ks |-> IF k \in ks THEN st ELSE src[k]]

\* The full number, at most top, that a key of the map stands for.
Number(k, top) == top - ((top - k) % SerialMod)

\* note_newest.
Newer(s) == IF newest = -1 \/ (s - newest) % SerialMod < Half THEN s ELSE newest

\* repair_horizon_relation = Forward: a newer end and no older base, or the
\* committed window again.
Forward(r) ==
    horizon # <<>> =>
        \/ SerialGreater(r.end, horizon[2]) /\ SerialLeq(horizon[1], r.base)
        \/ (r.end - horizon[2]) % SerialMod = 0 /\ (r.base - horizon[1]) % SerialMod = 0

\* The entry make_room evicts: the oldest behind the contiguous frontier,
\* else the oldest seen from the newest number.
Oldest(src) ==
    LET front == IF hi = -1 THEN newest ELSE hi
        behind == {k \in DOMAIN src : (front - k) % SerialMod < Half}
        from == IF behind # {} THEN front ELSE newest
        pool == IF behind # {} THEN behind ELSE DOMAIN src
    IN  CHOOSE k \in pool : \A j \in pool : (from - j) % SerialMod <= (from - k) % SerialMod

\* make_room for one source: what it evicts.
Room(key) ==
    IF key \notin DOMAIN sources /\ Cardinality(DOMAIN sources) >= RxMax
    THEN {Oldest(sources)} ELSE {}

\* one_elim_pass and gaussian_elim: a set of equations with as many unknowns,
\* independent of each other, gives them all.
Unknowns(src, rs) == UNION {Span(r) \intersect Missing(src) : r \in rs}
Solving(src, reps) ==
    {rs \in SUBSET ToSet(reps) :
        LET u == Unknowns(src, rs)
        IN  /\ u # {} /\ Cardinality(u) = Cardinality(rs)
            /\ \A t \in SUBSET u :
                 Cardinality({r \in rs : Span(r) \intersect t # {}}) >= Cardinality(t)}

\* An equation that covers a number the map no longer holds counts it as
\* zero, and one that uses a wrong payload passes the error on.
Tainted(src, r) == \E k \in Span(r) : k \notin DOMAIN src \/ src[k] = "garbled"

\* try_recover: the unknowns that some, and that only tainted, equations give.
Recovered(src, reps) == UNION {Unknowns(src, rs) : rs \in Solving(src, reps)}
Garbled(src, reps) ==
    UNION {Unknowns(src, rs) : rs \in {s \in Solving(src, reps) : \E r \in s : Tainted(src, r)}}

\* The first number from next on that is not registered as missing.
GapEnd(src, next) ==
    CHOOSE e \in next .. next + SerialMod :
        /\ e % SerialMod \notin Missing(src)
        /\ \A x \in next .. e - 1 : x % SerialMod \in Missing(src)

\* advance_contiguous: step over known numbers; a gap that a known number
\* bounds is given up and forgotten, an open-ended one waits.
Advance(src) ==
    LET f[n \in 0 .. SerialMod] ==
            IF n = 0 THEN [src |-> src, hi |-> hi, lost |-> {}]
            ELSE LET a == f[n - 1]
                     end == GapEnd(a.src, a.hi + 1)
                     gap == a.hi + 1 .. end - 1
                 IN  IF ~Known(a.src, end) THEN a
                     ELSE [src |-> Drop(a.src, {x % SerialMod : x \in gap}),
                           hi |-> end, lost |-> a.lost \union gap]
    IN  f[SerialMod]

\* What both kinds of symbol end with: recover, then advance the frontier.
Settle(src, reps, top, gone, cut, got) ==
    LET new == Recovered(src, reps)
        bad == Garbled(src, reps)
        a == Advance(Mark(Mark(src, new, "known"), bad, "garbled"))
    IN  /\ sources' = a.src /\ hi' = a.hi
        /\ repairs' = reps /\ newest' = top
        /\ given' = given \union got \union {Number(k, top) : k \in new}
        /\ lost' = lost \union gone \union a.lost
        /\ shed' = shed \union cut \union a.lost
        /\ wrong' = wrong \union {Number(k, top) : k \in bad}

\* FecDecoder::push_source.
ReceiveSource(s) ==
    LET out == Room(s % SerialMod)
        gone == {Number(k, newest) : k \in out \intersect Missing(sources)}
        cut == {Number(k, newest) : k \in out}
    IN  /\ Settle(Mark(Drop(sources, out), {s % SerialMod}, "known"), repairs, Newer(s), gone, cut, {s})
        /\ UNCHANGED horizon

\* Mutant: the roll keeps the equations that reach out of the new window.
RolledKeeps(r) == repairs

\* roll_for_repair: the equations that lie within the new window.
Rolled(r) == SelectSeq(repairs, LAMBDA q : Span(q) \subseteq Span(r))

\* FecDecoder::push_repair and admit_repair: retire the equations that reach
\* out of the new window, then the sources; register what is missing.
ReceiveRepair(r) ==
    LET span == Span(r)
        room == IF Len(Rolled(r)) >= RxMax THEN Tail(Rolled(r)) ELSE Rolled(r)
        out == DOMAIN sources \ span
        held == Drop(sources, out)
        gone == {Number(k, newest) : k \in out \intersect Missing(sources)}
    IN  /\ Settle(Mark(held, span \ DOMAIN held, "missing"), Append(room, r), Newer(r.end - 1), gone, {}, {})
        /\ horizon' = <<r.base, r.end>>

\* The early returns: a known source; a repair that is too wide, stale,
\* overlapping or already held.
Accepts(m) ==
    IF m.kind = "source" THEN ~Known(sources, m.seq)
    ELSE m.end - m.base <= RxMax /\ Forward(m) /\ m \notin ToSet(repairs)

\* FecDecoder::push_symbol.
PushSymbol(m) ==
    \/ Accepts(m) /\ m.kind = "source" /\ ReceiveSource(m.seq)
    \/ Accepts(m) /\ m.kind = "repair" /\ ReceiveRepair(m)
    \/ ~Accepts(m) /\ UNCHANGED decVars

\* ------------------------------------------------------------- channels

\* A symbol arrives, in any order; a repair may arrive a second time.
Deliver ==
    /\ \E m \in wire :
        /\ \/ wire' = wire \ {m} /\ UNCHANGED dupes
           \/ m.kind = "repair" /\ dupes < MaxDupes /\ dupes' = dupes + 1 /\ UNCHANGED wire
        /\ PushSymbol(m)
    /\ UNCHANGED <<encVars, acked, ackWire>>

Lose ==
    /\ \E m \in wire : wire' = wire \ {m}
    /\ UNCHANGED <<encVars, decVars, acked, ackWire, dupes>>

\* tick_ack: the receiver acknowledges its frontier when it has moved;
\* acknowledgements overtake each other.
SendAck ==
    /\ hi > acked /\ Cardinality(ackWire) < 2
    /\ acked' = hi /\ ackWire' = ackWire \union {hi}
    /\ UNCHANGED <<encVars, wire, decVars, dupes>>

\* A new epoch, or one that has run without loss up to `start`: every source
\* acknowledged, the last repair window still held by the decoder.
FecInit ==
    /\ start \in Bases
    /\ nextSeq = start /\ hi = start - 1 /\ newest = start - 1 /\ acked = start - 1 /\ given = 0 .. start - 1
    /\ window = <<>> /\ ratio = 0 /\ wire = {} /\ ackWire = {} /\ dupes = 0
    /\ lost = {} /\ wrong = {} /\ shed = {} /\ slid = {}
    /\ LET last == [kind |-> "repair", rep |-> 0, base |-> start - WindowMax, end |-> start]
       IN  IF start = 0
           THEN nextRep = 0 /\ sources = <<>> /\ repairs = <<>> /\ horizon = <<>>
           ELSE /\ nextRep = 1 /\ repairs = <<last>> /\ horizon = <<last.base, last.end>>
                /\ sources = [k \in Span(last) |-> "known"]

FecNext == PushSource \/ Deliver \/ Lose \/ SendAck \/ (\E a \in ackWire : Acknowledge(a))

FecSpec == FecInit /\ [][FecNext]_windowVars

-----------------------------------------------------------------------------

FecTypeOK ==
    /\ start \in Bases /\ window \in Seq(Nat) /\ ratio \in 0 .. Denominator - 1
    /\ nextSeq - start \in 0 .. MaxSent /\ {hi, newest, acked} \subseteq -1 .. nextSeq - 1 /\ horizon \in {<<>>} \union (Nat \X Nat)
    /\ \A k \in DOMAIN sources : k \in 0 .. SerialMod - 1 /\ sources[k] \in {"missing", "known", "garbled"}
    /\ given \union lost \union wrong \union shed \union slid \subseteq 0 .. nextSeq - 1

\* Every number at or behind the frontier was handed to the receiver or
\* reported lost, whatever was evicted, rolled out or given up on the way
\* (advance_contiguous, make_room, roll_for_repair).
FrontierAccounted == 0 .. hi \subseteq given \union lost

\* The host never drops from its window, for an acknowledgement, a source the
\* client neither holds nor has given up, even when acknowledgements arrive
\* out of order (FecEncoder::acknowledge, capi.rs's ACK slot).
AckSafe == slid \subseteq given \union lost

\* The decoder's memory is bounded: sources and equations stay within
\* max_symbols under any order of symbols (make_room, admit_repair).
DecoderBounded == Cardinality(DOMAIN sources) <= RxMax /\ Len(repairs) <= RxMax
=============================================================================
