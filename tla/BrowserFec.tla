----------------------------- MODULE BrowserFec -----------------------------
(***************************************************************************)
(* The browser's port of the FEC decoder (fec.ts), in the place of the     *)
(* native one of FecWindow: the same host, channel and acknowledgements,   *)
(* another roll.  It retires nothing when a repair moves the window: every *)
(* entry stays until a cap asks for room, and a forced eviction of a       *)
(* missing entry moves the acknowledgement floor instead.                  *)
(***************************************************************************)
EXTENDS FecWindow

VARIABLE port    \* which of the two decoders the client runs

portVars == <<port, windowVars>>

\* noteNewest and repairHorizonRelation compute what the native ones do.
TsNewer(s) == Newer(s)
TsForward(r) == Forward(r)

\* The entry makeRoom evicts, never one of the pending admission: the oldest
\* behind the frontier, else the oldest seen from the newest number.
TsOldest(src, keep, floor, top) ==
    LET front == IF floor = -1 THEN top ELSE floor
        free == DOMAIN src \ keep
        behind == {k \in free : (front - k) % SerialMod < Half}
        from == IF behind # {} THEN front ELSE top
        pool == IF behind # {} THEN behind ELSE free
    IN  CHOOSE k \in pool : \A j \in pool : (from - j) % SerialMod <= (from - k) % SerialMod

\* advanceLossFloor: the floor moves through a missing entry given up.
LossFloor(floor, n) == IF floor = -1 \/ SerialGreater(n, floor) THEN n ELSE floor

\* makeRoom: evict one entry after the other until the admission fits.
TsRoom(keep, added, top) ==
    LET f[n \in 0 .. RxMax] ==
            IF n = 0 THEN [src |-> sources, floor |-> hi, gone |-> {}, cut |-> {}]
            ELSE LET a == f[n - 1]
                     k == TsOldest(a.src, keep, a.floor, top)
                     lossAt == IF a.src[k] = "missing" THEN {Number(k, top)} ELSE {}
                 IN  IF Cardinality(DOMAIN a.src) + added <= RxMax THEN a
                     ELSE [src |-> Drop(a.src, {k}),
                           floor |-> IF lossAt = {} THEN a.floor ELSE LossFloor(a.floor, Number(k, top)),
                           gone |-> a.gone \union lossAt,
                           cut |-> a.cut \union {Number(k, top)}]
    IN  f[RxMax]

\* advanceContiguous: as the native one, but the entries of a gap it gives
\* up stay in the map as missing.
TsAdvance(src, floor) ==
    LET f[n \in 0 .. SerialMod] ==
            IF n = 0 THEN [floor |-> floor, gone |-> {}]
            ELSE LET a == f[n - 1]
                     end == GapEnd(src, a.floor + 1)
                 IN  IF ~Known(src, end) THEN a
                     ELSE [floor |-> end, gone |-> a.gone \union (a.floor + 1 .. end - 1)]
    IN  f[SerialMod]

\* tryRecover, oneElimPass and gaussianElim: the rank of the equations.  A
\* number the map does not hold drops out of the row as if it were zero.
TsRecovered(src, reps) == Recovered(src, reps)
TsGarbled(src, reps) == Garbled(src, reps)

TsSettle(src, reps, top, floor, gone, cut, got) ==
    LET new == TsRecovered(src, reps)
        bad == TsGarbled(src, reps)
        held == Mark(Mark(src, new, "known"), bad, "garbled")
        a == TsAdvance(held, floor)
    IN  /\ sources' = held /\ hi' = a.floor
        /\ repairs' = reps /\ newest' = top
        /\ given' = given \union got \union {Number(k, top) : k \in new}
        /\ lost' = lost \union gone \union a.gone
        /\ shed' = shed \union cut
        /\ wrong' = wrong \union {Number(k, top) : k \in bad}

\* pushSource of the port.
TsReceiveSource(s) ==
    LET key == s % SerialMod
        top == TsNewer(s)
        r == TsRoom({key}, Cardinality({key} \ DOMAIN sources), top)
    IN  /\ TsSettle(Mark(r.src, {key}, "known"), repairs, top, r.floor, r.gone, r.cut, {s})
        /\ UNCHANGED horizon

\* pushRepair of the port.
TsReceiveRepair(m) ==
    LET span == Span(m)
        top == TsNewer(m.end - 1)
        r == TsRoom(span, Cardinality(span \ DOMAIN sources), top)
        reps == IF Len(repairs) >= RxMax THEN Tail(repairs) ELSE repairs
    IN  /\ TsSettle(Mark(r.src, span \ DOMAIN r.src, "missing"), Append(reps, m), top, r.floor, r.gone, r.cut, {})
        /\ horizon' = <<m.base, m.end>>

\* The early returns of both.
TsAccepts(m) ==
    IF m.kind = "source" THEN ~Known(sources, m.seq)
    ELSE m.end - m.base <= RxMax /\ TsForward(m) /\ m \notin ToSet(repairs)

TsPushSymbol(m) ==
    \/ TsAccepts(m) /\ m.kind = "source" /\ TsReceiveSource(m.seq)
    \/ TsAccepts(m) /\ m.kind = "repair" /\ TsReceiveRepair(m)
    \/ ~TsAccepts(m) /\ UNCHANGED decVars

TsDeliver ==
    /\ \E m \in wire :
        /\ \/ wire' = wire \ {m} /\ UNCHANGED dupes
           \/ m.kind = "repair" /\ dupes < MaxDupes /\ dupes' = dupes + 1 /\ UNCHANGED wire
        /\ TsPushSymbol(m)
    /\ UNCHANGED <<encVars, acked, ackWire>>

\* tickAck: the pipe acknowledges the floor when it has moved.
TsSendAck == SendAck

PortInit == FecInit /\ port \in {"native", "browser"}

PortNext ==
    /\ \/ PushSource
       \/ port = "native" /\ Deliver
       \/ port = "browser" /\ TsDeliver
       \/ Lose
       \/ port = "native" /\ SendAck
       \/ port = "browser" /\ TsSendAck
       \/ \E a \in ackWire : Acknowledge(a)
    /\ UNCHANGED port

PortSpec == PortInit /\ [][PortNext]_portVars

-----------------------------------------------------------------------------

\* A number reported lost never holds the browser's acknowledgement floor
\* back: a deleted frontier cannot leave the decoder waiting for a source
\* that will never reappear (advanceLossFloor).
LostNeverBlocks == port = "browser" => hi + 1 \notin lost

\* The browser's floor passes over a number it neither handed on nor reported
\* only after it has reported some loss, so the pipe is already waiting for a
\* key (makeRoom, advanceContiguous).
SkipIsAnnounced == 0 .. hi \subseteq given \union lost \/ lost # {}

\* A roll of the window never leaves an equation over a source that is gone:
\* every number a held equation covers is in the map, or was evicted at the
\* symbol cap or given up in a LossSpan, which leave the equations alone; and
\* no payload is recovered wrong before the first of those.  So the promise of
\* roll_for_repair holds for what it retires itself and for nothing else.
EquationsCovered ==
    /\ \A r \in ToSet(repairs) : \A n \in r.base .. r.end - 1 : n % SerialMod \in DOMAIN sources \/ n \in shed
    /\ wrong # {} => shed # {}

\* The native floor accounts for every number behind it.
NativeFrontierAccounted == port = "native" => FrontierAccounted

\* The numbers behind either decoder's floor are accounted for and its memory
\* is bounded, through evictions, rolls, duplicates and the serial wrap, and
\* a payload is recovered wrong only from an equation over a number that the
\* cap or a LossSpan has taken (make_room, roll_for_repair, advanceLossFloor).
NumbersAccounted ==
    /\ FecTypeOK /\ DecoderBounded /\ LostNeverBlocks /\ SkipIsAnnounced
    /\ NativeFrontierAccounted /\ EquationsCovered

=============================================================================
