--------------------------- MODULE DesktopControl ---------------------------
(***************************************************************************)
(* The desktop-control contract: versioned envelopes, the generation that   *)
(* stamps a claim of ownership, and the three receivers built on it: the    *)
(* cursor authority (in its Rust and its TypeScript form), the output       *)
(* selection, and the receiving side of a file transfer.                    *)
(*                                                                          *)
(* A generation lives in a ring of GenMod values (2^32 in the code).  The   *)
(* receivers share no state, so a behaviour follows one lane.               *)
(***************************************************************************)
EXTENDS Integers, Sequences, FiniteSets, SequencesExt

CONSTANTS
    GenMod,       \* size of the generation ring, an even number
    MaxClaims,    \* bound on the claims a host makes
    CursorShapes, \* shape ids, positive; 0 is no shape
    DeskOutputs,  \* output ids, positive; 0 is the primary output
    MaxModes,     \* bound on the mode requests and unplugs
    Chunks,       \* pieces of the offered file
    Quota         \* pieces the receiver accepts at most

ASSUME DesktopAssumption ==
    /\ {MaxClaims, MaxModes, Chunks, Quota} \subseteq Nat
    /\ GenMod \in Nat /\ GenMod >= 2 /\ GenMod % 2 = 0
    /\ CursorShapes \subseteq Nat \ {0} /\ DeskOutputs \subseteq Nat \ {0}

VARIABLES
    lane,      \* the receiver this behaviour follows
    claims,    \* the host's claims so far: the owner each named
    envelopes, \* cursor envelopes in flight, which may be delayed, repeated or overtaken
    pointer,   \* the two receivers of cursor authority, by implementation
    heard,     \* history: newest claim delivered since the last reconnect; 0 is none
    display,   \* the host's outputs: [plugged, mode]
    selection, \* OutputSelection by implementation: [applied, pending]
    asked, answered, \* mode requests, and results and unplug notices, in order
    moves,     \* requests and unplugs so far
    transfer,  \* FileTransfer: [phase, total, received]
    offered,   \* the sender's file: [size, name, progress]
    disk, consent    \* pieces written by the receiver; history: the user said yes

cursorLane == <<claims, envelopes, pointer, heard>>
displayLane == <<display, selection, asked, answered, moves>>
fileLane == <<transfer, offered, disk, consent>>
desktopVars == <<lane, cursorLane, displayLane, fileLane>>

NoGen == -1
NoMode == [out |-> -1, size |-> "none"]
Nobody == "nobody"

\* ------------------------------------------------------------ the envelope

CONTROL_VERSION == 1

\* encode_envelope; another version is what a newer peer would send.
Envelope(version, gen, code) == [version |-> version, gen |-> gen, code |-> code]

\* decode_envelope and its mirror: another version is ignored.
decode_envelope(e) == IF e.version = CONTROL_VERSION THEN {e} ELSE {}
decodeEnvelope(e) == {d \in {e} : d.version = CONTROL_VERSION}

\* CursorOwner::from_u8 and decode_authority: a code of a newer peer names nobody.
decode_authority(code) == IF code = 0 THEN "host" ELSE IF code = 1 THEN "client" ELSE Nobody

\* decodeCursorAuthority of the mirror, by its table of names.
CURSOR_OWNER_NAMES == <<"host", "client">>
decodeCursorAuthority(code) == IF code + 1 \in DOMAIN CURSOR_OWNER_NAMES THEN CURSOR_OWNER_NAMES[code + 1] ELSE Nobody

\* ------------------------------------------------------- generations and leases

\* ControlGeneration::supersedes.
SupersedesNumerically(a, b) == a > b
Supersedes(a, b) == a # b /\ (a - b) % GenMod < GenMod \div 2

\* OwnershipLease::admit.
Admits(lease, gen) == lease = NoGen \/ gen = lease \/ Supersedes(gen, lease)

\* generationSupersedes and admit of the mirror, whose comparison is written the other way.
generationSupersedes(a, b) == ~(a = b \/ (a - b) % GenMod >= GenMod \div 2)
MirrorAdmits(lease, gen) == \/ lease = NoGen
                            \/ gen = lease \/ generationSupersedes(gen, lease)

\* ---------------------------------------------------------- cursor authority

NewPointer == [lease |-> NoGen, owner |-> "host", latest |-> 0, applied |-> 0, drawn |-> 0]
Renders(p) == p.owner = "client"

\* ClientCursorAuthority::apply_authority on an authority envelope.
ApplyAuthority(p, e) ==
    IF decode_envelope(e) = {} \/ decode_authority(e.code) = Nobody \/ ~Admits(p.lease, e.gen) THEN p
    ELSE [p EXCEPT !.lease = e.gen, !.owner = decode_authority(e.code)]

\* applyAuthority of the mirror.
applyAuthority(p, e) ==
    IF /\ decodeEnvelope(e) # {} /\ decodeCursorAuthority(e.code) # Nobody
       /\ MirrorAdmits(p.lease, e.gen)
    THEN [p EXCEPT !.lease = e.gen, !.owner = decodeCursorAuthority(e.code)]
    ELSE p

\* take_shape_change and takeShapeChange: nothing while the host bakes the cursor, without a
\* shape, or for the shape taken last.
TakesShape(p) == Renders(p) /\ p.latest # 0 /\ p.applied # p.latest
TakeShape(p) == IF TakesShape(p) THEN [p EXCEPT !.applied = p.latest, !.drawn = p.latest] ELSE p

\* on_reconnect and onReconnect; the client's cursor goes with the connection.
OnReconnect(p) == [p EXCEPT !.lease = NoGen, !.owner = "host", !.applied = 0, !.drawn = 0]

\* ----------------------------------------------------------- cursor actions

CursorStep == lane = "cursor" /\ UNCHANGED <<lane, displayLane, fileLane>>

\* The host (external: src holds no sender) claims the next generation for an owner.  Envelopes half
\* the ring behind have left the network, and a receiver that lags so far has been reconnected.
HostClaims(owner) ==
    /\ CursorStep /\ Len(claims) < MaxClaims
    /\ heard = 0 \/ Len(claims) + 1 - heard < GenMod \div 2
    /\ claims' = Append(claims, owner)
    /\ envelopes' = {n \in envelopes : Len(claims) + 1 - n < GenMod \div 2} \union {Len(claims) + 1}
    /\ UNCHANGED <<pointer, heard>>

CodeOf(owner) == IF owner = "host" THEN 0 ELSE 1

Receivers(e) == [native |-> ApplyAuthority(pointer.native, e), browser |-> applyAuthority(pointer.browser, e)]

\* Some claim in flight is delivered to both kinds of client; it may be delivered again.
AuthorityArrives(n) ==
    /\ CursorStep /\ n \in envelopes
    /\ pointer' = Receivers(Envelope(CONTROL_VERSION, n % GenMod, CodeOf(claims[n])))
    /\ heard' = IF n > heard THEN n ELSE heard
    /\ UNCHANGED <<claims, envelopes>>

\* A newer peer's envelope: another version, or an owner this build does not know.
ForeignArrives(gen) ==
    /\ CursorStep
    /\ \E e \in {Envelope(2, gen, 1), Envelope(CONTROL_VERSION, gen, 2)} : pointer' = Receivers(e)
    /\ UNCHANGED <<claims, envelopes, heard>>

\* note_shape and noteShape.
NoteShape(id) ==
    /\ CursorStep /\ pointer' = [i \in DOMAIN pointer |-> [pointer[i] EXCEPT !.latest = id]]
    /\ UNCHANGED <<claims, envelopes, heard>>

DrawShape ==
    /\ CursorStep /\ pointer' = [i \in DOMAIN pointer |-> TakeShape(pointer[i])]
    /\ UNCHANGED <<claims, envelopes, heard>>

\* What was sent before the reconnect may still arrive after it.
CursorReconnects ==
    /\ CursorStep /\ pointer' = [i \in DOMAIN pointer |-> OnReconnect(pointer[i])]
    /\ heard' = 0 /\ UNCHANGED <<claims, envelopes>>

\* --------------------------------------------------------- output selection

DisplayStep == lane = "display" /\ UNCHANGED <<lane, cursorLane, fileLane>>
Moving == moves < MaxModes /\ moves' = moves + 1

Mode(out, size) == [out |-> out, size |-> size]
Modes == {Mode(o, s) : o \in DeskOutputs, s \in {"full"}} \union {Mode(0, "keep")}

\* OutputSelection::request; the envelope goes to the host.
RequestMode(req) ==
    /\ DisplayStep /\ Moving
    /\ selection' = [i \in DOMAIN selection |-> [selection[i] EXCEPT !.pending = req]] /\ asked' = Append(asked, req)
    /\ UNCHANGED <<display, answered>>

\* The host's half, for which src holds no caller: it drives the output as asked, at a lower
\* mode, or not at all when the output is gone.
HostAnswers(status) ==
    /\ DisplayStep /\ asked # <<>>
    /\ LET req == Head(asked)
           there == req.out \in display.plugged \union {0}
           mode == Mode(req.out, IF status = "applied" THEN req.size ELSE "lower")
       IN  /\ status = "rejected" \/ there
           /\ display' = IF status = "rejected" THEN display ELSE [display EXCEPT !.mode = mode]
           /\ answered' = Append(answered, [kind |-> "result", mode |-> mode, status |-> status])
    /\ asked' = Tail(asked) /\ UNCHANGED <<selection, moves>>

\* A monitor is pulled out; the host loses its mode if it was driven.
Unplug(out) ==
    /\ DisplayStep /\ Moving /\ out \in display.plugged
    /\ display' = [plugged |-> display.plugged \ {out},
                   mode |-> IF display.mode.out = out THEN NoMode ELSE display.mode]
    /\ answered' = Append(answered, [kind |-> "removed", mode |-> Mode(out, "keep"), status |-> "applied"])
    /\ UNCHANGED <<selection, asked>>

\* OutputSelection::reconcile: any result clears the pending request; a rejection keeps the applied mode.
Reconciled(s, r) == [applied |-> IF r.status = "rejected" THEN s.applied ELSE r.mode, pending |-> NoMode]

\* OutputSelection::on_output_removed: losing the applied output falls back to the primary one.
Fallback == Mode(0, "keep")
LosesApplied(s, out) == s.applied.out = out
OutputRemoved(s, out) == IF LosesApplied(s, out) THEN [applied |-> NoMode, pending |-> Fallback] ELSE s

\* reconcile and onOutputRemoved of the mirror.
reconcile(s, r) == IF r.status \in {"applied", "downgraded"} THEN [applied |-> r.mode, pending |-> NoMode]
                   ELSE [s EXCEPT !.pending = NoMode]
onOutputRemoved(s, out) == IF s.applied # NoMode /\ s.applied.out = out
                           THEN [applied |-> NoMode, pending |-> Fallback] ELSE s

\* A result or an unplug notice arrives; the caller sends the fallback request that is returned.
ClientHears ==
    /\ DisplayStep /\ answered # <<>>
    /\ LET a == Head(answered)
       IN  /\ selection' = IF a.kind = "result"
                            THEN [native |-> Reconciled(selection.native, a), browser |-> reconcile(selection.browser, a)]
                            ELSE [native |-> OutputRemoved(selection.native, a.mode.out),
                                  browser |-> onOutputRemoved(selection.browser, a.mode.out)]
           /\ asked' = IF a.kind = "removed" /\ LosesApplied(selection.native, a.mode.out) THEN Append(asked, Fallback) ELSE asked
    /\ answered' = Tail(answered) /\ UNCHANGED <<display, moves>>

\* ------------------------------------------------------------ file transfer

FileStep == lane = "file" /\ UNCHANGED <<lane, cursorLane, displayLane>>

\* safe_dest_name over the ways a name can be unfit.
Blemishes == {"empty", "long", "separator", "control", "bidi", "dots", "reserved", "trailing"}
SafeDestName(blemishes) == blemishes \intersect Blemishes = {}

\* decode_offer and FileTransfer::offer: beyond the quota it is cancelled before any consent.
Offer(size, name) ==
    /\ FileStep /\ transfer.phase = "none" /\ SafeDestName(name)
    /\ offered' = [size |-> size, name |-> name, progress |-> 0]
    /\ transfer' = [phase |-> IF size > Quota THEN "cancelled" ELSE "offered", total |-> size, received |-> 0]
    /\ UNCHANGED <<disk, consent>>

InPhase(S) == transfer.phase \in S

\* accept, on the user's yes.
Accept ==
    /\ FileStep /\ InPhase({"offered"})
    /\ transfer' = [transfer EXCEPT !.phase = "accepted"] /\ consent' = TRUE
    /\ UNCHANGED <<offered, disk>>

\* receive: a run of pieces is refused unless accepted, and one beyond the total cancels.
Received(t, n) == IF t.received + n > t.total THEN [t EXCEPT !.phase = "cancelled"]
                  ELSE [t EXCEPT !.received = @ + n]

\* The pieces from..to arrive; a sender that restarts its run repeats or skips some.
Receive(from, to) ==
    /\ FileStep /\ from <= to /\ InPhase({"accepted"})
    /\ transfer' = Received(transfer, to - from + 1)
    /\ disk' = IF transfer'.phase = "accepted" THEN disk \o [i \in 1..(to - from + 1) |-> from + i - 1] ELSE disk
    /\ offered' = [offered EXCEPT !.progress = IF transfer'.received > @ THEN transfer'.received ELSE @]
    /\ UNCHANGED consent

WholeFile == [i \in 1..offered.size |-> i]

\* commit, given the comparison of the content hash the caller makes.
Committed(t, hashMatches) == IF t.received = t.total /\ hashMatches THEN "complete" ELSE "cancelled"
Commit ==
    /\ FileStep /\ InPhase({"accepted"})
    /\ transfer' = [transfer EXCEPT !.phase = Committed(transfer, disk = WholeFile)]
    /\ UNCHANGED <<offered, disk, consent>>

\* cancel, by the user or the peer.
Cancel ==
    /\ FileStep /\ InPhase({"offered", "accepted"})
    /\ transfer' = [transfer EXCEPT !.phase = "cancelled"] /\ UNCHANGED <<offered, disk, consent>>

\* ----------------------------------------------------------- specification

DesktopInit ==
    /\ lane \in {"cursor", "display", "file"}
    /\ claims = <<>> /\ envelopes = {} /\ heard = 0
    /\ pointer = [native |-> NewPointer, browser |-> NewPointer]
    /\ display = [plugged |-> DeskOutputs, mode |-> NoMode]
    /\ selection = [i \in {"native", "browser"} |-> [applied |-> NoMode, pending |-> NoMode]]
    /\ asked = <<>> /\ answered = <<>> /\ moves = 0
    /\ transfer = [phase |-> "none", total |-> 0, received |-> 0] /\ offered = [size |-> 0, name |-> {}, progress |-> 0]
    /\ disk = <<>> /\ consent = FALSE

DesktopNext ==
    \/ \E owner \in {"host", "client"} : HostClaims(owner)
    \/ \E n \in 1..MaxClaims : AuthorityArrives(n)
    \/ \E gen \in 0..(GenMod - 1) : ForeignArrives(gen)
    \/ \E id \in CursorShapes \union {0} : NoteShape(id)
    \/ DrawShape \/ CursorReconnects
    \/ \E req \in Modes : RequestMode(req)
    \/ \E status \in {"applied", "downgraded", "rejected"} : HostAnswers(status)
    \/ \E out \in DeskOutputs : Unplug(out)
    \/ ClientHears
    \/ \E size \in 0..Chunks, name \in {{}, {"reserved"}} : Offer(size, name)
    \/ Accept \/ Commit \/ Cancel
    \/ \E from, to \in 1..Chunks : Receive(from, to)

DesktopSpec == DesktopInit /\ [][DesktopNext]_desktopVars

\* ---------------------------------------------------------------- properties

\* However envelopes are delayed, repeated or overtaken, across the wrap of the generation, the
\* cursor belongs to whom the newest claim delivered since the last reconnect names, and to the
\* host until one is.  A reconnect forgets the lease, so a claim from before it counts like any
\* other until a newer one comes (OwnershipLease::admit, on_reconnect).
AuthorityIsNewest ==
    \A i \in DOMAIN pointer : pointer[i].owner = IF heard = 0 THEN "host" ELSE claims[heard]

\* The Rust receivers and their TypeScript mirrors, fed the same messages, never part
\* (desktop_control.rs and desktop_control.ts, kept in step by hand).
MirrorsAgree == pointer.native = pointer.browser /\ selection.native = selection.browser

\* A client told not to draw the shape again has drawn it on this connection: the mark of the
\* last shape does not survive the cursor it stands for (take_shape_change, on_reconnect).
TakenShapeDrawn == \A i \in DOMAIN pointer : pointer[i].applied # 0 => pointer[i].drawn = pointer[i].applied

\* With nothing in flight the client shows the mode the host drives and waits for nothing, through
\* rejections, downgrades, and unplugs that cross requests (reconcile, on_output_removed).
SelectionConverges ==
    asked = <<>> /\ answered = <<>> => selection.native = [applied |-> display.mode, pending |-> NoMode]

\* The client takes an unplugged output for the applied one only until the notice arrives.
GhostOutputNoticed ==
    selection.native.applied # NoMode /\ selection.native.applied.out \notin display.plugged \union {0} =>
        \E k \in DOMAIN answered : answered[k].kind = "removed" /\ answered[k].mode.out = selection.native.applied.out

\* A committed file was agreed to, fits the quota, and is the offered file piece by piece, though
\* runs of it were repeated, skipped or reordered (FileTransfer::receive, commit).
CommitIsWhole ==
    InPhase({"complete"}) => consent /\ Len(disk) <= Quota /\ disk = WholeFile

\* The receiver never holds more than was declared, so more than the quota (FileTransfer::receive).
TransferBounded == Len(disk) <= Quota /\ transfer.received <= transfer.total

\* Host, native client and browser agree on cursor authority and display mode
\* once nothing is in flight, and a file arrives whole or not at all
\* (desktop_control.rs, desktop_control.ts, file_transfer.rs).
DesktopAgrees ==
    /\ AuthorityIsNewest /\ MirrorsAgree /\ TakenShapeDrawn /\ SelectionConverges
    /\ GhostOutputNoticed /\ CommitIsWhole /\ TransferBounded

=============================================================================
