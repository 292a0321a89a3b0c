--------------------------- MODULE StreamerProofs ---------------------------
(***************************************************************************)
(* A session of the streamer (StreamerSession) and the clipboards it keeps *)
(* in step (Clipboard), for every value of the constants.                  *)
(*                                                                         *)
(* The session.  That the reason of a termination reaches                  *)
(* the client before its socket closes follows the reason through its      *)
(* queue: whoever is about to stop the session for that reason has written *)
(* it (Said), and in the pipe to the server it stands before the Stop.     *)
(* That a timer is earned follows from the request being no older than the *)
(* time without an open transport (DeafInv), which a transport chosen since*)
(* would contradict, unless the request came late.                         *)
(***************************************************************************)
EXTENDS StreamerSession, Clipboard, FiniteSetTheorems, SequenceTheorems, WellFoundedInduction, TLAPS

Asks == {"set", "start", "packet", "quit", "stop"}
Tells == {"setup", "media", "terminated", "stop"}
Happenings == {"none", "start", "packet", "quit", "ipc", "terminated"}
ListenerPlaces == {"off", "run", "callstop", "instop", "ending", "done"}
IpcPlaces == {"recv", "take", "install", "dispatch", "send", "instop", "done"}
StartPlaces == {"none", "clear", "connect", "epoch", "store", "setup", "failed", "done"}

Bit(b) == IF b THEN 1 ELSE 0

PipesInv ==
    /\ ws \in {"open", "closed"} /\ child \in {"up", "crashed", "exited", "killed"}
    /\ relay \in [pc : {"run", "close", "done"}, code : BOOLEAN, graceful : BOOLEAN, warned : BOOLEAN]
    /\ down \in Seq(Asks) /\ Len(down) <= PipeCap + Bit(wsLoop = "done") + Bit(relay.warned)
    /\ up \in Seq(Tells) /\ Len(up) <= PipeCap

TransportsInv ==
    /\ sender \in 0 .. MaxTransports /\ lock \in {"free", "ipc", "stop", "start", "media"}
    /\ ipc \in [pc : IpcPlaces, msg : Happenings]
    /\ ev \in [Ids -> Seq(Happenings)] /\ \A i \in Ids : Len(ev[i]) <= EventCap
    /\ lis \in [Ids -> ListenerPlaces] /\ start \in StartPlaces
    /\ media \in {"idle", "ipc", "terminated", "dead"}

DoneIds == {i \in Ids : lis[i] = "done"}

TimersInv ==
    /\ request \in {None} \union 0 .. Due
    /\ timers \in Seq(0 .. Due)
    /\ Len(timers) <= Cardinality(DoneIds) + Bit(start = "done")

\* The one request for a stream is in one place.
OneStart ==
    /\ \A m, n \in 1 .. Len(down) : down[m] = "start" /\ down[n] = "start" => m = n
    /\ \A n \in 1 .. Len(down) : down[n] = "start" =>
          /\ start = "none" /\ ipc.msg # "start"
          /\ \A i \in Ids : \A k \in 1 .. Len(ev[i]) : ev[i][k] # "start"
    /\ ipc.msg = "start" =>
          start = "none" /\ \A i \in Ids : \A k \in 1 .. Len(ev[i]) : ev[i][k] # "start"
    /\ \A i, j \in Ids : \A m \in 1 .. Len(ev[i]), n \in 1 .. Len(ev[j]) :
          ev[i][m] = "start" /\ ev[j][n] = "start" => i = j /\ m = n
    /\ \A i \in Ids : \A m \in 1 .. Len(ev[i]) : ev[i][m] = "start" => start = "none"

Said == relay.code \/ \E n \in 1 .. Len(up) : up[n] = "terminated"
Over == stop = "done" \/ ~Up

ReasonInv ==
    /\ \A i \in Ids : lis[i] = "callstop" => Said
    /\ host = "callstop" => Said
    /\ cause = "terminated" => Said
    /\ \A n \in 1 .. Len(up) : up[n] = "stop" =>
          /\ Over
          /\ cause = "terminated" => relay.code \/ \E m \in 1 .. n - 1 : up[m] = "terminated"
    /\ relay.graceful => Over /\ (cause = "terminated" => relay.code)

StreamerInv == PipesInv /\ TransportsInv /\ TimersInv /\ OneStart /\ ReasonInv

LEMMA SessionSizes ==
    /\ EventCap \in Nat /\ PipeCap \in Nat /\ MaxTransports \in Nat /\ Timeout \in Nat /\ MaxPackets \in Nat
    /\ EventCap > 0 /\ PipeCap > 0 /\ MaxTransports > 0 /\ Timeout > 0 /\ MaxPackets <= EventCap
    /\ Due \in Nat /\ Due = Timeout + 1 /\ None = -1
  BY SessionAssumption DEF Due, None

LEMMA DoneFinite == IsFiniteSet(DoneIds) /\ Cardinality(DoneIds) \in Nat /\ Cardinality(DoneIds) <= MaxTransports
  <1>1. IsFiniteSet(Ids) /\ Cardinality(Ids) = MaxTransports
    BY SessionSizes, FS_Interval DEF Ids
  <1>2. DoneIds \subseteq Ids
    BY DEF DoneIds
  <1>3. IsFiniteSet(DoneIds) /\ Cardinality(DoneIds) <= Cardinality(Ids)
    BY <1>1, <1>2, FS_Subset
  <1> QED
    BY <1>1, <1>3, FS_CardinalityType

\* Listeners that are done stay so: the bound on the timers only grows.
LEMMA DoneGrows ==
    ASSUME \A i \in Ids : lis[i] = "done" => lis'[i] = "done"
    PROVE  /\ Cardinality(DoneIds) \in Nat /\ Cardinality(DoneIds)' \in Nat
           /\ Cardinality(DoneIds) <= Cardinality(DoneIds)'
  <1>1. IsFiniteSet(DoneIds) /\ Cardinality(DoneIds) \in Nat
    BY DoneFinite
  <1>2. IsFiniteSet(DoneIds') /\ Cardinality(DoneIds') \in Nat
    <2>1. IsFiniteSet(Ids)
      BY SessionSizes, FS_Interval DEF Ids
    <2>2. DoneIds' \subseteq Ids
      BY DEF DoneIds
    <2>3. IsFiniteSet(DoneIds')
      BY <2>1, <2>2, FS_Subset
    <2> QED
      BY <2>3, FS_CardinalityType
  <1>3. DoneIds \subseteq DoneIds'
    BY DEF DoneIds
  <1>4. Cardinality(DoneIds) <= Cardinality(DoneIds')
    BY <1>2, <1>3, FS_Subset
  <1> QED
    BY <1>1, <1>2, <1>4

\* A listener that ends makes room for its timer.
LEMMA DoneAdds ==
    ASSUME NEW i \in Ids, lis \in [Ids -> ListenerPlaces], lis[i] # "done", lis' = [lis EXCEPT ![i] = "done"]
    PROVE  Cardinality(DoneIds) \in Nat /\ Cardinality(DoneIds)' = Cardinality(DoneIds) + 1
  <1>1. IsFiniteSet(DoneIds) /\ Cardinality(DoneIds) \in Nat
    BY DoneFinite
  <1>2. DoneIds' = DoneIds \cup {i} /\ i \notin DoneIds
    BY DEF DoneIds
  <1>3. Cardinality(DoneIds \cup {i}) = Cardinality(DoneIds) + 1
    BY <1>1, <1>2, FS_AddElement
  <1> QED
    BY <1>1, <1>2, <1>3

LEMMA TimersKept ==
    ASSUME TimersInv, UNCHANGED <<request, timers>>, start = "done" => start' = "done",
           \A i \in Ids : lis[i] = "done" => lis'[i] = "done"
    PROVE  TimersInv'
  <1>1. /\ Cardinality(DoneIds) \in Nat /\ Cardinality(DoneIds)' \in Nat
        /\ Cardinality(DoneIds) <= Cardinality(DoneIds)'
    BY DoneGrows
  <1>2. Len(timers) \in Nat
    BY DEF TimersInv
  <1>3. Bit(start = "done") \in Nat /\ Bit(start' = "done") \in Nat /\ Bit(start = "done") <= Bit(start' = "done")
    BY DEF Bit
  <1> QED
    BY <1>1, <1>2, <1>3 DEF TimersInv, timing, Due

\* What is put behind a queue and what is taken from its front.
LEMMA Queued ==
    ASSUME NEW S, NEW s \in Seq(S), NEW x \in S
    PROVE  /\ Append(s, x) \in Seq(S) /\ Len(Append(s, x)) = Len(s) + 1 /\ Len(s) \in Nat
           /\ \A n \in 1 .. Len(s) : Append(s, x)[n] = s[n]
           /\ Append(s, x)[Len(s) + 1] = x
  OBVIOUS

LEMMA Taken ==
    ASSUME NEW S, NEW s \in Seq(S), s # <<>>
    PROVE  /\ Tail(s) \in Seq(S) /\ Len(Tail(s)) = Len(s) - 1 /\ Len(s) \in Nat \ {0}
           /\ Head(s) = s[1] /\ s[1] \in S
           /\ \A n \in 1 .. Len(Tail(s)) : n + 1 \in 1 .. Len(s) /\ Tail(s)[n] = s[n + 1]
  OBVIOUS

LEMMA BitFacts == \A b \in BOOLEAN : Bit(b) \in 0 .. 1 /\ (b => Bit(b) = 1) /\ (~b => Bit(b) = 0)
  BY DEF Bit

\* The pipe to the streamer is written, and the bound on it moves with it.
LEMMA DownWritten ==
    ASSUME PipesInv, NEW m \in Asks, Down(m), UNCHANGED <<up, ws, child>>,
           relay' \in [pc : {"run", "close", "done"}, code : BOOLEAN, graceful : BOOLEAN, warned : BOOLEAN],
           NEW b \in Nat, b = PipeCap + Bit(wsLoop' = "done") + Bit(relay'.warned), Len(down) < b
    PROVE  PipesInv'
  <1>1. down \in Seq(Asks)
    BY DEF PipesInv
  <1>2. Append(down, m) \in Seq(Asks) /\ Len(Append(down, m)) = Len(down) + 1 /\ Len(down) \in Nat
    BY <1>1, Queued
  <1>3. down' \in Seq(Asks) /\ Len(down') <= b
    BY <1>1, <1>2 DEF Down
  <1> QED
    BY <1>3 DEF PipesInv

\* The pipe to the server is written.
LEMMA UpWritten ==
    ASSUME PipesInv, NEW m \in Tells, Room(up), up' = Append(up, m),
           UNCHANGED <<ws, wsLoop, child, relay, down>>
    PROVE  PipesInv'
  <1>1. up \in Seq(Tells)
    BY DEF PipesInv
  <1>2. Append(up, m) \in Seq(Tells) /\ Len(Append(up, m)) = Len(up) + 1 /\ Len(up) \in Nat
    BY <1>1, Queued
  <1>3. up' \in Seq(Tells) /\ Len(up') <= PipeCap
    BY <1>2, SessionSizes DEF Room
  <1> QED
    BY <1>3 DEF PipesInv

LEMMA EventAdded ==
    ASSUME TransportsInv, NEW m \in Happenings, Event(m), Listening => EventRoom
    PROVE  ev' \in [Ids -> Seq(Happenings)] /\ \A i \in Ids : Len(ev'[i]) <= EventCap
  <1>1. CASE ~Listening
    BY <1>1 DEF Event, TransportsInv
  <1>2. CASE Listening
    <2>1. sender \in Ids /\ ev' = [ev EXCEPT ![sender] = Append(ev[sender], m)]
      BY <1>2, SessionSizes DEF Event, Listening, TransportsInv, Ids
    <2>2. ev[sender] \in Seq(Happenings) /\ Len(ev[sender]) < EventCap
      BY <1>2, <2>1 DEF EventRoom, TransportsInv
    <2>3. /\ Append(ev[sender], m) \in Seq(Happenings)
          /\ Len(Append(ev[sender], m)) = Len(ev[sender]) + 1 /\ Len(ev[sender]) \in Nat
      BY <2>2, Queued
    <2>4. Len(Append(ev[sender], m)) <= EventCap
      BY <2>2, <2>3, SessionSizes
    <2> QED
      BY <2>1, <2>3, <2>4 DEF TransportsInv
  <1> QED
    BY <1>1, <1>2

LEMMA EventTaken ==
    ASSUME TransportsInv, NEW i \in Ids, ev[i] # <<>>, ev' = [ev EXCEPT ![i] = Tail(@)]
    PROVE  ev' \in [Ids -> Seq(Happenings)] /\ \A j \in Ids : Len(ev'[j]) <= EventCap
  <1>1. ev[i] \in Seq(Happenings) /\ Len(ev[i]) <= EventCap
    BY DEF TransportsInv
  <1>2. Tail(ev[i]) \in Seq(Happenings) /\ Len(Tail(ev[i])) = Len(ev[i]) - 1 /\ Len(ev[i]) \in Nat \ {0}
    BY <1>1, Taken
  <1> QED
    BY <1>1, <1>2, SessionSizes DEF TransportsInv

\* The request for a stream moves on, or the queues it may be in are left alone.
LEMMA OneStartKept ==
    ASSUME OneStart, UNCHANGED <<down, ipc, ev>>, start = "none" => start' = "none"
    PROVE  OneStart'
  BY DEF OneStart

LEMMA ReasonKept ==
    ASSUME ReasonInv, UNCHANGED <<up, relay, stop, cause, child>>,
           \A i \in Ids : lis'[i] = "callstop" => lis[i] = "callstop",
           host' = "callstop" => host = "callstop"
    PROVE  ReasonInv'
  BY DEF ReasonInv, Said, Over, Up

\* stop() is called, for the reason of a termination only by one who has said it.
LEMMA ReasonStopped ==
    ASSUME ReasonInv, Up, UNCHANGED <<up, relay, child>>, NEW who, NEW why, CallStop(who, why),
           why = "terminated" => Said,
           \A i \in Ids : lis'[i] = "callstop" => lis[i] = "callstop",
           host' = "callstop" => host = "callstop"
    PROVE  ReasonInv'
  <1>1. Said' <=> Said
    BY DEF Said
  <1>2. CASE stop = "none"
    <2>1. ~Over /\ cause' = why
      BY <1>2 DEF Over, CallStop
    <2> QED
      BY <1>1, <2>1 DEF ReasonInv
  <1>3. CASE stop # "none"
    BY <1>3, ReasonKept DEF CallStop, stopping
  <1> QED
    BY <1>2, <1>3

\* Something other than Stop is written to the server; who goes on to stop the
\* session has written the reason.
LEMMA ReasonWritten ==
    ASSUME ReasonInv, up \in Seq(Tells), NEW m \in Tells \ {"stop"}, up' = Append(up, m),
           UNCHANGED <<relay, stop, cause, child>>,
           \A i \in Ids : lis'[i] = "callstop" => lis[i] = "callstop" \/ m = "terminated",
           host' = "callstop" => host = "callstop" \/ m = "terminated"
    PROVE  ReasonInv'
  <1>1. /\ Len(up') = Len(up) + 1 /\ Len(up) \in Nat /\ up'[Len(up) + 1] = m
        /\ \A n \in 1 .. Len(up) : up'[n] = up[n]
    BY Queued
  <1>2. Said => Said'
    BY <1>1 DEF Said
  <1>3. m = "terminated" => Said'
    BY <1>1 DEF Said
  <1>4. Over' <=> Over
    BY DEF Over, Up
  <1>5. ASSUME NEW n \in 1 .. Len(up'), up'[n] = "stop"
        PROVE  Over' /\ (cause' = "terminated" => relay'.code \/ \E k \in 1 .. n - 1 : up'[k] = "terminated")
    <2>1. n \in 1 .. Len(up) /\ up[n] = "stop"
      BY <1>1, <1>5
    <2>2. Over /\ (cause = "terminated" => relay.code \/ \E k \in 1 .. n - 1 : up[k] = "terminated")
      BY <2>1 DEF ReasonInv
    <2>3. \A k \in 1 .. n - 1 : k \in 1 .. Len(up)
      BY <1>1, <2>1
    <2> QED
      BY <1>1, <1>4, <2>2, <2>3
  <1>6. /\ \A i \in Ids : lis'[i] = "callstop" => Said'
        /\ host' = "callstop" => Said'
        /\ cause' = "terminated" => Said'
    BY <1>2, <1>3 DEF ReasonInv
  <1>7. relay'.graceful => Over' /\ (cause' = "terminated" => relay'.code)
    BY <1>4 DEF ReasonInv
  <1> QED
    BY <1>5, <1>6, <1>7 DEF ReasonInv

\* Steps that leave the pipes, the request for a stream and the reason alone.
LEMMA QuietStep ==
    ASSUME StreamerInv, NEW i \in Ids, NEW m \in {"ipc", "terminated"},
           \/ ClientCloses \/ RelayEnds \/ StopCloses
           \/ IpcEnds \/ IpcClosesOld \/ IpcInstallFails \/ IpcBlocks
           \/ PeerCloses(i) \/ ListenerResumes(i)
           \/ StartConnects \/ StartReadsEpoch \/ StartStores
           \/ MediaBlocks(m) \/ MediaGivesUp
    PROVE  StreamerInv'
  <1> USE DEF ClientCloses, RelayEnds, StopCloses, IpcEnds, IpcClosesOld, IpcInstallFails, IpcBlocks,
          PeerCloses, ListenerResumes, StartConnects, StartReadsEpoch, StartStores, MediaBlocks,
          MediaGivesUp, server, pipes, transports, starting, stopping, timing, StreamerInv
  <1>1. PipesInv'
    BY DEF PipesInv
  <1>2. TransportsInv'
    <2>1. /\ UNCHANGED ev
          /\ sender' \in {0, sender} /\ lock' \in {lock, "stop", "ipc", "media", "free"}
          /\ media' \in {media, m, "idle"} /\ start' \in {start, "epoch", "failed", "store", "setup"}
      OBVIOUS
    <2>2. ipc' \in [pc : IpcPlaces, msg : Happenings]
      BY DEF TransportsInv, IpcPlaces
    <2>3. lis' \in [Ids -> ListenerPlaces]
      BY DEF TransportsInv, ListenerPlaces
    <2> QED
      BY <2>1, <2>2, <2>3, SessionSizes DEF TransportsInv, StartPlaces
  <1>3. TimersInv'
    BY TimersKept DEF timing, TransportsInv
  <1>4. OneStart'
    BY DEF OneStart, TransportsInv
  <1>5. ReasonInv'
    <2>1. CASE RelayEnds
      BY <2>1 DEF ReasonInv, Said, Over, Up, PipesInv
    <2>2. CASE StopCloses
      BY <2>2 DEF ReasonInv, Said, Over, Up
    <2>3. CASE ~RelayEnds /\ ~StopCloses
      <3>1. UNCHANGED <<up, relay, stop, cause, child, host>>
        BY <2>3
      <3>2. \A j \in Ids : lis'[j] = "callstop" => lis[j] = "callstop"
        BY <2>3 DEF TransportsInv
      <3> QED
        BY <3>1, <3>2, ReasonKept
    <2> QED
      BY <2>1, <2>2, <2>3
  <1> QED
    BY <1>1, <1>2, <1>3, <1>4, <1>5

\* Steps that call stop().
LEMMA StoppingStep ==
    ASSUME StreamerInv, NEW i \in Ids, ListenerCallsStop(i) \/ StartFails \/ HostCallsStop
    PROVE  StreamerInv'
  <1> USE DEF ListenerCallsStop, StartFails, HostCallsStop, server, pipes, transports, starting,
          stopping, timing, StreamerInv
  <1>1. PipesInv'
    BY DEF PipesInv
  <1>2. TransportsInv'
    BY DEF TransportsInv, ListenerPlaces, StartPlaces
  <1>3. TimersInv'
    BY TimersKept DEF timing, TransportsInv
  <1>4. OneStart'
    BY OneStartKept
  <1>5. ReasonInv'
    <2>1. CASE ListenerCallsStop(i)
      <3>1. Up /\ Said /\ CallStop("listener", "terminated") /\ UNCHANGED <<up, relay, child, host>>
        BY <2>1 DEF ReasonInv
      <3>2. \A j \in Ids : lis'[j] = "callstop" => lis[j] = "callstop"
        BY <2>1 DEF TransportsInv
      <3> QED
        BY <3>1, <3>2, ReasonStopped
    <2>2. CASE StartFails
      <3>1. Up /\ CallStop("start", "failed") /\ UNCHANGED <<up, relay, child, host, lis>>
        BY <2>2
      <3> QED
        BY <3>1, ReasonStopped
    <2>3. CASE HostCallsStop
      <3>1. Up /\ Said /\ CallStop("host", "terminated") /\ UNCHANGED <<up, relay, child, lis>>
        BY <2>3 DEF ReasonInv
      <3>2. host' # "callstop"
        BY <2>3
      <3> QED
        BY <3>1, <3>2, ReasonStopped
    <2> QED
      BY <2>1, <2>2, <2>3
  <1> QED
    BY <1>1, <1>2, <1>3, <1>4, <1>5

\* The process ends, and with it everything but what it wrote.
LEMMA DeathStep ==
    ASSUME StreamerInv, RelayCloses \/ Crash \/ MainExits
    PROVE  StreamerInv'
  <1>1. CASE ~Up /\ RelayCloses
    <2>1. /\ UNCHANGED <<wsLoop, up, down, child, ipc, transports, starting, stopping, timing>>
          /\ ws' = "closed" /\ relay' = [relay EXCEPT !.pc = "done"]
      BY <1>1 DEF RelayCloses
    <2>2. PipesInv'
      BY <2>1 DEF StreamerInv, PipesInv
    <2>3. TransportsInv' /\ OneStart'
      BY <2>1 DEF StreamerInv, TransportsInv, OneStart, transports, starting
    <2>4. TimersInv'
      BY <2>1, TimersKept DEF timing, StreamerInv, transports, starting
    <2>5. ReasonInv'
      BY <2>1 DEF StreamerInv, ReasonInv, Said, Over, Up, transports, starting, stopping, PipesInv
    <2> QED
      BY <2>2, <2>3, <2>4, <2>5 DEF StreamerInv
  <1>2. CASE \E how \in {"killed", "crashed", "exited"} : Dies(how)
    <2>1. PICK how \in {"killed", "crashed", "exited"} : Dies(how)
      BY <1>2
    <2>2. /\ UNCHANGED <<wsLoop, up>> /\ ws' \in {ws, "closed"}
          /\ relay' = relay \/ relay' = [relay EXCEPT !.pc = "done"]
      BY DEF RelayCloses, Crash, MainExits, server
    <2>3. relay' \in [pc : {"run", "close", "done"}, code : BOOLEAN, graceful : BOOLEAN, warned : BOOLEAN]
          /\ relay'.code = relay.code /\ relay'.graceful = relay.graceful /\ relay'.warned = relay.warned
      BY <2>2 DEF StreamerInv, PipesInv
    <2>4. PipesInv'
      <3>1. down' = <<>> /\ down' \in Seq(Asks) /\ Len(down') = 0
        BY <2>1 DEF Dies
      <3>2. PipeCap + Bit(wsLoop' = "done") + Bit(relay'.warned) >= 0
        BY SessionSizes DEF Bit
      <3> QED
        BY <2>1, <2>2, <2>3, <3>1, <3>2 DEF StreamerInv, PipesInv, Dies
    <2>5. TransportsInv' /\ OneStart'
      BY <2>1, SessionSizes DEF Dies, TransportsInv, OneStart, Each, IdleIpc, Happenings, ListenerPlaces,
         IpcPlaces, StartPlaces
    <2>6. TimersInv'
      <3>1. Cardinality(DoneIds)' \in Nat
        <4>1. DoneIds' = {}
          BY <2>1 DEF Dies, DoneIds, Each
        <4> QED
          BY <4>1, FS_EmptySet
      <3>2. timers' = <<>> /\ timers' \in Seq(0 .. Due) /\ Len(timers') = 0
        BY <2>1 DEF Dies
      <3>3. Bit((start = "done")') \in Nat
        BY DEF Bit
      <3> QED
        BY <2>1, <3>1, <3>2, <3>3, SessionSizes DEF Dies, TimersInv
    <2>7. ReasonInv'
      <3>1. Over' /\ (Said' <=> Said) /\ UNCHANGED <<cause, up>>
            /\ (\A i \in Ids : lis'[i] # "callstop") /\ host' # "callstop"
        BY <2>1, <2>2, <2>3 DEF Dies, Over, Up, Said, Each
      <3> QED
        BY <3>1, <2>3 DEF StreamerInv, ReasonInv
    <2> QED
      BY <2>4, <2>5, <2>6, <2>7 DEF StreamerInv
  <1> QED
    BY <1>1, <1>2 DEF RelayCloses, Crash, MainExits

LEMMA ClientSendsStep ==
    ASSUME StreamerInv, NEW m \in {"set", "start", "packet", "quit"}, ClientSends(m)
    PROVE  StreamerInv'
  <1>1. UNCHANGED <<ws, wsLoop, relay, up, child, ipc, transports, starting, stopping, timing>> /\ Down(m) /\ Room(down)
    BY DEF ClientSends, server
  <1>2. PipesInv'
    <2>1. PICK b \in Nat : b = PipeCap + Bit(wsLoop' = "done") + Bit(relay'.warned) /\ PipeCap <= b
      <3>1. PipeCap + Bit(wsLoop' = "done") + Bit(relay'.warned) \in Nat
            /\ PipeCap <= PipeCap + Bit(wsLoop' = "done") + Bit(relay'.warned)
        BY SessionSizes DEF Bit
      <3> QED
        BY <3>1
    <2>2. Len(down) \in Nat /\ Len(down) < b
      BY <1>1, <2>1, SessionSizes DEF Room, StreamerInv, PipesInv
    <2>3. relay' \in [pc : {"run", "close", "done"}, code : BOOLEAN, graceful : BOOLEAN, warned : BOOLEAN]
      BY <1>1 DEF StreamerInv, PipesInv
    <2>4. m \in Asks /\ PipesInv /\ UNCHANGED <<up, ws, child>>
      BY <1>1 DEF Asks, StreamerInv
    <2> QED
      BY <1>1, <2>1, <2>2, <2>3, <2>4, DownWritten
  <1>3. TransportsInv'
    BY <1>1 DEF StreamerInv, TransportsInv, transports, starting
  <1>4. TimersInv'
    BY <1>1, TimersKept DEF timing, StreamerInv, transports, starting
  <1>5. OneStart'
    <2>1. down \in Seq(Asks) /\ m \in Asks
      BY DEF StreamerInv, PipesInv, Asks
    <2>2. /\ Len(Append(down, m)) = Len(down) + 1 /\ Len(down) \in Nat
          /\ \A n \in 1 .. Len(down) : Append(down, m)[n] = down[n]
          /\ Append(down, m)[Len(down) + 1] = m
      BY <2>1, Queued
    <2>3. UNCHANGED <<ipc, ev, start>>
      BY <1>1 DEF transports, starting
    <2>4. CASE down' = down
      BY <2>3, <2>4, OneStartKept DEF StreamerInv
    <2>5. CASE down' = Append(down, m)
      <3>1. \A n \in 1 .. Len(down') :
               \/ n \in 1 .. Len(down) /\ down'[n] = down[n]
               \/ n = Len(down) + 1 /\ down'[n] = m
        <4>1. ASSUME NEW n \in 1 .. Len(down')
              PROVE  \/ n \in 1 .. Len(down) /\ down'[n] = down[n]
                     \/ n = Len(down) + 1 /\ down'[n] = m
          <5>1. n \in 1 .. Len(down) \/ n = Len(down) + 1
            BY <2>2, <2>5
          <5> QED
            BY <2>2, <2>5, <5>1
        <4> QED
          BY <4>1
      <3>2. m = "start" => /\ start = "none" /\ ipc.msg # "start"
                           /\ \A n \in 1 .. Len(down) : down[n] # "start"
                           /\ \A i \in Ids : \A n \in 1 .. Len(ev[i]) : ev[i][n] # "start"
        BY DEF ClientSends
      <3> QED
        BY <2>3, <3>1, <3>2 DEF StreamerInv, OneStart
    <2> QED
      BY <1>1, <2>4, <2>5 DEF Down
  <1>6. ReasonInv'
    BY <1>1, ReasonKept DEF StreamerInv, transports, starting, stopping
  <1> QED
    BY <1>2, <1>3, <1>4, <1>5, <1>6 DEF StreamerInv

\* A Stop is written to the streamer: it is not a request for a stream.
LEMMA StopDown ==
    ASSUME OneStart, down \in Seq(Asks), Down("stop"), UNCHANGED <<ipc, ev, start>>
    PROVE  OneStart'
  <1>1. /\ Len(Append(down, "stop")) = Len(down) + 1 /\ Len(down) \in Nat
        /\ \A n \in 1 .. Len(down) : Append(down, "stop")[n] = down[n]
        /\ Append(down, "stop")[Len(down) + 1] = "stop"
    BY Queued DEF Asks
  <1>2. CASE down' = down
    BY <1>2, OneStartKept
  <1>3. CASE down' = Append(down, "stop")
    <2>1. \A n \in 1 .. Len(down') : down'[n] = "start" => n \in 1 .. Len(down) /\ down[n] = "start"
      BY <1>1, <1>3
    <2> QED
      BY <2>1 DEF OneStart
  <1> QED
    BY <1>2, <1>3 DEF Down

LEMMA WsLoopStep ==
    ASSUME StreamerInv, WsLoopEnds
    PROVE  StreamerInv'
  <1>1. /\ UNCHANGED <<ws, relay, up, child, ipc, transports, starting, stopping, timing>> /\ Down("stop")
        /\ wsLoop = "run" /\ wsLoop' = "done"
    BY DEF WsLoopEnds
  <1>2. PipesInv'
    <2>1. PICK b \in Nat : b = PipeCap + Bit(wsLoop' = "done") + Bit(relay'.warned)
      <3>1. PipeCap + Bit(wsLoop' = "done") + Bit(relay'.warned) \in Nat
        BY SessionSizes DEF Bit
      <3> QED
        BY <3>1
    <2>2. Len(down) \in Nat /\ Len(down) < b
      <3>1. Bit(wsLoop = "done") = 0 /\ Bit(wsLoop' = "done") = 1
        BY <1>1 DEF Bit
      <3>2. Bit(relay'.warned) = Bit(relay.warned) /\ Bit(relay.warned) \in Nat
        BY <1>1 DEF Bit
      <3> QED
        BY <2>1, <3>1, <3>2, SessionSizes DEF StreamerInv, PipesInv
    <2>3. relay' \in [pc : {"run", "close", "done"}, code : BOOLEAN, graceful : BOOLEAN, warned : BOOLEAN]
      BY <1>1 DEF StreamerInv, PipesInv
    <2>4. "stop" \in Asks /\ PipesInv /\ UNCHANGED <<up, ws, child>>
      BY <1>1 DEF Asks, StreamerInv
    <2> QED
      BY <1>1, <2>1, <2>2, <2>3, <2>4, DownWritten
  <1>3. TransportsInv'
    BY <1>1 DEF StreamerInv, TransportsInv, transports, starting
  <1>4. TimersInv'
    BY <1>1, TimersKept DEF timing, StreamerInv, transports, starting
  <1>5. OneStart'
    BY <1>1, StopDown DEF StreamerInv, PipesInv, transports, starting
  <1>6. ReasonInv'
    BY <1>1, ReasonKept DEF StreamerInv, transports, starting, stopping
  <1> QED
    BY <1>2, <1>3, <1>4, <1>5, <1>6 DEF StreamerInv

\* The relay has written Stop to the streamer at most once.
LEMMA RelayStep ==
    ASSUME StreamerInv, RelayForwards
    PROVE  StreamerInv'
  <1>1. UNCHANGED <<ws, wsLoop, child, ipc, transports, starting, stopping, timing>>
        /\ up # <<>> /\ up' = Tail(up) /\ up \in Seq(Tells)
    BY DEF RelayForwards, StreamerInv, PipesInv
  <1>2. /\ Tail(up) \in Seq(Tells) /\ Len(Tail(up)) = Len(up) - 1 /\ Len(up) \in Nat \ {0}
        /\ Head(up) = up[1]
        /\ \A n \in 1 .. Len(Tail(up)) : n + 1 \in 1 .. Len(up) /\ Tail(up)[n] = up[n + 1]
    BY <1>1, Taken
  <1>3. relay' \in [pc : {"run", "close", "done"}, code : BOOLEAN, graceful : BOOLEAN, warned : BOOLEAN]
    <2>1. relay \in [pc : {"run", "close", "done"}, code : BOOLEAN, graceful : BOOLEAN, warned : BOOLEAN]
      BY DEF StreamerInv, PipesInv
    <2> QED
      BY <2>1, Zenon DEF RelayForwards
  <1>4. /\ Head(up) = "stop" => relay'.graceful /\ relay'.code = relay.code /\ relay'.warned = relay.warned
        /\ Head(up) # "stop" => /\ relay'.graceful = relay.graceful
                                /\ relay'.code <=> (relay.code \/ Head(up) = "terminated")
                                /\ relay'.warned <=> (relay.warned \/ ws = "closed")
    BY DEF RelayForwards, StreamerInv, PipesInv
  <1>5. PipesInv'
    <2>1. up' \in Seq(Tells) /\ Len(up') <= PipeCap
      BY <1>1, <1>2, SessionSizes DEF StreamerInv, PipesInv
    <2>2. down' \in Seq(Asks) /\ Len(down') <= PipeCap + Bit(wsLoop' = "done") + Bit(relay'.warned)
      <3>1. /\ down \in Seq(Asks) /\ Len(down) \in Nat
            /\ Len(down) <= PipeCap + Bit(wsLoop = "done") + Bit(relay.warned)
        BY DEF StreamerInv, PipesInv
      <3>2. Bit(wsLoop' = "done") = Bit(wsLoop = "done") /\ Bit(wsLoop = "done") \in Nat
        BY <1>1 DEF Bit
      <3>3. CASE Head(up) # "stop" /\ ws = "closed" /\ ~relay.warned
        <4>1. Bit(relay.warned) = 0 /\ Bit(relay'.warned) = 1
          BY <1>4, <3>3 DEF Bit
        <4>2. Down("stop")
          BY <3>3 DEF RelayForwards
        <4>3. Append(down, "stop") \in Seq(Asks) /\ Len(Append(down, "stop")) = Len(down) + 1
          BY <3>1, Queued DEF Asks
        <4>4. down' \in Seq(Asks) /\ Len(down') <= Len(down) + 1
          BY <3>1, <4>2, <4>3 DEF Down
        <4>5. Len(down') \in Nat
          BY <4>4
        <4> QED
          BY <3>1, <3>2, <4>1, <4>4, <4>5, SessionSizes
      <3>4. CASE ~(Head(up) # "stop" /\ ws = "closed" /\ ~relay.warned)
        <4>1. down' = down
          BY <3>4 DEF RelayForwards
        <4>2. Bit(relay.warned) <= Bit(relay'.warned) /\ Bit(relay.warned) \in Nat /\ Bit(relay'.warned) \in Nat
          BY <1>4 DEF Bit
        <4> QED
          BY <3>1, <3>2, <4>1, <4>2, SessionSizes
      <3> QED
        BY <3>3, <3>4
    <2> QED
      BY <1>1, <1>3, <2>1, <2>2 DEF StreamerInv, PipesInv
  <1>6. TransportsInv'
    BY <1>1 DEF StreamerInv, TransportsInv, transports, starting
  <1>7. TimersInv'
    BY <1>1, TimersKept DEF timing, StreamerInv, transports, starting
  <1>8. OneStart'
    <2>1. UNCHANGED <<ipc, ev, start>> /\ OneStart /\ down \in Seq(Asks)
      BY <1>1 DEF transports, starting, StreamerInv, PipesInv
    <2>2. Down("stop") \/ UNCHANGED down
      BY DEF RelayForwards
    <2> QED
      BY <2>1, <2>2, StopDown, OneStartKept
  <1>9. ReasonInv'
    <2>1. UNCHANGED <<lis, host, cause>> /\ (Over' <=> Over)
      BY <1>1 DEF transports, starting, stopping, Over, Up
    <2>2. \A n \in 1 .. Len(up') : n + 1 \in 1 .. Len(up) /\ up'[n] = up[n + 1]
      BY <1>1, <1>2
    <2>3. \A n \in 1 .. Len(up) : n = 1 \/ (n - 1 \in 1 .. Len(up') /\ up'[n - 1] = up[n])
      <3>1. ASSUME NEW n \in 1 .. Len(up), n # 1
            PROVE  n - 1 \in 1 .. Len(up') /\ up'[n - 1] = up[n]
        <4>1. n - 1 \in 1 .. Len(up') /\ (n - 1) + 1 = n
          BY <1>1, <1>2, <3>1
        <4> QED
          BY <2>2, <4>1
      <3> QED
        BY <3>1
    <2>4. 1 \in 1 .. Len(up) /\ Head(up) = up[1]
      BY <1>2
    <2>5. relay.code => relay'.code
      BY <1>4
    <2>6. ASSUME up[1] = "terminated" PROVE relay'.code
      BY <1>4, <2>4, <2>6
    <2>7. Said => Said'
      BY <2>3, <2>5, <2>6 DEF Said
    <2>8. ASSUME NEW n \in 1 .. Len(up'), up'[n] = "stop"
          PROVE  Over' /\ (cause' = "terminated" => relay'.code \/ \E k \in 1 .. n - 1 : up'[k] = "terminated")
      <3>1. n + 1 \in 1 .. Len(up) /\ up[n + 1] = "stop"
        BY <2>2, <2>8
      <3>2. Over /\ (cause = "terminated" => relay.code \/ \E k \in 1 .. (n + 1) - 1 : up[k] = "terminated")
        BY <3>1 DEF StreamerInv, ReasonInv
      <3>3. ASSUME NEW k \in 1 .. (n + 1) - 1, up[k] = "terminated"
            PROVE  relay'.code \/ \E j \in 1 .. n - 1 : up'[j] = "terminated"
        <4>1. CASE k = 1
          BY <2>6, <3>3, <4>1
        <4>2. CASE k # 1
          <5>1. k \in 1 .. Len(up) /\ k - 1 \in 1 .. n - 1
            BY <3>1, <4>2
          <5>2. up'[k - 1] = "terminated"
            BY <2>3, <3>3, <4>2, <5>1
          <5> QED
            BY <5>1, <5>2
        <4> QED
          BY <4>1, <4>2
      <3> QED
        BY <2>1, <2>5, <3>2, <3>3
    <2>9. relay'.graceful => Over' /\ (cause' = "terminated" => relay'.code)
      <3>1. CASE Head(up) = "stop"
        <4>1. Over /\ (cause = "terminated" => relay.code \/ \E k \in 1 .. 1 - 1 : up[k] = "terminated")
          BY <2>4, <3>1 DEF StreamerInv, ReasonInv
        <4>2. ~ \E k \in 1 .. 1 - 1 : up[k] = "terminated"
          OBVIOUS
        <4> QED
          BY <2>1, <2>5, <4>1, <4>2
      <3>2. CASE Head(up) # "stop"
        BY <1>4, <2>1, <2>5, <3>2 DEF StreamerInv, ReasonInv
      <3> QED
        BY <3>1, <3>2
    <2> QED
      BY <2>1, <2>7, <2>8, <2>9 DEF StreamerInv, ReasonInv
  <1> QED
    BY <1>5, <1>6, <1>7, <1>8, <1>9 DEF StreamerInv

\* The body of stop() ends by writing the Stop: the reason is in the pipe already.
LEMMA StopFinishStep ==
    ASSUME StreamerInv, StopFinishes
    PROVE  StreamerInv'
  <1>1. /\ UNCHANGED <<ws, wsLoop, relay, down, child, ipc, sender, kind, open, ev, lis, starting, stopBy, cause, timing>>
        /\ Room(up) /\ up' = Append(up, "stop") /\ stop = "ipc" /\ stop' = "done" /\ lock' = "free" /\ Up
    BY DEF StopFinishes, server
  <1>2. PipesInv'
    BY <1>1, UpWritten DEF StreamerInv, Tells
  <1>3. TransportsInv'
    BY <1>1 DEF StreamerInv, TransportsInv, starting
  <1>4. TimersInv'
    BY <1>1, TimersKept DEF timing, StreamerInv, starting
  <1>5. OneStart'
    BY <1>1, OneStartKept DEF StreamerInv, starting
  <1>6. ReasonInv'
    <2>1. /\ Len(up') = Len(up) + 1 /\ Len(up) \in Nat /\ up'[Len(up) + 1] = "stop"
          /\ \A n \in 1 .. Len(up) : up'[n] = up[n]
      BY <1>1, Queued DEF StreamerInv, PipesInv, Tells
    <2>2. ~Over /\ Over' /\ UNCHANGED <<lis, host, cause, relay>>
      BY <1>1 DEF Over, starting, Up
    <2>3. \A n \in 1 .. Len(up) : up[n] # "stop"
      BY <2>2 DEF StreamerInv, ReasonInv
    <2>4. Said => relay'.code \/ \E n \in 1 .. Len(up) : up'[n] = "terminated"
      BY <2>1, <2>2 DEF Said
    <2>5. Said => Said'
      BY <2>1, <2>4 DEF Said
    <2>6. \A n \in 1 .. Len(up') : up'[n] = "stop" => n = Len(up) + 1
      BY <2>1, <2>3
    <2>7. ASSUME NEW n \in 1 .. Len(up'), up'[n] = "stop"
          PROVE  Over' /\ (cause' = "terminated" => relay'.code \/ \E k \in 1 .. n - 1 : up'[k] = "terminated")
      <3>1. n - 1 = Len(up)
        BY <2>1, <2>6, <2>7
      <3>2. cause' = "terminated" => Said
        BY <2>2 DEF StreamerInv, ReasonInv
      <3> QED
        BY <2>2, <2>4, <3>1, <3>2
    <2> QED
      BY <2>2, <2>5, <2>7 DEF StreamerInv, ReasonInv
  <1> QED
    BY <1>2, <1>3, <1>4, <1>5, <1>6 DEF StreamerInv

LEMMA SetupStep ==
    ASSUME StreamerInv, MainSendsSetup \/ HostTerminates
    PROVE  StreamerInv'
  <1> DEFINE m == IF main' = main THEN "terminated" ELSE "setup"
  <1>1. /\ UNCHANGED <<ws, wsLoop, relay, down, child, ipc, transports, start, stream, running, media, stopping, timing>>
        /\ Room(up) /\ up' = Append(up, m) /\ m \in Tells \ {"stop"}
        /\ host' = "callstop" => host = "callstop" \/ m = "terminated"
    BY DEF MainSendsSetup, HostTerminates, server, starting, Tells
  <1> HIDE DEF m
  <1>2. PipesInv'
    BY <1>1, UpWritten DEF StreamerInv
  <1>3. TransportsInv'
    BY <1>1 DEF StreamerInv, TransportsInv, transports
  <1>4. TimersInv'
    BY <1>1, TimersKept DEF timing, StreamerInv, transports
  <1>5. OneStart'
    BY <1>1, OneStartKept DEF StreamerInv, transports
  <1>6. ReasonInv'
    BY <1>1, ReasonWritten DEF StreamerInv, PipesInv, transports, stopping
  <1> QED
    BY <1>2, <1>3, <1>4, <1>5, <1>6 DEF StreamerInv

\* Ages only grow, and stop growing when they are due.
LEMMA TickStep ==
    ASSUME StreamerInv, TimeoutTick
    PROVE  StreamerInv'
  <1>1. /\ UNCHANGED <<ws, wsLoop, relay, pipes, child, ipc, transports, starting, stopping>>
        /\ timers' = [i \in 1 .. Len(timers) |-> Least(timers[i] + 1, Due)]
        /\ request' = IF request = None THEN None ELSE Least(request + 1, Due)
    BY DEF TimeoutTick, server
  <1>2. PipesInv' /\ TransportsInv'
    BY <1>1 DEF StreamerInv, PipesInv, TransportsInv, pipes, transports, starting
  <1>3. TimersInv'
    <2>1. \A a \in 0 .. Due : Least(a + 1, Due) \in 0 .. Due
      BY SessionSizes DEF Least
    <2>2. timers \in Seq(0 .. Due) /\ Len(timers) \in Nat /\ \A i \in 1 .. Len(timers) : timers[i] \in 0 .. Due
      <3>1. timers \in Seq(0 .. Due)
        BY DEF StreamerInv, TimersInv
      <3> QED
        BY <3>1, ElementOfSeq, LenProperties
    <2>3. timers' \in Seq(0 .. Due) /\ Len(timers') = Len(timers)
      <3> DEFINE g == [i \in 1 .. Len(timers) |-> Least(timers[i] + 1, Due)]
      <3>1. g \in [1 .. Len(timers) -> 0 .. Due]
        BY <2>1, <2>2
      <3> HIDE DEF g
      <3>2. g \in Seq(0 .. Due)
        BY <2>2, <3>1, SeqDef
      <3>3. Len(g) = Len(timers)
        BY <2>2, <3>1, <3>2, LenProperties
      <3> QED
        BY <1>1, <3>2, <3>3 DEF g
    <2>4. request' \in {None} \union 0 .. Due
      BY <1>1, <2>1 DEF StreamerInv, TimersInv
    <2>5. UNCHANGED <<lis, start>>
      BY <1>1 DEF transports, starting
    <2>6. DoneIds' = DoneIds
      BY <2>5 DEF DoneIds
    <2> QED
      BY <2>3, <2>4, <2>5, <2>6 DEF StreamerInv, TimersInv
  <1>4. OneStart'
    BY <1>1, OneStartKept DEF StreamerInv, pipes, transports, starting
  <1>5. ReasonInv'
    BY <1>1, ReasonKept DEF StreamerInv, pipes, transports, starting, stopping
  <1> QED
    BY <1>2, <1>3, <1>4, <1>5 DEF StreamerInv

LEMMA TimerStep ==
    ASSUME StreamerInv, TimerFires
    PROVE  StreamerInv'
  <1>1. /\ UNCHANGED <<ws, wsLoop, relay, pipes, child, ipc, transports, start, media, host, request, deaf, late>>
        /\ timers # <<>> /\ timers' = Tail(timers) /\ Up
        /\ CallStop("timer", "timeout") \/ UNCHANGED <<stopping, stream, running>>
    BY DEF TimerFires, server
  <1>2. PipesInv' /\ TransportsInv'
    BY <1>1 DEF StreamerInv, PipesInv, TransportsInv, pipes, transports
  <1>3. TimersInv'
    <2>1. timers \in Seq(0 .. Due)
      BY DEF StreamerInv, TimersInv
    <2>2. timers' \in Seq(0 .. Due) /\ Len(timers') = Len(timers) - 1 /\ Len(timers) \in Nat
      BY <1>1, <2>1, Taken
    <2>3. UNCHANGED <<lis, start, request>>
      BY <1>1 DEF transports
    <2>4. DoneIds' = DoneIds /\ Cardinality(DoneIds) \in Nat /\ Bit(start = "done") \in Nat
      BY <2>3, DoneFinite DEF DoneIds, Bit
    <2> QED
      BY <2>2, <2>3, <2>4 DEF StreamerInv, TimersInv
  <1>4. OneStart'
    BY <1>1, OneStartKept DEF StreamerInv, pipes, transports
  <1>5. ReasonInv'
    BY <1>1, ReasonKept, ReasonStopped DEF StreamerInv, pipes, transports, stopping
  <1> QED
    BY <1>2, <1>3, <1>4, <1>5 DEF StreamerInv

LEMMA IpcRecvStep ==
    ASSUME StreamerInv, IpcRecv
    PROVE  StreamerInv'
  <1>1. /\ UNCHANGED <<ws, wsLoop, relay, up, child, transports, start, media, host>>
        /\ down # <<>> /\ down' = Tail(down) /\ Up
    BY DEF IpcRecv, server
  <1>2. /\ ipc'.msg = IF Head(down) \in {"set", "stop"} THEN "none" ELSE Head(down)
        /\ ipc' \in [pc : {"take", "instop", "dispatch"}, msg : {"none", Head(down)}]
        /\ UNCHANGED timing \/ (ClearTerminateRequest /\ UNCHANGED timers)
        /\ CallStop("ipc", "asked") \/ UNCHANGED <<stopping, stream, running>>
    <2>1. CASE Head(down) = "set"
      BY <2>1 DEF IpcRecv
    <2>2. CASE Head(down) = "stop"
      BY <2>2 DEF IpcRecv
    <2>3. CASE Head(down) \notin {"set", "stop"}
      BY <2>3 DEF IpcRecv
    <2> QED
      BY <2>1, <2>2, <2>3
  <1>3. down \in Seq(Asks)
    BY DEF StreamerInv, PipesInv
  <1>4. /\ Tail(down) \in Seq(Asks) /\ Len(Tail(down)) = Len(down) - 1 /\ Len(down) \in Nat \ {0}
        /\ Head(down) = down[1] /\ down[1] \in Asks
        /\ \A n \in 1 .. Len(Tail(down)) : n + 1 \in 1 .. Len(down) /\ Tail(down)[n] = down[n + 1]
    BY <1>1, <1>3, Taken
  <1>5. PipesInv'
    <2>1. Bit(wsLoop' = "done") = Bit(wsLoop = "done") /\ Bit(wsLoop = "done") \in Nat
      BY <1>1 DEF Bit
    <2>2. Bit(relay'.warned) = Bit(relay.warned) /\ Bit(relay.warned) \in Nat
      BY <1>1 DEF Bit
    <2>3. Len(down') <= PipeCap + Bit(wsLoop' = "done") + Bit(relay'.warned)
      BY <1>1, <1>4, <2>1, <2>2, SessionSizes DEF StreamerInv, PipesInv
    <2> QED
      BY <1>1, <1>4, <2>3 DEF StreamerInv, PipesInv
  <1>6. TransportsInv'
    <2>1. ipc' \in [pc : IpcPlaces, msg : Happenings]
      BY <1>2, <1>4 DEF IpcPlaces, Happenings, Asks
    <2> QED
      BY <1>1, <2>1 DEF StreamerInv, TransportsInv, transports
  <1>7. TimersInv'
    <2>1. CASE UNCHANGED timing
      BY <1>1, <2>1, TimersKept DEF timing, StreamerInv, transports
    <2>2. CASE ClearTerminateRequest /\ UNCHANGED timers
      <3>1. DoneIds' = DoneIds
        BY <1>1 DEF DoneIds, transports
      <3> QED
        BY <1>1, <2>2, <3>1, SessionSizes DEF StreamerInv, TimersInv, ClearTerminateRequest
    <2> QED
      BY <1>2, <2>1, <2>2
  <1>8. OneStart'
    <2>1. UNCHANGED <<ev, start>>
      BY <1>1 DEF transports
    <2>2. \A n \in 1 .. Len(down') : n + 1 \in 1 .. Len(down) /\ down'[n] = down[n + 1]
      BY <1>1, <1>4
    <2>3. 1 \in 1 .. Len(down) /\ (ipc'.msg = "start" <=> down[1] = "start")
      BY <1>2, <1>4
    <2>4. \A m, n \in 1 .. Len(down') : down'[m] = "start" /\ down'[n] = "start" => m = n
      <3>1. ASSUME NEW m \in 1 .. Len(down'), NEW n \in 1 .. Len(down'), down'[m] = "start", down'[n] = "start"
            PROVE  m = n
        <4>1. m + 1 \in 1 .. Len(down) /\ n + 1 \in 1 .. Len(down) /\ down[m + 1] = "start" /\ down[n + 1] = "start"
          BY <2>2, <3>1
        <4>2. m + 1 = n + 1
          BY <4>1 DEF StreamerInv, OneStart
        <4> QED
          BY <4>2
      <3> QED
        BY <3>1
    <2>5. \A n \in 1 .. Len(down') : down'[n] = "start" =>
             /\ start = "none" /\ ipc'.msg # "start"
             /\ \A i \in Ids : \A k \in 1 .. Len(ev[i]) : ev[i][k] # "start"
      <3>1. ASSUME NEW n \in 1 .. Len(down'), down'[n] = "start"
            PROVE  /\ start = "none" /\ ipc'.msg # "start"
                   /\ \A i \in Ids : \A k \in 1 .. Len(ev[i]) : ev[i][k] # "start"
        <4>1. n + 1 \in 1 .. Len(down) /\ down[n + 1] = "start" /\ n + 1 # 1
          BY <2>2, <3>1
        <4>2. down[1] # "start"
          BY <2>3, <4>1 DEF StreamerInv, OneStart
        <4> QED
          BY <2>3, <4>1, <4>2 DEF StreamerInv, OneStart
      <3> QED
        BY <3>1
    <2>6. ipc'.msg = "start" =>
             start = "none" /\ \A i \in Ids : \A k \in 1 .. Len(ev[i]) : ev[i][k] # "start"
      BY <2>3 DEF StreamerInv, OneStart
    <2> QED
      BY <2>1, <2>4, <2>5, <2>6 DEF StreamerInv, OneStart
  <1>9. ReasonInv'
    BY <1>1, <1>2, ReasonKept, ReasonStopped DEF StreamerInv, transports, stopping
  <1> QED
    BY <1>5, <1>6, <1>7, <1>8, <1>9 DEF StreamerInv

\* A set of naturals that is not empty has a least element.
LEMMA LeastNatural ==
    ASSUME NEW S, S \subseteq Nat, S # {}
    PROVE  \E m \in S : \A n \in S : m <= n
  <1>1. \E m \in S : \A n \in S : ~(<<n, m>> \in OpToRel(<, Nat))
    BY WFMin, NatLessThanWellFounded
  <1>2. PICK m \in S : \A n \in S : ~(<<n, m>> \in OpToRel(<, Nat))
    BY <1>1
  <1>3. \A n \in S : ~(n < m)
    BY <1>2 DEF OpToRel
  <1> QED
    BY <1>3

\* The next transport is the least one not used yet.
LEMMA NextFree ==
    ASSUME \E i \in Ids : lis[i] = "off"
    PROVE  NextTransport \in Ids /\ lis[NextTransport] = "off"
  <1> DEFINE T == {i \in Ids : lis[i] = "off"}
  <1>1. T \subseteq Nat /\ T # {}
    BY SessionSizes DEF Ids
  <1>2. \E i \in T : \A j \in T : i <= j
    BY <1>1, LeastNatural
  <1>3. \E i \in Ids : lis[i] = "off" /\ \A j \in Ids : lis[j] = "off" => i <= j
    BY <1>2
  <1> QED
    BY <1>3 DEF NextTransport

LEMMA InstallStep ==
    ASSUME StreamerInv, NEW k, IpcInstalls(k)
    PROVE  StreamerInv'
  <1>1. NextTransport \in Ids /\ lis[NextTransport] = "off"
    BY NextFree DEF IpcInstalls
  <1>2. /\ UNCHANGED <<ws, wsLoop, relay, pipes, child, lock, ev, starting, stopping, request, timers>>
        /\ ipc' = [ipc EXCEPT !.pc = "recv"] /\ sender' = NextTransport
        /\ lis' = [lis EXCEPT ![NextTransport] = "run"]
    BY DEF IpcInstalls, server
  <1>3. PipesInv'
    BY <1>2 DEF StreamerInv, PipesInv, pipes
  <1>4. TransportsInv'
    <2>1. sender' \in 0 .. MaxTransports
      BY <1>1, <1>2, SessionSizes DEF Ids
    <2> QED
      BY <1>1, <1>2, <2>1 DEF StreamerInv, TransportsInv, starting, IpcPlaces, ListenerPlaces
  <1>5. TimersInv'
    <2>1. \A i \in Ids : lis[i] = "done" => lis'[i] = "done"
      BY <1>1, <1>2 DEF StreamerInv, TransportsInv
    <2> QED
      BY <1>2, <2>1, TimersKept DEF timing, StreamerInv, starting
  <1>6. OneStart'
    <2>1. ipc'.msg = ipc.msg /\ UNCHANGED <<down, ev, start>>
      BY <1>2 DEF StreamerInv, TransportsInv, pipes, starting
    <2> QED
      BY <2>1 DEF StreamerInv, OneStart
  <1>7. ReasonInv'
    <2>1. \A i \in Ids : lis'[i] = "callstop" => lis[i] = "callstop"
      BY <1>1, <1>2 DEF StreamerInv, TransportsInv
    <2> QED
      BY <1>2, <2>1, ReasonKept DEF StreamerInv, pipes, starting, stopping
  <1> QED
    BY <1>3, <1>4, <1>5, <1>6, <1>7 DEF StreamerInv

\* An event other than the request for a stream is queued.
LEMMA OneStartQueued ==
    ASSUME TransportsInv, OneStart, NEW i \in Ids, NEW m \in Happenings \ {"start"},
           ev' = [ev EXCEPT ![i] = Append(@, m)], UNCHANGED down, start = "none" => start' = "none",
           ipc'.msg = "start" => ipc.msg = "start"
    PROVE  OneStart'
  <1>1. ev[i] \in Seq(Happenings) /\ \A j \in Ids : ev'[j] = IF j = i THEN Append(ev[i], m) ELSE ev[j]
    BY DEF TransportsInv
  <1>2. /\ Len(Append(ev[i], m)) = Len(ev[i]) + 1 /\ Len(ev[i]) \in Nat
        /\ \A n \in 1 .. Len(ev[i]) : Append(ev[i], m)[n] = ev[i][n]
        /\ Append(ev[i], m)[Len(ev[i]) + 1] = m
    BY <1>1, Queued
  <1>3. \A j \in Ids : \A n \in 1 .. Len(ev'[j]) : ev'[j][n] = "start" => n \in 1 .. Len(ev[j]) /\ ev[j][n] = "start"
    <2>1. ASSUME NEW j \in Ids, NEW n \in 1 .. Len(ev'[j]), ev'[j][n] = "start"
          PROVE  n \in 1 .. Len(ev[j]) /\ ev[j][n] = "start"
      <3>1. CASE j # i
        BY <1>1, <2>1, <3>1
      <3>2. CASE j = i
        <4>1. n \in 1 .. Len(ev[i]) \/ n = Len(ev[i]) + 1
          BY <1>1, <1>2, <3>2
        <4> QED
          BY <1>1, <1>2, <2>1, <3>2, <4>1
      <3> QED
        BY <3>1, <3>2
    <2> QED
      BY <2>1
  <1> QED
    BY <1>3 DEF OneStart

\* A listener takes its next event; if it is the request, no other is left.
LEMMA OneStartTaken ==
    ASSUME TransportsInv, OneStart, NEW i \in Ids, ev[i] # <<>>, ev' = [ev EXCEPT ![i] = Tail(@)],
           UNCHANGED <<down, ipc>>, start' = start \/ (Head(ev[i]) = "start" /\ start = "none")
    PROVE  OneStart' /\ (Head(ev[i]) = "start" => start = "none")
  <1>1. ev[i] \in Seq(Happenings) /\ \A j \in Ids : ev'[j] = IF j = i THEN Tail(ev[i]) ELSE ev[j]
    BY DEF TransportsInv
  <1>2. /\ Len(ev[i]) \in Nat \ {0} /\ Head(ev[i]) = ev[i][1]
        /\ \A n \in 1 .. Len(Tail(ev[i])) : n + 1 \in 1 .. Len(ev[i]) /\ Tail(ev[i])[n] = ev[i][n + 1]
    BY <1>1, Taken
  <1>3. \A j \in Ids : \A n \in 1 .. Len(ev'[j]) : ev'[j][n] = "start" =>
           IF j = i THEN n + 1 \in 1 .. Len(ev[i]) /\ ev[i][n + 1] = "start"
           ELSE n \in 1 .. Len(ev[j]) /\ ev[j][n] = "start"
    BY <1>1, <1>2
  <1>4. 1 \in 1 .. Len(ev[i])
    BY <1>2
  <1>5. CASE Head(ev[i]) = "start"
    <2>1. ev[i][1] = "start" /\ start = "none" /\ ipc.msg # "start" /\ \A n \in 1 .. Len(down) : down[n] # "start"
      BY <1>2, <1>4, <1>5 DEF OneStart
    <2>2. \A j \in Ids : \A n \in 1 .. Len(ev[j]) : ev[j][n] = "start" => j = i /\ n = 1
      BY <1>4, <2>1 DEF OneStart
    <2>3. \A j \in Ids : \A n \in 1 .. Len(ev'[j]) : ev'[j][n] # "start"
      <3>1. ASSUME NEW j \in Ids, NEW n \in 1 .. Len(ev'[j]), ev'[j][n] = "start"
            PROVE  FALSE
        <4>1. CASE j = i
          <5>1. n + 1 = 1
            BY <1>3, <2>2, <3>1, <4>1
          <5>2. n \in 1 .. Len(Tail(ev[i]))
            BY <1>1, <4>1
          <5> QED
            BY <5>1, <5>2
        <4>2. CASE j # i
          BY <1>3, <2>2, <3>1, <4>2
        <4> QED
          BY <4>1, <4>2
      <3> QED
        BY <3>1
    <2> QED
      BY <2>1, <2>3 DEF OneStart
  <1>6. CASE Head(ev[i]) # "start"
    <2>1. start' = start
      BY <1>6
    <2>2. ASSUME NEW j \in Ids, NEW n \in 1 .. Len(ev'[j]), ev'[j][n] = "start"
          PROVE  \E m \in 1 .. Len(ev[j]) : ev[j][m] = "start"
      BY <1>3, <2>2
    <2>3. ASSUME NEW j \in Ids, NEW k \in Ids, NEW m \in 1 .. Len(ev'[j]), NEW n \in 1 .. Len(ev'[k]),
                 ev'[j][m] = "start", ev'[k][n] = "start"
          PROVE  j = k /\ m = n
      <3>1. j = k
        BY <2>2, <2>3 DEF OneStart
      <3>2. CASE j = i
        <4>1. /\ m + 1 \in 1 .. Len(ev[i]) /\ ev[i][m + 1] = "start"
              /\ n + 1 \in 1 .. Len(ev[i]) /\ ev[i][n + 1] = "start"
          BY <1>3, <2>3, <3>1, <3>2
        <4>2. m + 1 = n + 1
          BY <4>1 DEF OneStart
        <4>3. m \in Int /\ n \in Int
          OBVIOUS
        <4> QED
          BY <3>1, <4>2, <4>3
      <3>3. CASE j # i
        BY <1>3, <2>3, <3>1, <3>3 DEF OneStart
      <3> QED
        BY <3>2, <3>3
    <2> QED
      BY <1>6, <2>1, <2>2, <2>3 DEF OneStart
  <1> QED
    BY <1>5, <1>6

\* The IPC task hands its message to the transport, or it is lost with it.
LEMMA DeliverStep ==
    ASSUME StreamerInv, IpcDelivers
    PROVE  StreamerInv'
  <1>1. /\ UNCHANGED <<ws, wsLoop, relay, pipes, child, sender, lis, starting, stopping, timing>>
        /\ (Listening => EventRoom) /\ Event(ipc.msg) /\ lock' = "free" /\ ipc' = IdleIpc
    BY DEF IpcDelivers, server
  <1>2. PipesInv'
    BY <1>1 DEF StreamerInv, PipesInv, pipes
  <1>3. TransportsInv'
    <2>1. ipc.msg \in Happenings /\ TransportsInv
      BY DEF StreamerInv, TransportsInv
    <2>2. ev' \in [Ids -> Seq(Happenings)] /\ \A i \in Ids : Len(ev'[i]) <= EventCap
      BY <1>1, <2>1, EventAdded
    <2> QED
      BY <1>1, <2>2 DEF StreamerInv, TransportsInv, starting, IdleIpc, IpcPlaces, Happenings
  <1>4. TimersInv'
    BY <1>1, TimersKept DEF timing, StreamerInv, starting
  <1>5. OneStart'
    <2>1. UNCHANGED <<down, start>> /\ ipc'.msg = "none"
      BY <1>1 DEF pipes, starting, IdleIpc
    <2>2. CASE ~Listening
      BY <1>1, <2>1, <2>2 DEF Event, StreamerInv, OneStart
    <2>3. CASE Listening
      <3>1. sender \in Ids /\ ev' = [ev EXCEPT ![sender] = Append(@, ipc.msg)] /\ ipc.msg \in Happenings
        BY <1>1, <2>3, SessionSizes DEF Event, Listening, StreamerInv, TransportsInv, Ids
      <3>2. CASE ipc.msg # "start"
        BY <2>1, <3>1, <3>2, OneStartQueued DEF StreamerInv
      <3>3. CASE ipc.msg = "start"
        <4>1. ev[sender] \in Seq(Happenings) /\ \A j \in Ids : ev'[j] = IF j = sender THEN Append(ev[sender], "start") ELSE ev[j]
          BY <3>1, <3>3 DEF StreamerInv, TransportsInv
        <4>2. /\ Len(Append(ev[sender], "start")) = Len(ev[sender]) + 1 /\ Len(ev[sender]) \in Nat
              /\ \A n \in 1 .. Len(ev[sender]) : Append(ev[sender], "start")[n] = ev[sender][n]
          BY <4>1, Queued DEF Happenings
        <4>3. /\ start = "none" /\ \A i \in Ids : \A k \in 1 .. Len(ev[i]) : ev[i][k] # "start"
              /\ \A n \in 1 .. Len(down) : down[n] # "start"
          BY <3>3 DEF StreamerInv, OneStart
        <4>4. ASSUME NEW j \in Ids, NEW n \in 1 .. Len(ev'[j]), ev'[j][n] = "start"
              PROVE  j = sender /\ n = Len(ev[sender]) + 1
          <5>1. j = sender
            BY <4>1, <4>3, <4>4
          <5>2. n \in 1 .. Len(ev[sender]) \/ n = Len(ev[sender]) + 1
            <6>1. ev'[j] = Append(ev[sender], "start")
              BY <4>1, <5>1
            <6>2. Len(ev'[j]) = Len(ev[sender]) + 1 /\ Len(ev[sender]) \in Nat
              BY <4>2, <6>1
            <6> QED
              BY <6>2
          <5>3. n \notin 1 .. Len(ev[sender])
            BY <3>1, <4>1, <4>2, <4>3, <4>4, <5>1
          <5> QED
            BY <5>1, <5>2, <5>3
        <4> QED
          BY <2>1, <4>3, <4>4 DEF OneStart
      <3> QED
        BY <3>2, <3>3
    <2> QED
      BY <2>2, <2>3
  <1>6. ReasonInv'
    BY <1>1, ReasonKept DEF StreamerInv, pipes, starting, stopping
  <1> QED
    BY <1>2, <1>3, <1>4, <1>5, <1>6 DEF StreamerInv

\* A data channel delivers a packet.
LEMMA ChannelStep ==
    ASSUME StreamerInv, NEW i \in Ids, NEW m \in {"packet", "quit"}, DataChannelPacket(i, m)
    PROVE  StreamerInv'
  <1>1. /\ UNCHANGED <<ws, wsLoop, relay, pipes, child, ipc, sender, lock, lis, starting, stopping, timing>>
        /\ ev' = [ev EXCEPT ![i] = Append(@, m)] /\ Len(ev[i]) < MaxPackets
        /\ m \in Happenings \ {"start"}
    BY DEF DataChannelPacket, server, Happenings
  <1>2. PipesInv'
    BY <1>1 DEF StreamerInv, PipesInv, pipes
  <1>3. TransportsInv'
    <2>1. ev[i] \in Seq(Happenings)
      BY DEF StreamerInv, TransportsInv
    <2>2. Append(ev[i], m) \in Seq(Happenings) /\ Len(Append(ev[i], m)) = Len(ev[i]) + 1 /\ Len(ev[i]) \in Nat
      BY <1>1, <2>1, Queued
    <2>3. Len(Append(ev[i], m)) <= EventCap
      BY <1>1, <2>2, SessionSizes
    <2> QED
      BY <1>1, <2>2, <2>3 DEF StreamerInv, TransportsInv, starting
  <1>4. TimersInv'
    BY <1>1, TimersKept DEF timing, StreamerInv, starting
  <1>5. OneStart'
    BY <1>1, OneStartQueued DEF StreamerInv, pipes, starting
  <1>6. ReasonInv'
    BY <1>1, ReasonKept DEF StreamerInv, pipes, starting, stopping
  <1> QED
    BY <1>2, <1>3, <1>4, <1>5, <1>6 DEF StreamerInv

\* A listener takes an event: it relays a message, starts the stream or handles a packet.
LEMMA ListenerStep ==
    ASSUME StreamerInv, NEW i \in Ids, ListenerRelays(i) \/ ListenerStarts(i) \/ ListenerPacket(i)
    PROVE  StreamerInv'
  <1>1. /\ UNCHANGED <<ws, wsLoop, relay, down, child, ipc, sender, lock, media, host, timing>>
        /\ Up /\ lis[i] = "run" /\ ev[i] # <<>> /\ ev' = [ev EXCEPT ![i] = Tail(@)]
    BY DEF ListenerRelays, ListenerStarts, ListenerPacket, server, pipes, starting
  <1>2. start' = start \/ (Head(ev[i]) = "start" /\ start' = "clear")
    BY DEF ListenerRelays, ListenerStarts, ListenerPacket, starting
  <1>3. /\ lis' \in [Ids -> ListenerPlaces]
        /\ \A j \in Ids : lis[j] = "done" => lis'[j] = "done"
        /\ \A j \in Ids : lis'[j] = "callstop" => lis[j] = "callstop" \/ (ListenerRelays(i) /\ Head(ev[i]) = "terminated")
    BY <1>1 DEF ListenerRelays, ListenerStarts, ListenerPacket, StreamerInv, TransportsInv, ListenerPlaces
  <1>4. PipesInv'
    <2>1. CASE ListenerRelays(i)
      <3> DEFINE m == IF Head(ev[i]) = "ipc" THEN "media" ELSE "terminated"
      <3>1. m \in Tells /\ Room(up) /\ up' = Append(up, m)
        BY <2>1 DEF ListenerRelays, Tells
      <3> HIDE DEF m
      <3> QED
        BY <1>1, <3>1, UpWritten DEF StreamerInv
    <2>2. CASE ListenerStarts(i) \/ ListenerPacket(i)
      BY <1>1, <2>2 DEF ListenerStarts, ListenerPacket, StreamerInv, PipesInv, pipes
    <2> QED
      BY <2>1, <2>2
  <1>5. Head(ev[i]) = "start" => start = "none"
    <2>1. ev[i] \in Seq(Happenings)
      BY DEF StreamerInv, TransportsInv
    <2>2. Head(ev[i]) = ev[i][1] /\ 1 \in 1 .. Len(ev[i])
      BY <1>1, <2>1, Taken
    <2> QED
      BY <2>2 DEF StreamerInv, OneStart
  <1>6. TransportsInv'
    <2>1. ev' \in [Ids -> Seq(Happenings)] /\ \A j \in Ids : Len(ev'[j]) <= EventCap
      BY <1>1, EventTaken DEF StreamerInv
    <2> QED
      BY <1>1, <1>2, <1>3, <2>1 DEF StreamerInv, TransportsInv, StartPlaces
  <1>7. TimersInv'
    BY <1>1, <1>2, <1>3, <1>5, TimersKept DEF timing, StreamerInv
  <1>8. OneStart'
    BY <1>1, <1>2, <1>5, OneStartTaken DEF StreamerInv
  <1>9. ReasonInv'
    <2>1. CASE ListenerRelays(i)
      <3> DEFINE m == IF Head(ev[i]) = "ipc" THEN "media" ELSE "terminated"
      <3>1. m \in Tells \ {"stop"} /\ up' = Append(up, m) /\ UNCHANGED <<stop, cause>>
        BY <2>1 DEF ListenerRelays, Tells, stopping
      <3>2. \A j \in Ids : lis'[j] = "callstop" => lis[j] = "callstop" \/ m = "terminated"
        BY <1>3
      <3> HIDE DEF m
      <3> QED
        BY <1>1, <3>1, <3>2, ReasonWritten DEF StreamerInv, PipesInv
    <2>2. CASE ListenerStarts(i)
      <3>1. UNCHANGED <<up, stop, cause, lis>>
        BY <2>2 DEF ListenerStarts, pipes, stopping
      <3> QED
        BY <1>1, <3>1, ReasonKept DEF StreamerInv
    <2>3. CASE ListenerPacket(i)
      <3>1. UNCHANGED up /\ \A j \in Ids : lis'[j] = "callstop" => lis[j] = "callstop"
        BY <1>1, <2>3 DEF ListenerPacket, pipes, StreamerInv, TransportsInv
      <3>2. CallStop("listener", "asked") \/ UNCHANGED <<stop, cause>>
        BY <2>3 DEF ListenerPacket, stopping
      <3> QED
        BY <1>1, <3>1, <3>2, ReasonKept, ReasonStopped DEF StreamerInv
    <2> QED
      BY <2>1, <2>2, <2>3
  <1> QED
    BY <1>4, <1>6, <1>7, <1>8, <1>9 DEF StreamerInv

\* A request for termination is new, and a timer has been added for it.
LEMMA TimerAdded ==
    ASSUME TimersInv, NEW i, RequestTerminate(i),
           NEW b \in Nat, b = Cardinality(DoneIds) + Bit(start = "done"),
           Cardinality(DoneIds)' + Bit((start = "done")') = b + 1
    PROVE  TimersInv'
  <1>1. timers \in Seq(0 .. Due) /\ Len(timers) <= b /\ 0 \in 0 .. Due
    BY SessionSizes DEF TimersInv
  <1>2. timers' \in Seq(0 .. Due) /\ Len(timers') = Len(timers) + 1 /\ Len(timers) \in Nat
    BY <1>1, Queued DEF RequestTerminate
  <1>3. Len(timers') <= b + 1
    BY <1>1, <1>2
  <1>4. Len(timers') <= Cardinality(DoneIds)' + Bit((start = "done")')
    BY <1>3
  <1> QED
    BY <1>1, <1>2, <1>4, SessionSizes DEF TimersInv, RequestTerminate

LEMMA ClosedStep ==
    ASSUME StreamerInv, NEW i \in Ids, ListenerClosed(i)
    PROVE  StreamerInv'
  <1>1. /\ UNCHANGED <<ws, wsLoop, relay, pipes, child, ipc, sender, lock, ev, starting, stopping>>
        /\ lis[i] = "run" /\ lis' = [lis EXCEPT ![i] = "done"] /\ RequestTerminate(i)
    BY DEF ListenerClosed, server
  <1>2. PipesInv'
    BY <1>1 DEF StreamerInv, PipesInv, pipes
  <1>3. TransportsInv'
    BY <1>1 DEF StreamerInv, TransportsInv, starting, ListenerPlaces
  <1>4. TimersInv'
    <2>1. Cardinality(DoneIds) \in Nat /\ Cardinality(DoneIds)' = Cardinality(DoneIds) + 1
      BY <1>1, DoneAdds DEF StreamerInv, TransportsInv
    <2>2. Bit(start = "done") \in Nat /\ Bit((start = "done")') = Bit(start = "done")
      BY <1>1 DEF Bit, starting
    <2>3. /\ Cardinality(DoneIds) + Bit(start = "done") \in Nat
          /\ Cardinality(DoneIds)' + Bit((start = "done")') = (Cardinality(DoneIds) + Bit(start = "done")) + 1
      BY <2>1, <2>2
    <2> QED
      BY <1>1, <2>3, TimerAdded DEF StreamerInv
  <1>5. OneStart'
    BY <1>1, OneStartKept DEF StreamerInv, pipes, starting
  <1>6. ReasonInv'
    <2>1. \A j \in Ids : lis'[j] = "callstop" => lis[j] = "callstop"
      BY <1>1 DEF StreamerInv, TransportsInv
    <2> QED
      BY <1>1, <2>1, ReasonKept DEF StreamerInv, pipes, starting, stopping
  <1> QED
    BY <1>2, <1>3, <1>4, <1>5, <1>6 DEF StreamerInv

LEMMA ClearsStep ==
    ASSUME StreamerInv, StartClears
    PROVE  StreamerInv'
  <1>1. /\ UNCHANGED <<ws, wsLoop, relay, pipes, child, ipc, transports, media, host, stopping, timers>>
        /\ start = "clear" /\ start' = "connect" /\ ClearTerminateRequest
    BY DEF StartClears, server
  <1>2. PipesInv'
    BY <1>1 DEF StreamerInv, PipesInv, pipes
  <1>3. TransportsInv'
    BY <1>1 DEF StreamerInv, TransportsInv, transports, StartPlaces
  <1>4. TimersInv'
    <2>1. DoneIds' = DoneIds
      BY <1>1 DEF DoneIds, transports
    <2>2. Bit((start = "done")') = Bit(start = "done")
      BY <1>1 DEF Bit
    <2> QED
      BY <1>1, <2>1, <2>2, SessionSizes DEF StreamerInv, TimersInv, ClearTerminateRequest
  <1>5. OneStart'
    BY <1>1, OneStartKept DEF StreamerInv, pipes, transports
  <1>6. ReasonInv'
    BY <1>1, ReasonKept DEF StreamerInv, pipes, transports, stopping
  <1> QED
    BY <1>2, <1>3, <1>4, <1>5, <1>6 DEF StreamerInv

\* start_stream ends, or a media callback queues its event.
LEMMA CompletesStep ==
    ASSUME StreamerInv, StartCompletes
    PROVE  StreamerInv'
  <1>1. /\ UNCHANGED <<ws, wsLoop, relay, pipes, child, ipc, sender, lock, lis, media, host, stopping>>
        /\ start = "setup" /\ start' = "done"
        /\ \/ UNCHANGED timing
           \/ RequestTerminate(0)
        /\ \/ UNCHANGED ev
           \/ (Listening => EventRoom) /\ Event("ipc")
    BY DEF StartCompletes, server
  <1>2. PipesInv'
    BY <1>1 DEF StreamerInv, PipesInv, pipes
  <1>3. TransportsInv'
    <2>1. ev' \in [Ids -> Seq(Happenings)] /\ \A i \in Ids : Len(ev'[i]) <= EventCap
      <3>1. CASE UNCHANGED ev
        BY <3>1 DEF StreamerInv, TransportsInv
      <3>2. CASE (Listening => EventRoom) /\ Event("ipc")
        BY <3>2, EventAdded DEF StreamerInv, Happenings
      <3> QED
        BY <1>1, <3>1, <3>2
    <2> QED
      BY <1>1, <2>1 DEF StreamerInv, TransportsInv, StartPlaces
  <1>4. TimersInv'
    <2>1. CASE UNCHANGED timing
      BY <1>1, <2>1, TimersKept DEF timing, StreamerInv
    <2>2. CASE RequestTerminate(0)
      <3>1. Cardinality(DoneIds) \in Nat /\ Cardinality(DoneIds)' = Cardinality(DoneIds)
        <4>1. DoneIds' = DoneIds
          BY <1>1 DEF DoneIds
        <4> QED
          BY <4>1, DoneFinite
      <3>2. Bit(start = "done") = 0 /\ Bit((start = "done")') = 1
        BY <1>1 DEF Bit
      <3>3. /\ Cardinality(DoneIds) + Bit(start = "done") \in Nat
            /\ Cardinality(DoneIds)' + Bit((start = "done")') = (Cardinality(DoneIds) + Bit(start = "done")) + 1
        BY <3>1, <3>2
      <3> QED
        BY <2>2, <3>3, TimerAdded DEF StreamerInv
    <2> QED
      BY <1>1, <2>1, <2>2
  <1>5. OneStart'
    <2>1. UNCHANGED <<down, ipc>> /\ (start = "none" => start' = "none")
      BY <1>1 DEF pipes
    <2>2. CASE UNCHANGED ev
      BY <2>1, <2>2, OneStartKept DEF StreamerInv
    <2>3. CASE (Listening => EventRoom) /\ Event("ipc") /\ ~UNCHANGED ev
      <3>1. sender \in Ids /\ ev' = [ev EXCEPT ![sender] = Append(@, "ipc")] /\ "ipc" \in Happenings \ {"start"}
        BY <2>3, SessionSizes DEF Event, Listening, StreamerInv, TransportsInv, Ids, Happenings
      <3> QED
        BY <2>1, <3>1, OneStartQueued DEF StreamerInv
    <2> QED
      BY <1>1, <2>2, <2>3
  <1>6. ReasonInv'
    BY <1>1, ReasonKept DEF StreamerInv, pipes, stopping
  <1> QED
    BY <1>2, <1>3, <1>4, <1>5, <1>6 DEF StreamerInv

LEMMA MediaStep ==
    ASSUME StreamerInv, NEW m \in {"ipc", "terminated"}, MediaSends(m)
    PROVE  StreamerInv'
  <1>1. /\ UNCHANGED <<ws, wsLoop, relay, pipes, child, ipc, sender, lis, start, host, stopping, timing>>
        /\ Listening /\ EventRoom /\ Event(m) /\ lock' = "free" /\ media' \in {"dead", "idle"}
        /\ m \in Happenings \ {"start"}
    BY DEF MediaSends, server, Happenings
  <1>2. PipesInv'
    BY <1>1 DEF StreamerInv, PipesInv, pipes
  <1>3. TransportsInv'
    <2>1. ev' \in [Ids -> Seq(Happenings)] /\ \A i \in Ids : Len(ev'[i]) <= EventCap
      BY <1>1, EventAdded DEF StreamerInv
    <2> QED
      BY <1>1, <2>1 DEF StreamerInv, TransportsInv
  <1>4. TimersInv'
    BY <1>1, TimersKept DEF timing, StreamerInv
  <1>5. OneStart'
    <2>1. sender \in Ids /\ ev' = [ev EXCEPT ![sender] = Append(@, m)]
      BY <1>1, SessionSizes DEF Event, Listening, StreamerInv, TransportsInv, Ids
    <2> QED
      BY <1>1, <2>1, OneStartQueued DEF StreamerInv, pipes
  <1>6. ReasonInv'
    BY <1>1, ReasonKept DEF StreamerInv, pipes, stopping
  <1> QED
    BY <1>2, <1>3, <1>4, <1>5, <1>6 DEF StreamerInv

LEMMA SessionStarts == StreamerInit => StreamerInv
  <1> SUFFICES ASSUME StreamerInit PROVE StreamerInv
    OBVIOUS
  <1>1. PipesInv
    <2>1. relay \in [pc : {"run", "close", "done"}, code : BOOLEAN, graceful : BOOLEAN, warned : BOOLEAN]
      BY DEF StreamerInit
    <2>2. down = <<>> /\ up = <<>> /\ Len(down) = 0 /\ Len(up) = 0 /\ down \in Seq(Asks) /\ up \in Seq(Tells)
      BY DEF StreamerInit
    <2>3. 0 <= PipeCap + Bit(wsLoop = "done") + Bit(relay.warned) /\ 0 <= PipeCap
      BY SessionSizes DEF Bit
    <2>4. ws \in {"open", "closed"} /\ child \in {"up", "crashed", "exited", "killed"}
      BY DEF StreamerInit
    <2> QED
      BY <2>1, <2>2, <2>3, <2>4 DEF PipesInv
  <1>2. TransportsInv /\ OneStart
    BY SessionSizes DEF StreamerInit, TransportsInv, OneStart, Each, IdleIpc, Happenings, ListenerPlaces,
       IpcPlaces, StartPlaces
  <1>3. TimersInv
    <2>1. Cardinality(DoneIds) \in Nat /\ Bit(start = "done") \in Nat
      BY DoneFinite DEF Bit
    <2>2. timers \in Seq(0 .. Due) /\ Len(timers) = 0
      BY DEF StreamerInit
    <2> QED
      BY <2>1, <2>2, SessionSizes DEF StreamerInit, TimersInv
  <1>4. ReasonInv
    BY DEF StreamerInit, ReasonInv, Each
  <1> QED
    BY <1>1, <1>2, <1>3, <1>4 DEF StreamerInv

LEMMA SessionSteps == StreamerInv /\ [StreamerNext]_streamerVars => StreamerInv'
  <1>1. ASSUME StreamerInv, UNCHANGED streamerVars PROVE StreamerInv'
    <2>1. UNCHANGED <<ws, wsLoop, relay, down, up, child, ipc, sender, lock, ev, lis, start, media, host,
                      stop, cause, timing>>
      BY <1>1 DEF streamerVars, server, pipes, transports, starting, stopping
    <2>2. PipesInv' /\ TransportsInv'
      BY <1>1, <2>1 DEF StreamerInv, PipesInv, TransportsInv
    <2>3. TimersInv'
      BY <1>1, <2>1, TimersKept DEF timing, StreamerInv
    <2>4. OneStart'
      BY <1>1, <2>1, OneStartKept DEF StreamerInv
    <2>5. ReasonInv'
      BY <1>1, <2>1, ReasonKept DEF StreamerInv
    <2> QED
      BY <2>2, <2>3, <2>4, <2>5 DEF StreamerInv
  <1>2. ASSUME StreamerInv, StreamerNext PROVE StreamerInv'
    <2>1. 1 \in Ids /\ "ipc" \in {"ipc", "terminated"}
      BY SessionSizes DEF Ids
    <2>2. CASE Client \/ WsLoopEnds \/ Relay \/ Crash
      BY <1>2, <2>1, <2>2, QuietStep, ClientSendsStep, WsLoopStep, RelayStep, DeathStep DEF Client, Relay
    <2>3. CASE StopCloses \/ StopFinishes \/ MainSendsSetup \/ MainExits \/ TimeoutTick \/ TimerFires
      BY <1>2, <2>1, <2>3, QuietStep, StopFinishStep, SetupStep, DeathStep, TickStep, TimerStep
    <2>4. CASE IpcTask \/ IpcBlocks \/ IpcClosesOld
      BY <1>2, <2>1, <2>4, QuietStep, IpcRecvStep, DeliverStep DEF IpcTask
    <2>5. ASSUME NEW k \in Kinds, IpcInstalls(k) PROVE StreamerInv'
      BY <1>2, <2>5, InstallStep
    <2>6. ASSUME NEW i \in Ids,
                 Listener(i) \/ PeerCloses(i) \/ \E m \in {"packet", "quit"} : DataChannelPacket(i, m)
          PROVE  StreamerInv'
      BY <1>2, <2>1, <2>6, QuietStep, ListenerStep, StoppingStep, ClosedStep, ChannelStep DEF Listener
    <2>7. CASE StartTask \/ StartReadsEpoch \/ StartCompletes
      BY <1>2, <2>1, <2>7, QuietStep, ClearsStep, StoppingStep, CompletesStep DEF StartTask
    <2>8. ASSUME NEW m \in {"ipc", "terminated"}, MediaSends(m) \/ MediaBlocks(m) PROVE StreamerInv'
      BY <1>2, <2>1, <2>8, QuietStep, MediaStep
    <2>9. CASE MediaGivesUp \/ HostTerminates \/ HostCallsStop
      BY <1>2, <2>1, <2>9, QuietStep, SetupStep, StoppingStep
    <2> QED
      BY <1>2, <2>2, <2>3, <2>4, <2>5, <2>6, <2>7, <2>8, <2>9 DEF StreamerNext
  <1> QED
    BY <1>1, <1>2

LEMMA SessionInductive == StreamerSpec => []StreamerInv
  <1> QED
    BY SessionStarts, SessionSteps, PTL DEF StreamerSpec

\* The queues, pipes and timers of a session keep their bounds, and a client whose
\* session ends because the stream was terminated learns the reason before its
\* socket closes, for any number of transports and any capacities
\* (start_host's relay, StreamConnection::stop).
THEOREM ReasonFirst == StreamerSpec => []StreamerOrdered
  <1>1. StreamerInv => StreamerOrdered
    <2> SUFFICES ASSUME StreamerInv PROVE StreamerOrdered
      OBVIOUS
    <2>1. Len(down) <= PipeCap + 2
      <3>1. Bit(wsLoop = "done") \in 0 .. 1 /\ Bit(relay.warned) \in 0 .. 1 /\ Len(down) \in Nat
        BY DEF Bit, StreamerInv, PipesInv
      <3> QED
        BY <3>1, SessionSizes DEF StreamerInv, PipesInv
    <2>2. Len(timers) <= MaxTransports + 1
      <3>1. Bit(start = "done") \in 0 .. 1 /\ Len(timers) \in Nat
        BY DEF Bit, StreamerInv, TimersInv
      <3> QED
        BY <3>1, DoneFinite, SessionSizes DEF StreamerInv, TimersInv
    <2>3. StreamerTypeOK
      BY <2>1, <2>2 DEF StreamerInv, PipesInv, TransportsInv, TimersInv, StreamerTypeOK
    <2>4. ReasonBeforeClose
      BY DEF StreamerInv, ReasonInv, ReasonBeforeClose
    <2> QED
      BY <2>3, <2>4 DEF StreamerOrdered
  <1> QED
    BY <1>1, SessionInductive, PTL

\* Unless the request came late, nobody chooses a transport and none is open
\* while it stands, and it is no older than the time without one.
DeafInv ==
    /\ deaf \in 0 .. Due /\ open \in [Ids -> BOOLEAN]
    /\ request # None /\ ~late => ~Choosing /\ ~Connected /\ request <= deaf

\* Steps that leave the timers alone and open no transport.
LEMMA DeafKept ==
    ASSUME DeafInv, UNCHANGED timing, Choosing' => Choosing, Connected' => Connected,
           open' \in [Ids -> BOOLEAN]
    PROVE  DeafInv'
  BY SessionSizes DEF DeafInv, timing, Due, None

\* A request withdrawn, and one made for transport i.
LEMMA DeafCleared ==
    ASSUME DeafInv, request' = None, deaf' \in {0, deaf}, open' \in [Ids -> BOOLEAN]
    PROVE  DeafInv'
  BY SessionSizes DEF DeafInv, Due, None

LEMMA DeafAsked ==
    ASSUME DeafInv, NEW i, RequestTerminate(i), UNCHANGED <<ipc, sender, open>>, i = 0 \/ ~open[i]
    PROVE  DeafInv'
  <1>1. deaf' = deaf /\ request' = 0 /\ late' = (Choosing \/ sender \notin {0, i})
    BY DEF RequestTerminate
  <1>2. ~late' => ~Choosing' /\ ~Connected'
    BY <1>1 DEF Choosing, Connected
  <1> QED
    BY <1>1, <1>2, SessionSizes DEF DeafInv, Due

\* Time passes: request and silence grow together.
LEMMA DeafTick ==
    ASSUME DeafInv, TimersInv, TimeoutTick
    PROVE  DeafInv'
  <1>1. /\ request' = IF request = None THEN None ELSE Least(request + 1, Due)
        /\ deaf' = IF Connected THEN 0 ELSE Least(deaf + 1, Due)
        /\ UNCHANGED <<late, ipc, sender, open>>
    BY DEF TimeoutTick, transports
  <1>2. Choosing' = Choosing /\ Connected' = Connected
    BY <1>1 DEF Choosing, Connected
  <1>3. deaf' \in 0 .. Due
    BY <1>1, SessionSizes DEF DeafInv, Least
  <1>4. ASSUME request # None, ~late, ~Connected, request <= deaf
        PROVE  request' <= deaf'
    BY <1>1, <1>4, SessionSizes DEF DeafInv, TimersInv, Least
  <1>5. request' # None => request # None
    BY <1>1
  <1> QED
    BY <1>1, <1>2, <1>3, <1>4, <1>5 DEF DeafInv

\* A transport is installed only after SetTransport withdrew the request.
LEMMA DeafInstalls ==
    ASSUME DeafInv, NEW k, IpcInstalls(k)
    PROVE  DeafInv'
  <1>1. Choosing /\ UNCHANGED <<request, late>> /\ deaf' = 0 /\ open' = [open EXCEPT ![NextTransport] = TRUE]
    BY DEF IpcInstalls, Choosing
  <1>2. request' = None \/ late'
    BY <1>1 DEF DeafInv
  <1>3. deaf' \in 0 .. Due
    BY <1>1, SessionSizes
  <1>4. PICK n : n = NextTransport
    OBVIOUS
  <1>5. open \in [Ids -> BOOLEAN] /\ open' = [open EXCEPT ![n] = TRUE]
    BY <1>1, <1>4 DEF DeafInv
  <1>6. open' \in [Ids -> BOOLEAN]
    BY <1>5
  <1> QED
    BY <1>2, <1>3, <1>6 DEF DeafInv, None, Due

LEMMA DeafStep == StreamerInv /\ DeafInv /\ [StreamerNext]_streamerVars => DeafInv'
  <1> SUFFICES ASSUME StreamerInv, DeafInv, [StreamerNext]_streamerVars PROVE DeafInv'
    OBVIOUS
  <1>0. TransportsInv /\ TimersInv /\ open \in [Ids -> BOOLEAN]
    BY DEF StreamerInv, DeafInv
  <1>1. CASE UNCHANGED streamerVars
    BY <1>0, <1>1, DeafKept DEF streamerVars, transports, Choosing, Connected
  <1>2. CASE \/ ClientCloses \/ (\E m \in {"set", "start", "packet", "quit"} : ClientSends(m)) \/ WsLoopEnds
             \/ RelayForwards \/ RelayEnds \/ StopFinishes \/ MainSendsSetup
             \/ (\E i \in Ids : \/ ListenerRelays(i) \/ ListenerCallsStop(i) \/ ListenerStarts(i) \/ ListenerPacket(i)
                                \/ ListenerResumes(i) \/ \E m \in {"packet", "quit"} : DataChannelPacket(i, m))
             \/ StartConnects \/ StartStores \/ StartFails \/ StartReadsEpoch
             \/ (\E m \in {"ipc", "terminated"} : MediaSends(m) \/ MediaBlocks(m)) \/ MediaGivesUp
             \/ HostTerminates \/ HostCallsStop
    <2>1. UNCHANGED <<timing, ipc, sender, open>>
      BY <1>2 DEF ClientCloses, ClientSends, WsLoopEnds, RelayForwards, RelayEnds, StopFinishes, MainSendsSetup,
         ListenerRelays, ListenerCallsStop, ListenerStarts, ListenerPacket, ListenerResumes, DataChannelPacket,
         StartConnects, StartStores, StartFails, StartReadsEpoch, MediaSends, MediaBlocks, MediaGivesUp,
         HostTerminates, HostCallsStop, transports
    <2> QED
      BY <1>0, <2>1, DeafKept DEF Choosing, Connected
  <1>3. CASE StopCloses \/ IpcClosesOld
    <2>1. sender' = 0 /\ UNCHANGED timing /\ open' \in [Ids -> BOOLEAN]
      BY <1>0, <1>3 DEF StopCloses, IpcClosesOld
    <2>2. Choosing' => Choosing
      BY <1>3 DEF StopCloses, IpcClosesOld, Choosing
    <2> QED
      BY <2>1, <2>2, DeafKept DEF Connected
  <1>4. CASE \E i \in Ids : PeerCloses(i)
    <2> PICK i \in Ids : PeerCloses(i)
      BY <1>4
    <2>1. UNCHANGED <<timing, ipc, sender>> /\ open' = [open EXCEPT ![i] = FALSE] /\ open[i]
      BY DEF PeerCloses
    <2>2. open' \in [Ids -> BOOLEAN] /\ \A j \in Ids : open'[j] => open[j]
      BY <1>0, <2>1
    <2>3. Connected' => Connected
      BY <1>0, <2>1, <2>2, SessionSizes DEF Connected, TransportsInv, Ids
    <2> QED
      BY <2>1, <2>2, <2>3, DeafKept DEF Choosing
  <1>5. CASE RelayCloses \/ Crash \/ MainExits
    <2>1. UNCHANGED <<timing, ipc, sender, open>> \/ (request' = None /\ deaf' = 0 /\ open' = Each(FALSE))
      BY <1>5 DEF RelayCloses, Crash, MainExits, Dies, transports
    <2>2. CASE UNCHANGED <<timing, ipc, sender, open>>
      BY <1>0, <2>2, DeafKept DEF Choosing, Connected
    <2>3. Each(FALSE) \in [Ids -> BOOLEAN]
      BY DEF Each
    <2> QED
      BY <2>1, <2>2, <2>3, DeafCleared
  <1>6. CASE TimeoutTick
    BY <1>0, <1>6, DeafTick
  <1>7. CASE TimerFires
    <2>1. UNCHANGED <<request, deaf, late, ipc, sender, open>>
      BY <1>7 DEF TimerFires, transports
    <2> QED
      BY <2>1, SessionSizes DEF DeafInv, Choosing, Connected, Due, None
  <1>8. CASE IpcRecv
    <2>1. /\ UNCHANGED <<sender, open>>
          /\ \/ ClearTerminateRequest
             \/ UNCHANGED timing /\ ipc'.pc \in {"instop", "dispatch"}
      BY <1>8 DEF IpcRecv, transports
    <2>2. CASE ClearTerminateRequest
      BY <1>0, <2>1, <2>2, DeafCleared DEF ClearTerminateRequest
    <2> QED
      BY <1>0, <2>1, <2>2, DeafKept DEF Choosing, Connected
  <1>9. CASE IpcEnds \/ IpcInstallFails \/ IpcDelivers \/ IpcBlocks
    <2>1. UNCHANGED <<timing, sender, open>> /\ ipc'.pc \in {"done", "recv", "send"}
      BY <1>0, <1>9 DEF IpcEnds, IpcInstallFails, IpcDelivers, IpcBlocks, IdleIpc, TransportsInv, transports
    <2> QED
      BY <1>0, <2>1, DeafKept DEF Choosing, Connected
  <1>10. CASE \E k \in Kinds : IpcInstalls(k)
    BY <1>10, DeafInstalls
  <1>11. CASE \E i \in Ids : ListenerClosed(i)
    <2> PICK i \in Ids : ListenerClosed(i)
      BY <1>11
    <2>1. RequestTerminate(i) /\ UNCHANGED <<ipc, sender, open>> /\ ~open[i]
      BY DEF ListenerClosed
    <2> QED
      BY <2>1, DeafAsked
  <1>12. CASE StartClears
    BY <1>0, <1>12, DeafCleared DEF StartClears, ClearTerminateRequest, transports
  <1>13. CASE StartCompletes
    <2>1. UNCHANGED <<ipc, sender, open>> /\ (RequestTerminate(0) \/ UNCHANGED timing)
      BY <1>13 DEF StartCompletes
    <2>2. CASE UNCHANGED timing
      BY <1>0, <2>1, <2>2, DeafKept DEF Choosing, Connected
    <2> QED
      BY <2>1, <2>2, DeafAsked
  <1> QED
    BY <1>1, <1>2, <1>3, <1>4, <1>5, <1>6, <1>7, <1>8, <1>9, <1>10, <1>11, <1>12, <1>13
    DEF StreamerNext, Client, Relay, IpcTask, Listener, StartTask

\* Of all callers of stop() the timer alone gives the timeout for its reason.
LEMMA EarnedStep ==
    ASSUME StreamerInv, DeafInv, [StreamerNext]_streamerVars, cause # "timeout", cause' = "timeout"
    PROVE  late \/ (~Connected /\ deaf > Timeout)
  <1>1. ~UNCHANGED cause
    OBVIOUS
  <1>2. ~UNCHANGED stopping /\ ~UNCHANGED streamerVars
    BY <1>1 DEF stopping, streamerVars
  <1>3. \A who, why : CallStop(who, why) => why = "timeout"
    BY <1>1, <1>2 DEF CallStop
  <1>4. TimerFires
    BY <1>1, <1>2, <1>3
       DEF StreamerNext, Client, Relay, IpcTask, Listener, StartTask, ClientCloses, ClientSends, WsLoopEnds,
           RelayForwards, RelayEnds, RelayCloses, Crash, MainExits, Dies, StopCloses, StopFinishes, MainSendsSetup,
           TimeoutTick, IpcRecv, IpcEnds, IpcInstallFails, IpcDelivers, IpcBlocks, IpcClosesOld, IpcInstalls,
           ListenerRelays, ListenerCallsStop, ListenerStarts, ListenerPacket, ListenerResumes, ListenerClosed,
           PeerCloses, DataChannelPacket, StartClears, StartConnects, StartStores, StartFails, StartReadsEpoch,
           StartCompletes, MediaSends, MediaBlocks, MediaGivesUp, HostTerminates, HostCallsStop
  <1>5. request # None /\ request > Timeout
    BY <1>2, <1>4 DEF TimerFires
  <1> QED
    BY <1>5, SessionSizes DEF StreamerInv, TimersInv, DeafInv

LEMMA DeafInductive == StreamerSpec => []DeafInv
  <1>1. StreamerInit => DeafInv
    BY SessionSizes DEF StreamerInit, DeafInv, Due, None, Each
  <1> QED
    BY <1>1, DeafStep, SessionInductive, PTL DEF StreamerSpec

\* A terminate timer ends a session only when it has been without an open
\* transport for the whole timeout, however many timers are left asleep from
\* earlier transports, unless an earlier transport's close was reported after
\* the next had been chosen (request_terminate, clear_terminate_request).
THEOREM EndsForItsReason == StreamerSpec => StopEarned
  <1>1. StreamerInv /\ DeafInv /\ [StreamerNext]_streamerVars =>
          [(cause # "timeout" /\ cause' = "timeout") => late \/ (~Connected /\ deaf > Timeout)]_streamerVars
    BY EarnedStep
  <1> QED
    BY <1>1, SessionInductive, DeafInductive, PTL DEF StreamerSpec, StopEarned

(***************************************************************************)
(* The clipboards.  Every message is paid for in advance: each side owes   *)
(* at most one message, and comes to owe it only by a copy or a mishap.    *)
(* The host owes one for a text its watcher has not looked at yet; the     *)
(* browser for the text its clipboard will end up with.                    *)
(***************************************************************************)

TabQuiet == tab.pending = NoText /\ tab.writes = <<>>

\* The text left once every write has settled.
FinalText ==
    IF tab.pending # NoText THEN tab.pending
    ELSE IF tab.writes # <<>> THEN tab.writes[Len(tab.writes)] ELSE tab.text

HostOwes == ~watcher.seen /\ Decodes(hostClip) /\ hostClip \notin {watcher.sent, watcher.applied}

TabOwes ==
    \/ TabQuiet /\ Decodes(tab.text) /\ tab.text \notin {tab.sent, tab.applied}
    \/ ~TabQuiet /\ FinalText # tab.applied
    \/ tab.focus /\ tab.pending # NoText

WatcherRecords ==
    [st : {"run", "gone"}, sink : {"wait", "ready"}, seen : BOOLEAN, sent : Nat, applied : Nat, fails : Nat]
TabRecords ==
    [text : Nat, focus : BOOLEAN, pending : Nat, sent : Nat, applied : Nat, off : BOOLEAN, writes : Seq(Nat),
     reading : BOOLEAN]

ClipTypes ==
    /\ watcher \in WatcherRecords
    /\ tab \in TabRecords
    /\ hostClip \in Nat /\ toClient \in Seq(Nat) /\ toHost \in Seq(Nat)
    /\ copies \in Nat /\ sends \in Nat /\ mishaps \in Nat

PaidInv == sends + Bit(HostOwes) + Bit(TabOwes) <= 1 + copies + mishaps

ClipInv == ClipTypes /\ PaidInv /\ PublishedUnlessMissed

\* The account when only one side is touched.
LEMMA HostAccount ==
    ASSUME ClipTypes, PaidInv, UNCHANGED <<tab, copies>>,
           \/ UNCHANGED <<sends, mishaps>> /\ (HostOwes' => HostOwes)
           \/ UNCHANGED sends /\ mishaps' = mishaps + 1
           \/ UNCHANGED mishaps /\ sends' = sends + 1 /\ HostOwes /\ ~HostOwes'
    PROVE  PaidInv'
  <1>1. copies \in Nat /\ mishaps \in Nat /\ sends \in Nat /\ Bit(TabOwes') = Bit(TabOwes) /\ Bit(TabOwes) \in 0 .. 1
    BY DEF ClipTypes, TabOwes, TabQuiet, FinalText, Bit
  <1>2. Bit(HostOwes) \in 0 .. 1 /\ Bit(HostOwes') \in 0 .. 1
    BY DEF Bit
  <1>3. CASE UNCHANGED <<sends, mishaps>> /\ (HostOwes' => HostOwes)
    <2>1. Bit(HostOwes') <= Bit(HostOwes)
      BY <1>3 DEF Bit
    <2> QED
      BY <1>1, <1>2, <1>3, <2>1 DEF PaidInv
  <1>4. CASE UNCHANGED sends /\ mishaps' = mishaps + 1
    BY <1>1, <1>2, <1>4 DEF PaidInv
  <1>5. CASE UNCHANGED mishaps /\ sends' = sends + 1 /\ HostOwes /\ ~HostOwes'
    <2>1. Bit(HostOwes) = 1 /\ Bit(HostOwes') = 0
      BY <1>5 DEF Bit
    <2>2. mishaps' = mishaps /\ sends' = sends + 1 /\ copies' = copies
      BY <1>5
    <2>3. sends + 1 + Bit(TabOwes) <= 1 + copies + mishaps
      BY <1>1, <2>1 DEF PaidInv
    <2>4. sends' + Bit(HostOwes') + Bit(TabOwes') <= 1 + copies' + mishaps'
      BY <1>1, <2>1, <2>2, <2>3
    <2> QED
      BY <2>4 DEF PaidInv
  <1> QED
    BY <1>3, <1>4, <1>5

LEMMA TabAccount ==
    ASSUME ClipTypes, PaidInv, UNCHANGED <<hostClip, watcher>>,
           \/ UNCHANGED <<sends, copies, mishaps>> /\ (TabOwes' => TabOwes)
           \/ UNCHANGED <<sends, copies>> /\ mishaps' = mishaps + 1
           \/ UNCHANGED <<sends, mishaps>> /\ copies' = copies + 1
           \/ UNCHANGED copies /\ sends' = sends + 1 /\ mishaps' = mishaps + 1 /\ (TabOwes' => TabOwes)
           \/ UNCHANGED <<copies, mishaps>> /\ sends' = sends + 1 /\ TabOwes /\ ~TabOwes'
    PROVE  PaidInv'
  <1>1. copies \in Nat /\ mishaps \in Nat /\ sends \in Nat /\ Bit(HostOwes') = Bit(HostOwes) /\ Bit(HostOwes) \in 0 .. 1
    BY DEF ClipTypes, HostOwes, Bit
  <1>2. Bit(TabOwes) \in 0 .. 1 /\ Bit(TabOwes') \in 0 .. 1
    BY DEF Bit
  <1>3. CASE TabOwes' => TabOwes
    <2>1. Bit(TabOwes') <= Bit(TabOwes)
      BY <1>3 DEF Bit
    <2>2. TabOwes /\ ~TabOwes' => Bit(TabOwes) = 1 /\ Bit(TabOwes') = 0
      BY DEF Bit
    <2> QED
      BY <1>1, <1>2, <2>1, <2>2 DEF PaidInv
  <1>4. CASE \/ UNCHANGED <<sends, copies>> /\ mishaps' = mishaps + 1
             \/ UNCHANGED <<sends, mishaps>> /\ copies' = copies + 1
    BY <1>1, <1>2, <1>4 DEF PaidInv
  <1> QED
    BY <1>3, <1>4

LEMMA ClipStarts == ClipInit => ClipInv
  <1> USE DEF WatcherRecords, TabRecords
  <1> SUFFICES ASSUME ClipInit PROVE ClipInv
    OBVIOUS
  <1>1. hostClip \in Nat
    BY ClipboardAssumption DEF ClipInit, NoText
  <1>2. ClipTypes
    BY <1>1 DEF ClipInit, ClipTypes, NewWatcher, NewTab, NoText
  <1>3. PaidInv
    <2>1. ~TabOwes
      BY DEF ClipInit, NewTab, TabOwes, TabQuiet, Decodes
    <2>2. Bit(TabOwes) = 0 /\ Bit(HostOwes) \in 0 .. 1
      BY <2>1 DEF Bit
    <2> QED
      BY <2>2 DEF ClipInit, PaidInv
  <1>4. PublishedUnlessMissed
    BY DEF ClipInit, NewWatcher, PublishedUnlessMissed
  <1> QED
    BY <1>2, <1>3, <1>4 DEF ClipInv

\* The steps of the watcher and of the user of the host.
LEMMA WatcherSteps ==
    ASSUME ClipInv,
           SinkOpens \/ Restart \/ WatcherTick \/ WatcherApplies
    PROVE  ClipInv'
  <1> USE DEF WatcherRecords, TabRecords
  <1>1. ClipTypes /\ UNCHANGED <<tab, copies>>
    BY DEF ClipInv, SinkOpens, Restart, WatcherTick, WatcherApplies
  <1>2. CASE SinkOpens
    <2>1. /\ watcher' \in WatcherRecords
          /\ watcher'.st = watcher.st /\ watcher'.seen = watcher.seen /\ watcher'.sent = watcher.sent
          /\ watcher'.applied = watcher.applied
          /\ UNCHANGED <<hostClip, toClient, toHost, tab, copies, sends, mishaps, missed>>
      BY <1>1, <1>2 DEF SinkOpens, ClipTypes
    <2>2. ClipTypes'
      BY <1>1, <2>1 DEF ClipTypes
    <2>3. HostOwes' => HostOwes
      BY <2>1 DEF HostOwes, Decodes, ExceedsCap
    <2>4. PaidInv'
      BY <1>1, <2>1, <2>3, HostAccount DEF ClipInv
    <2>5. PublishedUnlessMissed'
      BY <2>1 DEF ClipInv, PublishedUnlessMissed, Decodes, ExceedsCap
    <2> QED
      BY <2>2, <2>4, <2>5 DEF ClipInv
  <1>3. CASE Restart
    <2>1. /\ watcher' = NewWatcher /\ toClient' = <<>> /\ toHost' = <<>> /\ mishaps' = mishaps + 1
          /\ UNCHANGED <<hostClip, tab, copies, sends>>
      BY <1>3 DEF Restart, Mishap
    <2>2. ClipTypes'
      BY <1>1, <2>1 DEF ClipTypes, NewWatcher, NoText
    <2>3. PaidInv'
      BY <1>1, <2>1, HostAccount DEF ClipInv
    <2>4. PublishedUnlessMissed'
      BY <2>1 DEF PublishedUnlessMissed, NewWatcher
    <2> QED
      BY <2>2, <2>3, <2>4 DEF ClipInv
  <1>4. CASE WatcherTick
    <2>1. /\ watcher.seen = FALSE /\ watcher'.seen /\ UNCHANGED <<hostClip, toHost>>
          /\ watcher' \in WatcherRecords
      <3>1. watcher \in WatcherRecords
            /\ hostClip \in Nat /\ watcher.fails + 1 \in Nat /\ 0 \in Nat
        BY <1>1 DEF ClipTypes
      <3> QED
        BY <1>4, <3>1, Zenon DEF WatcherTick
    <2>2. \/ /\ UNCHANGED <<toClient, sends>> /\ mishaps' = mishaps + 1 /\ missed'
          \/ /\ UNCHANGED <<toClient, sends, mishaps, missed>>
             /\ watcher' = [watcher EXCEPT !.seen = TRUE]
             /\ hostClip = NoText \/ ~ShouldPublish(hostClip) \/ ExceedsCap(hostClip)
          \/ /\ toClient' = Append(toClient, hostClip) /\ sends' = sends + 1
             /\ hostClip # NoText /\ ShouldPublish(hostClip) /\ ~ExceedsCap(hostClip)
             /\ UNCHANGED <<mishaps, missed>> /\ watcher'.sent = hostClip
      <3>1. watcher \in WatcherRecords
        BY <1>1 DEF ClipTypes
      <3> QED
        BY <1>4, <3>1, Zenon DEF WatcherTick, Mishap
    <2>3. ClipTypes'
      <3>1. toClient \in Seq(Nat) /\ toHost \in Seq(Nat) /\ hostClip \in Nat /\ sends \in Nat /\ mishaps \in Nat /\ copies \in Nat
        BY <1>1 DEF ClipTypes
      <3>2. toClient' \in Seq(Nat) /\ sends' \in Nat /\ mishaps' \in Nat
        <4>1. Append(toClient, hostClip) \in Seq(Nat) /\ sends + 1 \in Nat /\ mishaps + 1 \in Nat
          BY <3>1
        <4> QED
          BY <2>2, <3>1, <4>1, Zenon
      <3>3. tab' = tab /\ hostClip' = hostClip /\ toHost' = toHost /\ copies' = copies
        BY <1>1, <2>1
      <3> QED
        BY <1>1, <2>1, <3>1, <3>2, <3>3, Zenon DEF ClipTypes
    <2>4. ~HostOwes'
      BY <2>1 DEF HostOwes
    <2>5. PaidInv'
      <3>1. hostClip # NoText /\ ShouldPublish(hostClip) /\ ~ExceedsCap(hostClip) => HostOwes
        BY <2>1 DEF HostOwes, ShouldPublish, Decodes
      <3> QED
        BY <1>1, <2>2, <2>4, <3>1, HostAccount DEF ClipInv
    <2>6. PublishedUnlessMissed'
      <3>1. CASE missed' /\ mishaps' = mishaps + 1
        BY <3>1 DEF PublishedUnlessMissed
      <3>2. CASE /\ watcher' = [watcher EXCEPT !.seen = TRUE]
                 /\ hostClip = NoText \/ ~ShouldPublish(hostClip) \/ ExceedsCap(hostClip)
        <4>1. watcher'.sent = watcher.sent /\ watcher'.applied = watcher.applied
          BY <1>1, <3>2 DEF ClipTypes
        <4> QED
          BY <2>1, <3>2, <4>1 DEF PublishedUnlessMissed, Decodes, ShouldPublish, ExceedsCap
      <3>3. CASE watcher'.sent = hostClip
        BY <2>1, <3>3 DEF PublishedUnlessMissed
      <3> QED
        BY <2>2, <3>1, <3>2, <3>3
    <2> QED
      BY <2>3, <2>5, <2>6 DEF ClipInv
  <1>5. CASE WatcherApplies
    <2>1. toHost # <<>> /\ toHost' = Tail(toHost) /\ toHost \in Seq(Nat) /\ UNCHANGED <<toClient, tab, copies, sends>>
      BY <1>1, <1>5 DEF WatcherApplies, ClipTypes
    <2>2. toHost' \in Seq(Nat) /\ Head(toHost) \in Nat
      BY <2>1
    <2>3. CASE ~Decodes(Head(toHost))
      <3>1. UNCHANGED <<hostClip, watcher, mishaps, missed>>
        BY <1>5, <2>3 DEF WatcherApplies
      <3>2. ClipTypes'
        BY <1>1, <2>1, <2>2, <3>1 DEF ClipTypes
      <3>3. HostOwes' => HostOwes
        BY <3>1 DEF HostOwes, Decodes, ExceedsCap
      <3>4. PaidInv'
        BY <1>1, <2>1, <3>1, <3>3, HostAccount DEF ClipInv
      <3>5. PublishedUnlessMissed'
        BY <3>1 DEF ClipInv, PublishedUnlessMissed, Decodes, ExceedsCap
      <3> QED
        BY <3>2, <3>4, <3>5 DEF ClipInv
    <2>4. CASE Decodes(Head(toHost))
      <3>1. watcher \in WatcherRecords
        BY <1>1 DEF ClipTypes
      <3>2. /\ watcher' \in WatcherRecords
            /\ watcher'.applied = Head(toHost)
            /\ \/ hostClip' = Head(toHost) /\ UNCHANGED mishaps /\ watcher'.seen = FALSE
               \/ /\ hostClip' \in {hostClip, NoText} /\ mishaps' = mishaps + 1
                  /\ hostClip' = hostClip => missed'
        BY <1>5, <2>2, <2>4, <3>1, Zenon DEF WatcherApplies, Remembered, AfterFailedWrite, Mishap
      <3>3. ClipTypes'
        <4>1. hostClip \in Nat /\ mishaps \in Nat /\ mishaps + 1 \in Nat /\ NoText \in Nat
          BY <1>1 DEF ClipTypes, NoText
        <4>2. hostClip' \in Nat /\ mishaps' \in Nat
          BY <2>2, <3>2, <4>1, Zenon
        <4> QED
          BY <1>1, <2>1, <2>2, <3>2, <4>2, Zenon DEF ClipTypes
      <3>4. UNCHANGED mishaps => ~HostOwes'
        <4>1. mishaps # mishaps + 1
          BY <1>1 DEF ClipTypes
        <4> QED
          BY <3>2, <4>1 DEF HostOwes
      <3>5. PaidInv'
        BY <1>1, <2>1, <3>2, <3>4, HostAccount DEF ClipInv
      <3>6. PublishedUnlessMissed'
        BY <3>2 DEF PublishedUnlessMissed, Decodes
      <3> QED
        BY <3>3, <3>5, <3>6 DEF ClipInv
    <2> QED
      BY <2>3, <2>4
  <1> QED
    BY <1>2, <1>3, <1>4, <1>5

LEMMA UserSteps ==
    ASSUME ClipInv, NEW x \in Texts \union {NoText, Oversized}, HostCopies(x) \/ ClientCopies(x)
    PROVE  ClipInv'
  <1> USE DEF WatcherRecords, TabRecords
  <1>1. x \in Nat /\ ClipTypes /\ copies' = copies + 1 /\ UNCHANGED <<toClient, toHost, sends, mishaps>>
    BY ClipboardAssumption DEF NoText, Oversized, ClipInv, HostCopies, ClientCopies
  <1>2. CASE HostCopies(x)
    <2>1. /\ UNCHANGED tab /\ hostClip' = x
          /\ watcher' \in WatcherRecords
          /\ watcher'.seen = FALSE
      BY <1>1, <1>2 DEF HostCopies, ClipTypes
    <2>2. ClipTypes'
      BY <1>1, <2>1 DEF ClipTypes
    <2>3. PaidInv'
      <3>1. Bit(TabOwes') = Bit(TabOwes) /\ Bit(TabOwes) \in 0 .. 1
        BY <2>1 DEF TabOwes, TabQuiet, FinalText, Bit
      <3>2. Bit(HostOwes) \in 0 .. 1 /\ Bit(HostOwes') \in 0 .. 1
        BY DEF Bit
      <3>3. copies \in Nat /\ mishaps \in Nat /\ sends \in Nat
        BY <1>1 DEF ClipTypes
      <3> QED
        BY <1>1, <3>1, <3>2, <3>3 DEF ClipInv, PaidInv
    <2>4. PublishedUnlessMissed'
      BY <2>1 DEF PublishedUnlessMissed
    <2> QED
      BY <2>2, <2>3, <2>4 DEF ClipInv
  <1>3. CASE ClientCopies(x)
    <2>1. /\ UNCHANGED <<hostClip, watcher, missed>>
          /\ tab' \in TabRecords
      BY <1>1, <1>3 DEF ClientCopies, ClipTypes
    <2>2. ClipTypes'
      BY <1>1, <2>1 DEF ClipTypes
    <2>3. PaidInv'
      BY <1>1, <2>1, TabAccount DEF ClipInv
    <2>4. PublishedUnlessMissed'
      BY <2>1 DEF ClipInv, PublishedUnlessMissed, Decodes, ExceedsCap
    <2> QED
      BY <2>2, <2>3, <2>4 DEF ClipInv
  <1> QED
    BY <1>2, <1>3

\* The steps of the browser leave the host alone.
LEMMA TabTypes ==
    ASSUME ClipInv, UNCHANGED <<hostClip, watcher, missed, copies>>,
           tab' \in TabRecords,
           toClient' \in Seq(Nat), toHost' \in Seq(Nat), sends' \in Nat, mishaps' \in Nat, PaidInv'
    PROVE  ClipInv'
  <1> USE DEF WatcherRecords, TabRecords
  <1>1. ClipTypes'
    BY DEF ClipInv, ClipTypes
  <1>2. PublishedUnlessMissed'
    BY DEF ClipInv, PublishedUnlessMissed, Decodes, ExceedsCap
  <1> QED
    BY <1>1, <1>2 DEF ClipInv

LEMMA ReceiveStep ==
    ASSUME ClipInv, ClientReceives
    PROVE  ClipInv'
  <1> USE DEF WatcherRecords, TabRecords
  <1> DEFINE x == Head(toClient)
  <1>1. /\ toClient # <<>> /\ toClient' = Tail(toClient) /\ toClient \in Seq(Nat) /\ ClipTypes
        /\ UNCHANGED <<hostClip, watcher, toHost, copies, sends, mishaps, missed>>
    BY DEF ClientReceives, ClipInv, ClipTypes
  <1>2. toClient' \in Seq(Nat) /\ x \in Nat
    BY <1>1
  <1>3. tab \in TabRecords
    BY <1>1 DEF ClipTypes
  <1>4. tab' = IF Decodes(x) THEN ApplyInbound([tab EXCEPT !.applied = x], x) ELSE tab
    BY DEF ClientReceives
  <1> HIDE DEF x
  <1>5. CASE ~Decodes(x)
    <2>1. tab' = tab
      BY <1>4, <1>5
    <2>2. TabOwes' => TabOwes
      BY <2>1 DEF TabOwes, TabQuiet, FinalText, Decodes, ExceedsCap
    <2>3. PaidInv'
      BY <1>1, <2>2, TabAccount DEF ClipInv
    <2> QED
      BY <1>1, <1>2, <1>3, <2>1, <2>3, TabTypes DEF ClipTypes
  <1>6. CASE Decodes(x) /\ tab.focus
    <2>1. tab' = [[tab EXCEPT !.applied = x] EXCEPT !.writes = Append(tab.writes, x)]
      BY <1>3, <1>4, <1>6 DEF ApplyInbound
    <2>2. /\ tab.writes \in Seq(Nat) /\ Append(tab.writes, x) \in Seq(Nat) /\ Append(tab.writes, x) # <<>>
          /\ Append(tab.writes, x)[Len(Append(tab.writes, x))] = x
      <3>1. tab.writes \in Seq(Nat)
        BY <1>3
      <3>2. /\ Append(tab.writes, x) \in Seq(Nat) /\ Len(Append(tab.writes, x)) = Len(tab.writes) + 1
            /\ Len(tab.writes) \in Nat /\ Append(tab.writes, x)[Len(tab.writes) + 1] = x
        BY <1>2, <3>1, Queued
      <3>3. Append(tab.writes, x) # <<>>
        BY <3>2
      <3> QED
        BY <3>1, <3>2, <3>3
    <2>3. /\ tab'.applied = x /\ tab'.writes = Append(tab.writes, x) /\ tab'.focus = tab.focus
          /\ tab'.pending = tab.pending
          /\ tab' \in TabRecords
      BY <1>2, <1>3, <2>1, <2>2
    <2>4. TabOwes' => TabOwes
      <3>1. CASE tab.pending # NoText
        BY <1>6, <3>1 DEF TabOwes
      <3>2. CASE tab.pending = NoText
        <4>1. tab'.pending = NoText /\ ~TabQuiet' /\ FinalText' = tab'.applied
          BY <2>2, <2>3, <3>2 DEF TabQuiet, FinalText
        <4> QED
          BY <4>1 DEF TabOwes
      <3> QED
        BY <3>1, <3>2
    <2>5. PaidInv'
      BY <1>1, <2>4, TabAccount DEF ClipInv
    <2> QED
      BY <1>1, <1>2, <2>3, <2>5, TabTypes DEF ClipTypes
  <1>7. CASE Decodes(x) /\ ~tab.focus
    <2>1. tab' = [[tab EXCEPT !.applied = x] EXCEPT !.pending = x]
      BY <1>3, <1>4, <1>7 DEF ApplyInbound
    <2>2. /\ tab'.applied = x /\ tab'.writes = tab.writes /\ tab'.focus = tab.focus /\ tab'.pending = x
          /\ tab' \in TabRecords
      BY <1>2, <1>3, <2>1
    <2>3. ~TabOwes'
      BY <1>7, <2>2 DEF TabOwes, TabQuiet, FinalText, Decodes
    <2>4. PaidInv'
      BY <1>1, <2>3, TabAccount DEF ClipInv
    <2> QED
      BY <1>1, <1>2, <2>2, <2>4, TabTypes DEF ClipTypes
  <1> QED
    BY <1>5, <1>6, <1>7

LEMMA WriteStep ==
    ASSUME ClipInv, WriteSettles
    PROVE  ClipInv'
  <1> USE DEF WatcherRecords, TabRecords
  <1>1. /\ UNCHANGED <<hostClip, watcher, toClient, toHost, copies, sends, missed>> /\ ClipTypes
        /\ tab.writes # <<>> /\ toClient \in Seq(Nat) /\ toHost \in Seq(Nat) /\ mishaps \in Nat /\ sends \in Nat
    BY DEF WriteSettles, ClipInv, ClipTypes
  <1>2. tab \in TabRecords /\ tab.writes \in Seq(Nat)
    BY <1>1 DEF ClipTypes
  <1>3. /\ Tail(tab.writes) \in Seq(Nat) /\ Len(Tail(tab.writes)) = Len(tab.writes) - 1
        /\ Len(tab.writes) \in Nat \ {0} /\ Head(tab.writes) = tab.writes[1] /\ Head(tab.writes) \in Nat
        /\ \A n \in 1 .. Len(Tail(tab.writes)) : Tail(tab.writes)[n] = tab.writes[n + 1]
    BY <1>1, <1>2, Taken
  <1>4. CASE tab' = [tab EXCEPT !.writes = Tail(@), !.text = Head(tab.writes)] /\ UNCHANGED mishaps
    <2>1. /\ tab' \in TabRecords
          /\ tab'.writes = Tail(tab.writes) /\ tab'.text = Head(tab.writes) /\ tab'.focus = tab.focus
          /\ tab'.pending = tab.pending /\ tab'.sent = tab.sent /\ tab'.applied = tab.applied
      BY <1>2, <1>3, <1>4, Zenon
    <2>2. FinalText' = FinalText
      <3>1. CASE tab.pending # NoText
        BY <2>1, <3>1 DEF FinalText
      <3>2. CASE tab.pending = NoText /\ Len(tab.writes) = 1
        <4>1. Tail(tab.writes) = <<>>
          <5>1. Len(Tail(tab.writes)) = 0
            BY <1>3, <3>2
          <5> QED
            BY <1>3, <5>1, EmptySeq
        <4> QED
          BY <1>1, <1>3, <2>1, <3>2, <4>1 DEF FinalText
      <3>3. CASE tab.pending = NoText /\ Len(tab.writes) # 1
        <4>1. Tail(tab.writes) # <<>> /\ Len(Tail(tab.writes)) \in 1 .. Len(Tail(tab.writes))
          <5>1. Len(Tail(tab.writes)) \in Nat /\ Len(Tail(tab.writes)) # 0
            BY <1>3, <3>3
          <5>2. Len(<<>>) = 0
            OBVIOUS
          <5>3. Tail(tab.writes) # <<>>
            BY <5>1, <5>2
          <5> QED
            BY <5>1, <5>3
        <4>2. Tail(tab.writes)[Len(Tail(tab.writes))] = tab.writes[Len(tab.writes)]
          BY <1>3, <4>1
        <4> QED
          BY <1>1, <2>1, <3>3, <4>1, <4>2 DEF FinalText
      <3> QED
        BY <3>1, <3>2, <3>3
    <2>3. TabOwes' => TabOwes
      <3>1. ~TabQuiet
        BY <1>1 DEF TabQuiet
      <3>2. TabQuiet' => FinalText' = tab'.text
        BY DEF TabQuiet, FinalText
      <3> QED
        BY <2>1, <2>2, <3>1, <3>2 DEF TabOwes
    <2>4. PaidInv'
      BY <1>1, <1>4, <2>3, TabAccount DEF ClipInv
    <2> QED
      BY <1>1, <1>4, <2>1, <2>4, TabTypes
  <1>5. CASE mishaps' = mishaps + 1 /\ tab' = [tab EXCEPT !.writes = Tail(@), !.pending = Head(tab.writes)]
    <2>1. tab' \in TabRecords
      BY <1>2, <1>3, <1>5, Zenon
    <2>2. PaidInv'
      BY <1>1, <1>5, TabAccount DEF ClipInv
    <2> QED
      BY <1>1, <1>5, <2>1, <2>2, TabTypes
  <1> QED
    BY <1>4, <1>5 DEF WriteSettles, Mishap

LEMMA FocusStep ==
    ASSUME ClipInv, Blur \/ WindowFocus
    PROVE  ClipInv'
  <1> USE DEF WatcherRecords, TabRecords
  <1>1. /\ UNCHANGED <<hostClip, watcher, toClient, toHost, copies, sends, mishaps, missed>> /\ ClipTypes
        /\ toClient \in Seq(Nat) /\ toHost \in Seq(Nat) /\ mishaps \in Nat /\ sends \in Nat
    BY DEF Blur, WindowFocus, ClipInv, ClipTypes
  <1>2. tab \in TabRecords /\ tab.writes \in Seq(Nat)
    BY <1>1 DEF ClipTypes
  <1>3. CASE Blur
    <2>1. /\ tab' \in TabRecords
          /\ tab'.writes = tab.writes /\ tab'.text = tab.text /\ ~tab'.focus
          /\ tab'.pending = tab.pending /\ tab'.sent = tab.sent /\ tab'.applied = tab.applied
      BY <1>2, <1>3 DEF Blur
    <2>2. TabOwes' => TabOwes
      BY <2>1 DEF TabOwes, TabQuiet, FinalText, Decodes, ExceedsCap
    <2>3. PaidInv'
      BY <1>1, <2>2, TabAccount DEF ClipInv
    <2> QED
      BY <1>1, <2>1, <2>3, TabTypes
  <1>4. CASE WindowFocus
    <2>1. /\ tab' \in TabRecords
          /\ tab'.writes = IF tab.pending # NoText THEN Append(tab.writes, tab.pending) ELSE tab.writes
          /\ tab'.text = tab.text /\ tab'.pending = NoText /\ tab'.sent = tab.sent /\ tab'.applied = tab.applied
      <3> DEFINE b == [tab EXCEPT !.focus = TRUE, !.pending = NoText, !.reading = ~tab.off]
      <3>1. NoText \in Nat /\ Append(tab.writes, tab.pending) \in Seq(Nat) /\ (~tab.off) \in BOOLEAN
        BY <1>2 DEF NoText
      <3>2. /\ b \in TabRecords
            /\ b.focus /\ b.pending = NoText /\ b.writes = tab.writes /\ b.text = tab.text /\ b.sent = tab.sent
            /\ b.applied = tab.applied
        BY <1>2, <3>1, Zenon
      <3>3. tab' = IF tab.pending # NoText THEN ApplyInbound(b, tab.pending) ELSE b
        BY <1>4 DEF WindowFocus
      <3> HIDE DEF b
      <3>4. CASE tab.pending = NoText
        BY <3>2, <3>3, <3>4
      <3>5. CASE tab.pending # NoText
        <4>1. tab' = [b EXCEPT !.writes = Append(b.writes, tab.pending)]
          BY <3>2, <3>3, <3>5 DEF ApplyInbound
        <4> QED
          BY <3>1, <3>2, <3>5, <4>1
      <3> QED
        BY <3>4, <3>5
    <2>2. CASE tab.pending = NoText
      <3>1. tab'.writes = tab.writes /\ tab'.pending = tab.pending
        BY <2>1, <2>2
      <3> QED
        <4>1. TabOwes' => TabOwes
          BY <2>1, <2>2, <3>1 DEF TabOwes, TabQuiet, FinalText, Decodes, ExceedsCap
        <4>2. PaidInv'
          BY <1>1, <4>1, TabAccount DEF ClipInv
        <4> QED
          BY <1>1, <2>1, <4>2, TabTypes
    <2>3. CASE tab.pending # NoText
      <3>1. tab.pending \in Nat
        BY <1>2
      <3>2. /\ Len(Append(tab.writes, tab.pending)) = Len(tab.writes) + 1 /\ Len(tab.writes) \in Nat
            /\ Append(tab.writes, tab.pending)[Len(tab.writes) + 1] = tab.pending
        BY <1>2, <3>1, Queued
      <3>3. tab'.writes # <<>> /\ tab'.writes[Len(tab'.writes)] = tab.pending
        BY <2>1, <2>3, <3>2
      <3>4. FinalText' = FinalText /\ ~TabQuiet' /\ ~TabQuiet
        BY <2>1, <2>3, <3>3 DEF FinalText, TabQuiet
      <3>5. TabOwes' => TabOwes
        BY <2>1, <3>4 DEF TabOwes
      <3>6. PaidInv'
        BY <1>1, <3>5, TabAccount DEF ClipInv
      <3> QED
        BY <1>1, <2>1, <3>6, TabTypes
    <2> QED
      BY <2>2, <2>3
  <1> QED
    BY <1>3, <1>4

LEMMA ReadStep ==
    ASSUME ClipInv, ReadSettles
    PROVE  ClipInv'
  <1> USE DEF WatcherRecords, TabRecords
  <1>1. /\ UNCHANGED <<hostClip, watcher, toClient, copies, missed>> /\ ClipTypes
        /\ toClient \in Seq(Nat) /\ toHost \in Seq(Nat) /\ mishaps \in Nat /\ sends \in Nat
    BY DEF ReadSettles, ClipInv, ClipTypes
  <1>2. tab \in TabRecords /\ tab.text \in Nat
    BY <1>1 DEF ClipTypes
  <1>3. CASE /\ tab.text # NoText /\ ClientGuard /\ ~ExceedsCap(tab.text)
             /\ toHost' = Append(toHost, tab.text) /\ sends' = sends + 1
             /\ tab' = [tab EXCEPT !.reading = FALSE, !.sent = tab.text] /\ Overlapped
    <2>1. /\ tab' \in TabRecords
          /\ tab'.writes = tab.writes /\ tab'.text = tab.text /\ tab'.focus = tab.focus
          /\ tab'.pending = tab.pending /\ tab'.sent = tab.text /\ tab'.applied = tab.applied
      BY <1>2, <1>3, Zenon
    <2>2. FinalText' = FinalText /\ (TabQuiet' <=> TabQuiet)
      BY <2>1 DEF FinalText, TabQuiet
    <2>3. toHost' \in Seq(Nat) /\ sends' \in Nat
      BY <1>1, <1>2, <1>3
    <2>4. CASE TabQuiet
      <3>1. mishaps' = mishaps
        BY <1>3, <2>4 DEF Overlapped, TabQuiet
      <3>2. TabOwes
        BY <1>3, <2>4 DEF TabOwes, Decodes, ClientGuard
      <3>3. ~TabOwes'
        BY <2>1, <2>2, <2>4 DEF TabOwes, TabQuiet
      <3>4. PaidInv'
        BY <1>1, <1>3, <3>1, <3>2, <3>3, TabAccount DEF ClipInv
      <3> QED
        BY <1>1, <2>1, <2>3, <3>1, <3>4, TabTypes
    <2>5. CASE ~TabQuiet
      <3>1. mishaps' = mishaps + 1
        BY <1>3, <2>5 DEF Overlapped, TabQuiet, Mishap
      <3>2. TabOwes' => TabOwes
        BY <2>1, <2>2, <2>5 DEF TabOwes
      <3>3. PaidInv'
        BY <1>1, <1>3, <3>1, <3>2, TabAccount DEF ClipInv
      <3> QED
        BY <1>1, <2>1, <2>3, <3>1, <3>3, TabTypes
    <2> QED
      BY <2>4, <2>5
  <1>4. CASE tab' = [tab EXCEPT !.reading = FALSE] /\ UNCHANGED <<toHost, sends, mishaps>>
    <2>1. /\ tab' \in TabRecords
          /\ tab'.writes = tab.writes /\ tab'.text = tab.text /\ tab'.focus = tab.focus
          /\ tab'.pending = tab.pending /\ tab'.sent = tab.sent /\ tab'.applied = tab.applied
      BY <1>2, <1>4
    <2>2. TabOwes' => TabOwes
      BY <2>1 DEF TabOwes, TabQuiet, FinalText, Decodes, ExceedsCap
    <2>3. PaidInv'
      BY <1>1, <1>4, <2>2, TabAccount DEF ClipInv
    <2> QED
      BY <1>1, <1>4, <2>1, <2>3, TabTypes
  <1>5. CASE mishaps' = mishaps + 1 /\ tab' = [tab EXCEPT !.reading = FALSE, !.off = TRUE] /\ UNCHANGED <<toHost, sends>>
    <2>1. tab' \in TabRecords
      BY <1>2, <1>5, Zenon
    <2>2. PaidInv'
      BY <1>1, <1>5, TabAccount DEF ClipInv
    <2> QED
      BY <1>1, <1>5, <2>1, <2>2, TabTypes
  <1> QED
    BY <1>3, <1>4, <1>5 DEF ReadSettles, Mishap

LEMMA ClipSteps == ClipInv /\ [ClipNext]_clipVars => ClipInv'
  <1> USE DEF WatcherRecords, TabRecords
  <1>1. ASSUME ClipInv, UNCHANGED clipVars PROVE ClipInv'
    <2>1. UNCHANGED <<hostClip, watcher, toClient, toHost, tab, copies, sends, mishaps, missed>>
      BY <1>1 DEF clipVars
    <2>2. (HostOwes' <=> HostOwes) /\ (TabOwes' <=> TabOwes)
      BY <2>1 DEF HostOwes, TabOwes, TabQuiet, FinalText, Decodes, ExceedsCap
    <2>3. PaidInv'
      BY <1>1, <2>1, <2>2, TabAccount DEF ClipInv
    <2>4. ClipTypes'
      BY <1>1, <2>1 DEF ClipInv, ClipTypes
    <2>5. PublishedUnlessMissed'
      BY <1>1, <2>1 DEF ClipInv, PublishedUnlessMissed, Decodes, ExceedsCap
    <2> QED
      BY <2>3, <2>4, <2>5 DEF ClipInv
  <1>2. ASSUME ClipInv, ClipNext PROVE ClipInv'
    BY <1>2, WatcherSteps, UserSteps, ReceiveStep, WriteStep, FocusStep, ReadStep DEF ClipNext
  <1> QED
    BY <1>1, <1>2

\* Whatever fails, overlaps or restarts, the two clipboards send no more messages than
\* there were copies and mishaps, and a host text is left out only when reading or
\* sending it failed, for every set of texts and any number of copies and mishaps
\* (clipboard.rs, the browser's clipboard code).
THEOREM NoEcho == ClipSpec => []ClipboardsSettle
  <1> USE DEF WatcherRecords, TabRecords
  <1>1. ClipInv => ClipboardsSettle
    <2> SUFFICES ASSUME ClipInv PROVE ClipboardsSettle
      OBVIOUS
    <2>1. Bit(HostOwes) \in 0 .. 1 /\ Bit(TabOwes) \in 0 .. 1
      BY DEF Bit
    <2>2. NoEchoStorm
      BY <2>1 DEF ClipInv, ClipTypes, PaidInv, NoEchoStorm
    <2> QED
      BY <2>2 DEF ClipInv, ClipboardsSettle
  <1> QED
    BY <1>1, ClipStarts, ClipSteps, PTL DEF ClipSpec

=============================================================================
