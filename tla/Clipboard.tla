----------------------------- MODULE Clipboard ------------------------------
(***************************************************************************)
(* Text clipboard synchronisation: the streamer's watcher task over the     *)
(* host clipboard, the reliable clipboard channel, and the browser, which   *)
(* reads its clipboard when the window gains focus and writes inbound text  *)
(* through promises that may be pending, or fail.                           *)
(*                                                                          *)
(* A text is a number; Oversized is one beyond CLIPBOARD_MAX_LEN and        *)
(* NoText a clipboard without text.  The sequence number of the host        *)
(* clipboard is represented by whether the watcher has seen the current one. *)
(***************************************************************************)
EXTENDS Integers, Sequences

CONSTANTS
    Texts,            \* texts within CLIPBOARD_MAX_LEN
    MaxSendFailures,  \* MAX_SEND_FAILURES
    MaxCopies,        \* bound on copies made by the two users
    MaxMishaps        \* bound on failed reads, writes and sends, overlapping reads and restarts

ASSUME ClipboardAssumption == {MaxSendFailures, MaxCopies, MaxMishaps} \subseteq Nat /\ Texts \subseteq Nat \ {0, 99}

NoText == 0
Oversized == 99

VARIABLES
    hostClip,  \* text of the host clipboard
    watcher,   \* [st, sink, seen, sent, applied, fails]
    toClient, toHost,  \* clipboard messages in flight; toHost is the apply queue too
    tab,       \* the browser: [text, focus, pending, sent, applied, off, writes, reading]
    copies, sends, mishaps,
    missed     \* history: reading, sending or replacing the current host clipboard failed

clipVars == <<hostClip, watcher, toClient, toHost, tab, copies, sends, mishaps, missed>>

NewWatcher == [st |-> "run", sink |-> "wait", seen |-> FALSE, sent |-> NoText, applied |-> NoText, fails |-> 0]
NewTab == [text |-> NoText, focus |-> FALSE, pending |-> NoText, sent |-> NoText, applied |-> NoText,
           off |-> FALSE, writes |-> <<>>, reading |-> FALSE]

ClipInit ==
    /\ hostClip \in Texts \union {NoText} /\ watcher = NewWatcher
    /\ toClient = <<>> /\ toHost = <<>> /\ tab = NewTab
    /\ copies = 0 /\ sends = 0 /\ mishaps = 0 /\ missed = FALSE

Mishap == mishaps < MaxMishaps /\ mishaps' = mishaps + 1

\* ---------------------------------------------------------------- the wire

\* encode_text, and the cap every caller checks before it.
ExceedsCap(x) == x = Oversized

\* decode_text: frames of another kind or beyond the cap are ignored.
Decodes(x) == x # NoText /\ ~ExceedsCap(x)

\* -------------------------------------------------------------- the watcher

\* should_publish: neither the echo of an applied text nor a repetition.
ShouldPublish(x) == x # watcher.applied /\ x # watcher.sent

\* sink.state(): the channel opens, and closes for good; a tick then ends the watcher.
SinkOpens ==
    /\ watcher.sink = "wait" /\ watcher' = [watcher EXCEPT !.sink = "ready"]
    /\ UNCHANGED <<hostClip, toClient, toHost, tab, copies, sends, mishaps, missed>>

\* The transport goes away: the watcher exits, and a new session starts another over an empty channel.
Restart ==
    /\ watcher.sink = "ready" /\ Mishap
    /\ watcher' = NewWatcher /\ toClient' = <<>> /\ toHost' = <<>> /\ missed' = FALSE
    /\ UNCHANGED <<hostClip, tab, copies, sends>>

\* run's tick on a new sequence number: it is marked seen before the clipboard is read, so
\* neither a failed read nor a failed send is tried again.
WatcherTick ==
    /\ watcher.st = "run" /\ watcher.sink = "ready" /\ ~watcher.seen
    /\ \/ /\ Mishap /\ missed' = TRUE                 \* another application holds the clipboard
          /\ watcher' = [watcher EXCEPT !.seen = TRUE]
          /\ UNCHANGED <<toClient, sends>>
       \/ /\ hostClip = NoText \/ ~ShouldPublish(hostClip) \/ ExceedsCap(hostClip)
          /\ watcher' = [watcher EXCEPT !.seen = TRUE] /\ UNCHANGED <<toClient, sends, mishaps, missed>>
       \/ /\ hostClip # NoText /\ ShouldPublish(hostClip) /\ ~ExceedsCap(hostClip)
          /\ \/ /\ toClient' = Append(toClient, hostClip) /\ sends' = sends + 1
                /\ watcher' = [watcher EXCEPT !.seen = TRUE, !.sent = hostClip, !.fails = 0]
                /\ UNCHANGED <<mishaps, missed>>
             \/ /\ Mishap /\ missed' = TRUE
                /\ watcher' = [watcher EXCEPT !.seen = TRUE, !.fails = @ + 1,
                                              !.st = IF watcher.fails + 1 >= MaxSendFailures THEN "gone" ELSE @]
                /\ UNCHANGED <<toClient, sends>>
    /\ UNCHANGED <<hostClip, toHost, tab, copies>>

\* write_clipboard_text fails before or after it emptied the clipboard.
AfterFailedWrite == {hostClip, NoText}

\* What the watcher remembers of an inbound text before it writes it.
Remembered(x) == x

\* run's apply branch.
WatcherApplies ==
    /\ watcher.st = "run" /\ toHost # <<>>
    /\ toHost' = Tail(toHost)
    /\ LET x == Head(toHost)
       IN IF ~Decodes(x) THEN UNCHANGED <<hostClip, watcher, mishaps, missed>>
          ELSE \/ /\ hostClip' = x /\ missed' = FALSE /\ UNCHANGED mishaps
                  /\ watcher' = [watcher EXCEPT !.applied = Remembered(x), !.seen = FALSE]
               \/ \E c \in AfterFailedWrite :
                    /\ Mishap /\ hostClip' = c /\ missed' = (c = hostClip)
                    /\ watcher' = [watcher EXCEPT !.applied = Remembered(x), !.seen = @ /\ c = hostClip]
    /\ UNCHANGED <<toClient, tab, copies, sends>>

\* The user of the host copies a text, or something that is none.
HostCopies(x) ==
    /\ copies < MaxCopies /\ copies' = copies + 1
    /\ hostClip' = x /\ watcher' = [watcher EXCEPT !.seen = FALSE] /\ missed' = FALSE
    /\ UNCHANGED <<toClient, toHost, tab, sends, mishaps>>

\* -------------------------------------------------------------- the browser

ClientCopies(x) ==
    /\ copies < MaxCopies /\ copies' = copies + 1
    /\ tab' = [tab EXCEPT !.text = x]
    /\ UNCHANGED <<hostClip, watcher, toClient, toHost, sends, mishaps, missed>>

\* applyInboundClipboardText: writeText with the focus, otherwise the text waits for it.
ApplyInbound(b, x) ==
    IF b.focus THEN [b EXCEPT !.writes = Append(@, x)] ELSE [b EXCEPT !.pending = x]

\* The clipboard channel's listener.
ClientReceives ==
    /\ toClient # <<>> /\ toClient' = Tail(toClient)
    /\ LET x == Head(toClient)
       IN tab' = IF Decodes(x) THEN ApplyInbound([tab EXCEPT !.applied = x], x) ELSE tab
    /\ UNCHANGED <<hostClip, watcher, toHost, copies, sends, mishaps, missed>>

\* A writeText promise settles, in the order of the calls; a refused one queues its text again,
\* whatever was queued since.
WriteSettles ==
    /\ tab.writes # <<>>
    /\ \/ tab' = [tab EXCEPT !.writes = Tail(@), !.text = Head(tab.writes)] /\ UNCHANGED mishaps
       \/ Mishap /\ tab' = [tab EXCEPT !.writes = Tail(@), !.pending = Head(tab.writes)]
    /\ UNCHANGED <<hostClip, watcher, toClient, toHost, copies, sends, missed>>

Blur ==
    /\ tab.focus /\ tab' = [tab EXCEPT !.focus = FALSE]
    /\ UNCHANGED <<hostClip, watcher, toClient, toHost, copies, sends, mishaps, missed>>

\* onWindowFocusForClipboard starts the deferred write and then a read, which may see the
\* clipboard before the write.
WindowFocus ==
    /\ ~tab.focus
    /\ LET b == [tab EXCEPT !.focus = TRUE, !.pending = NoText, !.reading = ~tab.off]
       IN tab' = IF tab.pending # NoText THEN ApplyInbound(b, tab.pending) ELSE b
    /\ UNCHANGED <<hostClip, watcher, toClient, toHost, copies, sends, mishaps, missed>>

GuardSentOnly == tab.text # tab.sent

\* The browser's mirror of should_publish.
ClientGuard == tab.text # tab.sent /\ tab.text # tab.applied

\* A read that settles while an inbound text is still unwritten sees an older text.
Overlapped == IF tab.pending # NoText \/ tab.writes # <<>> THEN Mishap ELSE UNCHANGED mishaps

\* readText settles; a refusal turns the outbound direction off for the session.
ReadSettles ==
    /\ tab.reading
    /\ \/ /\ tab.text # NoText /\ ClientGuard /\ ~ExceedsCap(tab.text)
          /\ toHost' = Append(toHost, tab.text) /\ sends' = sends + 1
          /\ tab' = [tab EXCEPT !.reading = FALSE, !.sent = tab.text] /\ Overlapped
       \/ /\ tab.text = NoText \/ ~ClientGuard \/ ExceedsCap(tab.text)
          /\ tab' = [tab EXCEPT !.reading = FALSE] /\ UNCHANGED <<toHost, sends, mishaps>>
       \/ Mishap /\ tab' = [tab EXCEPT !.reading = FALSE, !.off = TRUE] /\ UNCHANGED <<toHost, sends>>
    /\ UNCHANGED <<hostClip, watcher, toClient, copies, missed>>

\* --------------------------------------------------------------------- spec

ClipNext ==
    \/ SinkOpens \/ Restart \/ WatcherTick \/ WatcherApplies
    \/ \E x \in Texts \union {NoText, Oversized} : HostCopies(x)
    \/ \E x \in Texts \union {Oversized} : ClientCopies(x)
    \/ ClientReceives \/ WriteSettles \/ Blur \/ WindowFocus \/ ReadSettles

ClipSpec == ClipInit /\ [][ClipNext]_clipVars

\* --------------------------------------------------------------- properties

\* No echo storm: every message is owed to a copy one of the users made (or to the text the
\* session found on the host), or to a mishap of its own: a failed read, write or send, a
\* browser read that overlaps an inbound text still unwritten, or a new watcher that does
\* not know what its predecessor applied.  Two clipboards never keep exchanging texts.
NoEchoStorm == sends <= 1 + copies + mishaps

\* The watcher misses a host text only when reading or sending that very text, or replacing
\* it by an inbound one, failed: with the sink open and the sequence number seen, the text is the one it sent last, the one it
\* applied last, or one beyond the cap.
PublishedUnlessMissed ==
    (watcher.st = "run" /\ watcher.seen /\ Decodes(hostClip))
        => (hostClip \in {watcher.sent, watcher.applied} \/ missed)

\* The two clipboards settle: neither an endless exchange of texts nor a host
\* text silently left out (clipboard.rs watcher, clipboard.ts).
ClipboardsSettle == NoEchoStorm /\ PublishedUnlessMissed

=============================================================================
