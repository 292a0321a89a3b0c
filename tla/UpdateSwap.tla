----------------------------- MODULE UpdateSwap -----------------------------
(***************************************************************************)
(* The updater's `swap' command (tools/updater/src/main.rs::run_swap) and  *)
(* the journalled directory swap it performs (swap.rs).  A run goes        *)
(* through the calls below one by one and may stop at any of them: the     *)
(* process is killed or the call returns an error.  Both leave the disk as *)
(* it is, or the journal half written, and the next run starts over.       *)
(***************************************************************************)
EXTENDS Naturals

CONSTANTS Versions,    \* the set_versions that are published
          TornWrites,  \* whether a write of the journal can be cut short
          MaxStops,    \* bound on the runs that are killed or fail
          MaxSets      \* bound on the sets that are staged

ASSUME SwapAssumption ==
    /\ TornWrites \in BOOLEAN /\ {MaxStops, MaxSets} \subseteq Nat
    /\ {"none", "unknown"} \cap Versions = {}

VARIABLES
    install,   \* the install directory
    staged,    \* the staged and verified directory
    prevs,     \* the directories <install>.prev-<name>, by name and stamp
    journal,   \* <install>.update-journal.json
    run,       \* the run under way: its next step, outgoing_version and prev
    incoming,  \* the version of the manifest the run was given
    stops,     \* runs killed or failed so far
    sets,      \* sets staged so far
    current    \* history: the install the last swap set out to replace

swapVars == <<install, staged, prevs, journal, run, incoming, stops, sets, current>>

\* A directory: the set in it and the version its update-manifest.json names.
Dirs == [set : Versions, tag : Versions \cup {"none"}]
NoSet == [set |-> "none", tag |-> "none"]
Names == Versions \cup {"unknown"}
Prevs == Names \X (0..MaxSets)
NoPrev == <<"unknown", 0>>
Steps == {"recover", "forget", "mark_prev", "rename_prev", "move_staged",
          "mark_moved", "remove_journal", "copy_manifest"}

NoJournal == [phase |-> "none", prev |-> NoPrev]
Torn == [phase |-> "torn", prev |-> NoPrev]
SwapIdle == [pc |-> "idle", outgoing |-> "unknown", prev |-> NoPrev]

SwapInit ==
    /\ install \in {NoSet} \cup { [set |-> v, tag |-> v] : v \in Versions }
    /\ staged = NoSet
    /\ prevs = [p \in Prevs |-> NoSet]
    /\ journal = NoJournal
    /\ run = SwapIdle /\ stops = 0 /\ sets = 0
    /\ incoming \in Versions
    /\ current = install

Exists(d) == d # NoSet
At(pc) == run.pc = pc
Goto(pc) == run' = [run EXCEPT !.pc = pc]

-----------------------------------------------------------------------------
\* The packager or the operator stages a set, with its signed manifest.
Stage ==
    /\ At("idle") /\ ~Exists(staged) /\ sets < MaxSets
    /\ sets' = sets + 1
    /\ incoming' \in Versions
    /\ staged' = [set |-> incoming', tag |-> "none"]
    /\ UNCHANGED <<install, prevs, journal, run, stops, current>>

\* run_swap up to perform_swap.  The installed version is read here, before
\* anything is recovered.
RunSwap ==
    /\ At("idle") /\ Exists(staged)
    /\ run' = [SwapIdle EXCEPT !.pc = "recover",
                           !.outgoing = IF install.tag \in Versions THEN install.tag
                                        ELSE "unknown"]
    /\ UNCHANGED <<install, staged, prevs, journal, incoming, stops, sets, current>>

DecideRecovery == journal.phase = "PrevRenamed" /\ ~Exists(install) /\ Exists(prevs[journal.prev])

\* recover_if_interrupted: a journal that cannot be parsed ends the run.
RecoverIfInterrupted ==
    /\ At("recover")
    /\ \/ /\ journal = Torn
          /\ run' = SwapIdle
          /\ UNCHANGED <<install, prevs>>
       \/ /\ journal # Torn /\ DecideRecovery
          /\ install' = prevs[journal.prev]
          /\ prevs' = [prevs EXCEPT ![journal.prev] = NoSet]
          /\ Goto("forget")
       \/ /\ journal # Torn /\ ~DecideRecovery
          /\ Goto("forget")
          /\ UNCHANGED <<install, prevs>>
    /\ UNCHANGED <<staged, journal, incoming, stops, sets, current>>

\* prev_path: the plain name, or a stamped one that no directory has.
PrevPath(version) ==
    <<version, CHOOSE k \in 0..MaxSets :
                   /\ ~Exists(prevs[<<version, k>>])
                   /\ \A j \in 0..MaxSets : j < k => Exists(prevs[<<version, j>>])>>

\* The journal is removed, and the name for the outgoing set is chosen.
Forget ==
    /\ At("forget")
    /\ journal' = NoJournal
    /\ run' = [run EXCEPT !.pc = "mark_prev", !.prev = PrevPath(run.outgoing)]
    /\ UNCHANGED <<install, staged, prevs, incoming, stops, sets, current>>

WriteJournal(from, to, phase) ==
    /\ At(from)
    /\ journal' = [phase |-> phase, prev |-> run.prev]
    /\ Goto(to)
    /\ UNCHANGED <<install, staged, prevs, incoming, stops, sets>>

MarkPrev == WriteJournal("mark_prev", "rename_prev", "PrevRenamed") /\ current' = install
MarkMoved == WriteJournal("mark_moved", "remove_journal", "StagedMoved") /\ UNCHANGED current

\* rename of a directory refuses a target that exists: the run fails.
RenamePrev ==
    /\ At("rename_prev")
    /\ \/ /\ ~Exists(install)
          /\ Goto("move_staged")
          /\ UNCHANGED <<install, prevs>>
       \/ /\ Exists(install) /\ ~Exists(prevs[run.prev])
          /\ prevs' = [prevs EXCEPT ![run.prev] = install]
          /\ install' = NoSet
          /\ Goto("move_staged")
       \/ /\ Exists(install) /\ Exists(prevs[run.prev])
          /\ run' = SwapIdle
          /\ UNCHANGED <<install, prevs>>
    /\ UNCHANGED <<staged, journal, incoming, stops, sets, current>>

MoveStaged ==
    /\ At("move_staged")
    /\ install' = staged /\ staged' = NoSet
    /\ Goto("mark_moved")
    /\ UNCHANGED <<prevs, journal, incoming, stops, sets, current>>

RemoveJournal ==
    /\ At("remove_journal")
    /\ journal' = NoJournal
    /\ Goto("copy_manifest")
    /\ UNCHANGED <<install, staged, prevs, incoming, stops, sets, current>>

\* run_swap after perform_swap: the installed version becomes readable.
CopyManifest ==
    /\ At("copy_manifest")
    /\ install' = [install EXCEPT !.tag = incoming]
    /\ run' = SwapIdle
    /\ UNCHANGED <<staged, prevs, journal, incoming, stops, sets, current>>

PerformSwap == RecoverIfInterrupted \/ Forget \/ MarkPrev \/ RenamePrev \/ MoveStaged
               \/ MarkMoved \/ RemoveJournal \/ CopyManifest

\* The run is killed, or its next call fails.  A write of the journal may have
\* truncated the file by then.
Stop ==
    /\ ~At("idle") /\ stops < MaxStops
    /\ stops' = stops + 1
    /\ run' = SwapIdle
    /\ \/ UNCHANGED journal
       \/ TornWrites /\ (At("mark_prev") \/ At("mark_moved")) /\ journal' = Torn
    /\ UNCHANGED <<install, staged, prevs, incoming, sets, current>>

SwapNext == Stage \/ RunSwap \/ PerformSwap \/ Stop

SwapSpec == SwapInit /\ [][SwapNext]_swapVars

-----------------------------------------------------------------------------
(* Properties.                                                             *)

SwapTypeOK ==
    /\ {install, staged, current} \subseteq Dirs \cup {NoSet}
    /\ prevs \in [Prevs -> Dirs \cup {NoSet}]
    /\ journal \in [phase : {"none", "torn", "PrevRenamed", "StagedMoved"}, prev : Prevs]
    /\ run \in [pc : Steps \cup {"idle"}, outgoing : Names, prev : Prevs]
    /\ incoming \in Versions /\ stops \in 0..MaxStops /\ sets \in 0..MaxSets

\* swap.rs: "restores the exact previous set instead of leaving a half-swapped
\* install".  Wherever a run stops, the program is installed, or the journal on
\* disk names the directory that holds exactly what was installed before.
AlwaysRestorable ==
    Exists(current) =>
        \/ Exists(install)
        \/ journal.phase = "PrevRenamed" /\ prevs[journal.prev] = current

=============================================================================
