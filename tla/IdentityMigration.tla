------------------------- MODULE IdentityMigration -------------------------
(***************************************************************************)
(* The backup-first migration of the host identity that every host start   *)
(* runs (app-native/src/identity.rs, called from host.rs::start).  It      *)
(* moves two things, the Sunshine identity directory and the server        *)
(* configuration file, through four places: legacy source, staging area,   *)
(* managed destination and last-known-good backup.                         *)
(*                                                                         *)
(* Each file-system call is a step.  It completes, it fails part of the    *)
(* way and the caller rolls back, or the process dies part of the way and  *)
(* the next start finds what it left.                                      *)
(***************************************************************************)
EXTENDS Naturals

CONSTANTS SourceSets,  \* the parts a legacy source may hold at a start
          Fallible,    \* the steps that may report an I/O error
          MaxFaults    \* bound on the I/O errors and crashes of one run

Parts == {"identity", "config"}
Content == {"none", "old", "legacy", "torn"}
Intact == {"old", "legacy"}

\* The steps of run_migration and of rollback, by the call each one makes.
BackupSteps == {"remove_backup", "backup_identity", "backup_config", "mark_backed_up"}
SwitchSteps == {"clear_staging", "stage_identity", "stage_config", "mark_staged",
                "verify", "mark_verified", "remove_identity", "remove_config",
                "switch_identity", "switch_config", "drop_staging", "drop_journal"}
RollbackSteps == {"rb_staging", "rb_identity", "rb_config", "rb_restore_identity",
                  "rb_restore_config", "rb_journal"}
MigrationSteps == BackupSteps \cup SwitchSteps \cup RollbackSteps

ASSUME MigrationAssumption ==
    /\ SourceSets \subseteq SUBSET Parts /\ SourceSets # {}
    /\ Fallible \subseteq MigrationSteps /\ MaxFaults \in Nat

VARIABLES
    disk,        \* the managed root: dest, backup, staging and the journal
    sources,     \* the parts the legacy source holds at this start
    nextStep,          \* the next step; "idle" between starts, "up" once host::start
                 \* is past the migration
    recovering,  \* the rollback under way is recover_on_start's
    faults,      \* I/O errors and crashes so far
    good,        \* history: the destination the host last ran with
    paired       \* history: the parts the destination ever held

migrationVars == <<disk, sources, nextStep, recovering, faults, good, paired>>

All(c) == [p \in Parts |-> c]
HeldParts(d) == { p \in Parts : d[p] # "none" }

MigrationInit ==
    /\ disk \in { [dest |-> All(c), backup |-> All("none"), staging |-> All("none"),
                   journal |-> FALSE] : c \in {"none", "old"} }
    /\ sources = {} /\ nextStep = "idle" /\ recovering = FALSE /\ faults = 0
    /\ good = disk.dest /\ paired = HeldParts(disk.dest)

-----------------------------------------------------------------------------
(* The file system.                                                        *)

\* What a removal that was cut short leaves of c; a file goes at once.
CutRemoval(p, c) ==
    {c, "none"} \cup (IF p = "identity" /\ c # "none" THEN {"torn"} ELSE {})

\* remove_path_any on the given parts of a place, whole or cut short.
Removed(at, ps) == [disk EXCEPT ![at] = [p \in Parts |-> IF p \in ps THEN "none" ELSE @[p]]]
RemovedCut(at, ps) ==
    { [disk EXCEPT ![at] = d] : d \in { e \in [Parts -> Content] :
        \A p \in Parts : e[p] \in (IF p \in ps THEN CutRemoval(p, disk[at][p])
                                   ELSE {disk[at][p]}) } }

\* copy_dir_recursive and fs::copy of one part, skipped if there is nothing.
Copied(c, at, p) == IF c = "none" THEN disk ELSE [disk EXCEPT ![at][p] = c]
CopiedCut(c, at, p) ==
    {disk, Copied(c, at, p)} \cup
        (IF c = "none" THEN {} ELSE {[disk EXCEPT ![at][p] = "torn"]})

\* rename of one part out of the staging area, skipped if there is none.
Switched(p) ==
    IF disk.staging[p] = "none" THEN disk
    ELSE [disk EXCEPT !.dest[p] = disk.staging[p], !.staging[p] = "none"]

Marked(b) == [disk EXCEPT !.journal = b]

-----------------------------------------------------------------------------
(* One step of the program at s: it completes and goes on at `to', or it   *)
(* is cut short and leaves one of `cut'.                                   *)

Completes(s, to, done) ==
    /\ nextStep = s
    /\ disk' = done /\ nextStep' = to
    /\ UNCHANGED <<sources, recovering, faults, good, paired>>

\* An error in run_migration makes migrate roll back; an error in a rollback,
\* or the end of the one that follows an error, fails host::start.
Fails(s, cut) ==
    /\ nextStep = s /\ s \in Fallible /\ faults < MaxFaults
    /\ faults' = faults + 1
    /\ disk' \in cut
    /\ nextStep' = IF s \in RollbackSteps THEN "idle" ELSE "rb_staging"
    /\ recovering' = FALSE
    /\ UNCHANGED <<sources, good, paired>>

Crashes(s, cut) ==
    /\ nextStep = s /\ faults < MaxFaults
    /\ faults' = faults + 1
    /\ disk' \in cut
    /\ nextStep' = "idle" /\ recovering' = FALSE
    /\ UNCHANGED <<sources, good, paired>>

\* A crash may come after the call's whole effect, an error may not, and a call
\* with nothing to do cannot fail; only a failed write leaves the file it made.
Do(s, to, done, cut) ==
    Completes(s, to, done) \/ Fails(s, cut \ {done}) \/ Crashes(s, cut)

RemoveParts(s, to, at, ps) == Do(s, to, Removed(at, ps), RemovedCut(at, ps))
Copy(s, to, c, at, p) == Do(s, to, Copied(c, at, p), CopiedCut(c, at, p))
Switch(s, to, p)      == Do(s, to, Switched(p), {disk, Switched(p)})
DropJournal(s, to)    == Do(s, to, Marked(FALSE), {disk, Marked(FALSE)})
WriteMigrationJournal(s, to) ==
    \/ Completes(s, to, Marked(TRUE))
    \/ Fails(s, {disk, Marked(TRUE)}) \/ Crashes(s, {disk, Marked(TRUE)})

Source(p) == IF p \in sources THEN "legacy" ELSE "none"

-----------------------------------------------------------------------------
(* run_migration.                                                          *)

\* Mutant: the journal is written before the backup is taken.
BackUpMarkedFirst ==
    \/ WriteMigrationJournal("remove_backup", "backup_identity")
    \/ RemoveParts("backup_identity", "backup_config", "backup", Parts)
    \/ Copy("backup_config", "mark_backed_up", disk.dest["identity"], "backup", "identity")
    \/ Copy("mark_backed_up", "clear_staging", disk.dest["config"], "backup", "config")

\* (a) the complete destination is copied before anything is written to it.
BackUp ==
    \/ RemoveParts("remove_backup", "backup_identity", "backup", Parts)
    \/ Copy("backup_identity", "backup_config", disk.dest["identity"], "backup", "identity")
    \/ Copy("backup_config", "mark_backed_up", disk.dest["config"], "backup", "config")
    \/ WriteMigrationJournal("mark_backed_up", "clear_staging")

\* (b) the sources are copied into the staging area.
StageParts ==
    \/ RemoveParts("clear_staging", "stage_identity", "staging", Parts)
    \/ Copy("stage_identity", "stage_config", Source("identity"), "staging", "identity")
    \/ Copy("stage_config", "mark_staged", Source("config"), "staging", "config")
    \/ WriteMigrationJournal("mark_staged", "verify")

\* (c) the staged parts are compared with their sources.
Verify ==
    \/ /\ \A p \in sources : disk.staging[p] = Source(p)
       /\ Completes("verify", "mark_verified", disk)
    \/ Fails("verify", {disk}) \/ Crashes("verify", {disk})
    \/ WriteMigrationJournal("mark_verified", "remove_identity")

\* (d) the destination is removed and the staged parts are renamed over it;
\* the journal goes last.
SwitchOver ==
    \/ RemoveParts("remove_identity", "remove_config", "dest", {"identity"})
    \/ RemoveParts("remove_config", "switch_identity", "dest", {"config"})
    \/ Switch("switch_identity", "switch_config", "identity")
    \/ Switch("switch_config", "drop_staging", "config")
    \/ RemoveParts("drop_staging", "drop_journal", "staging", Parts)
    \/ DropJournal("drop_journal", "up")

\* What migrate does once nothing is left to recover.
Migrate == IF sources = {} THEN "up" ELSE "remove_backup"

\* (e) rollback, from recover_on_start or after an error of run_migration.
Rollback ==
    LET after == IF recovering THEN Migrate ELSE "idle" IN
    \/ RemoveParts("rb_staging", "rb_identity", "staging", Parts)
    \/ RemoveParts("rb_identity", "rb_config", "dest", {"identity"})
    \/ RemoveParts("rb_config", "rb_restore_identity", "dest", {"config"})
    \/ Copy("rb_restore_identity", "rb_restore_config", disk.backup["identity"], "dest", "identity")
    \/ Copy("rb_restore_config", "rb_journal", disk.backup["config"], "dest", "config")
    \/ DropJournal("rb_journal", after)

\* host::start: recover_on_start, then migrate.  The identity source depends on
\* an environment variable, so each start may find different sources.
StartMigration ==
    /\ nextStep = "idle"
    /\ sources' \in SourceSets
    /\ recovering' = disk.journal
    /\ nextStep' = IF disk.journal THEN "rb_staging" ELSE Migrate'
    /\ UNCHANGED <<disk, faults, good, paired>>

\* The app ends after the host has run with the destination.
Exit ==
    /\ nextStep = "up"
    /\ nextStep' = "idle"
    /\ good' = disk.dest /\ paired' = paired \cup HeldParts(disk.dest)
    /\ recovering' = FALSE
    /\ UNCHANGED <<disk, sources, faults>>

MigrationNext == StartMigration \/ BackUp \/ StageParts \/ Verify \/ SwitchOver \/ Rollback \/ Exit

MigrationSpec == MigrationInit /\ [][MigrationNext]_migrationVars

-----------------------------------------------------------------------------
(* Properties.                                                             *)

MigrationTypeOK ==
    /\ disk \in [dest : [Parts -> Content], backup : [Parts -> Content],
                 staging : [Parts -> Content \ {"old"}], journal : BOOLEAN]
    /\ sources \subseteq Parts /\ nextStep \in MigrationSteps \cup {"idle", "up"}
    /\ recovering \in BOOLEAN /\ faults \in 0..MaxFaults
    /\ good \in [Parts -> Content] /\ paired \subseteq Parts

\* The owner's contract of identity.rs, "never lose a paired install": of every
\* part the managed layout ever held, the destination or the backup has a
\* complete copy, at every step, so that a crash there loses nothing.
NeverLosePairedInstall ==
    \A p \in paired : \E at \in {"dest", "backup"} : disk[at][p] \in Intact

\* recover_on_start: the host never comes up on a half-migrated destination.
\* Whatever crashed before, it is the one it last ran with or the legacy one,
\* never a mixture and never a torn copy.
NeverHalfMigrated == nextStep = "up" => disk.dest \in {good, All("legacy")}

\* A migration may stop anywhere: nothing paired is lost and nothing half
\* migrated comes up (identity.rs migrate, rollback, recover_on_start).
MigrationSafe == MigrationTypeOK /\ NeverLosePairedInstall /\ NeverHalfMigrated

=============================================================================
