\* One I/O error, while the backup is taken.
CONSTANTS
    SourceSets = {{"identity", "config"}}
    Fallible = {"remove_backup", "backup_identity", "backup_config", "mark_backed_up"}
    MaxFaults = 1
SPECIFICATION MigrationSpec
INVARIANT NeverLosePairedInstall
