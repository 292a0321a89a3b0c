\* No faults at all; only the server configuration has a legacy source.
CONSTANTS
    SourceSets = {{"config"}}
    Fallible = {}
    MaxFaults = 0
SPECIFICATION MigrationSpec
INVARIANT NeverLosePairedInstall
