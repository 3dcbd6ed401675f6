\* Two batches and one backup request; the watcher is killed, the database
\* rotated or full, three of these at most.
SPECIFICATION FairSpec
CONSTANTS
    Batches = {b1, b2}
    Backups = {k1}
    NoBackup = NoBackup
    Faults = {"kill", "hup", "sql"}
    MaxFaults = 3
INVARIANTS
    TypeOK
    CountedExactlyOnce
    BackupIsCurrent
PROPERTIES
    LossEndsTheWatcher
    StoredIsKept
    FlushedIsStoredOrLost
    AskedIsAnsweredOrSpins
CHECK_DEADLOCK FALSE
