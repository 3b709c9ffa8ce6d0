SPECIFICATION TrqSpec
CONSTANTS
    MaxMsgs = 5
    BackupSize = 2
    CrashInBackup = FALSE
    AdminMarks = TRUE
INVARIANTS
    TrqTypeOK
    NothingStranded
    QueueIsPending
PROPERTIES
    BackupMovesSettled
