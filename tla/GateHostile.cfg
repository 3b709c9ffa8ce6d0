SPECIFICATION Spec
CONSTANTS
    MaxMsgs = 4
    BackupSize = 2
    CrashInBackup = FALSE
    AdminMarks = FALSE
    MaxAcksValues = {0, 1}
    MaxFaults = 3
    AcksCrossBackup = FALSE
    PeerMayRefuse = TRUE
    TlsWriteMayFail = TRUE
INVARIANTS
    NoMessageLost
