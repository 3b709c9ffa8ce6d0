SPECIFICATION Spec
CONSTANTS
    MaxMsgs = 2
    BackupSize = 1
    CrashInBackup = FALSE
    AdminMarks = FALSE
    MaxAcksValues = {1}
    MaxFaults = 2
    AcksCrossBackup = TRUE
    PeerMayRefuse = FALSE
    TlsWriteMayFail = FALSE
INVARIANTS
    NoMessageLost
