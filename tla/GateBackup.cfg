SPECIFICATION FairSpec
CONSTANTS
    MaxMsgs = 4
    BackupSize = 2
    CrashInBackup = FALSE
    AdminMarks = FALSE
    MaxAcksValues = {2}
    MaxFaults = 2
    AcksCrossBackup = FALSE
    PeerMayRefuse = FALSE
    TlsWriteMayFail = FALSE
INVARIANTS
    InFlightOwned
PROPERTIES
    PromiseKept
