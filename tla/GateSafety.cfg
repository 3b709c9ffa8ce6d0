SPECIFICATION Spec
CONSTANTS
    MaxMsgs = 3
    BackupSize = 0
    CrashInBackup = FALSE
    AdminMarks = TRUE
    MaxAcksValues = {0, 1, 2}
    MaxFaults = 2
    AcksCrossBackup = FALSE
    PeerMayRefuse = TRUE
    TlsWriteMayFail = FALSE
INVARIANTS
    TypeOK
    NoMessageLost
    PendingAcksExact
    MarksArePrefix
    CursorSafe
    HeadInFlight
    NoOvertaking
PROPERTIES
    WindowRespected
    OnOpenResends
