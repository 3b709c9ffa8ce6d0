SPECIFICATION FairSpec
CONSTANTS
    Channels = {TRUE, FALSE}
    IdleModels = {TRUE, FALSE}
    Tls = {TRUE, FALSE}
    MaxQueue = 2
    MaxSends = 3
    MaxAnswers = 2
    MaxFaults = 4
    AcceptMayFail = FALSE
    SlowWrites = FALSE
    ReaderRefuses = FALSE
    StopBetween = FALSE
INVARIANTS
    TypeOK
    InTurn
    DownIsQuiet
    NeverStalled
PROPERTIES
    IsConnection
    StopCompletes
    Reconnects
CHECK_DEADLOCK FALSE
