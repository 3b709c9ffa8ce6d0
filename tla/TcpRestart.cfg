SPECIFICATION Spec
CONSTANTS
    Channels = {FALSE}
    IdleModels = {TRUE, FALSE}
    Tls = {TRUE, FALSE}
    MaxQueue = 2
    MaxSends = 3
    MaxAnswers = 2
    MaxFaults = 4
    AcceptMayFail = FALSE
    SlowWrites = FALSE
    ReaderRefuses = FALSE
    StopBetween = TRUE
INVARIANTS
    NeverStalled
CHECK_DEADLOCK FALSE
