SPECIFICATION FairSpec
CONSTANTS
    Roles = {TRUE, FALSE}
    QosLevels = {1, 2}
    MaxInflight = 2
    MaxMid = 3
    MaxMsgs = 3
    MaxFaults = 2
    BreaksInExchange = FALSE
    CleanStarts = {FALSE}
    RoutesWhileClosing = FALSE
INVARIANTS
    TypeOK
    AnswersMatch
    ExactlyOnce
    InOrder
PROPERTIES
    KeepsPromise
CHECK_DEADLOCK FALSE
