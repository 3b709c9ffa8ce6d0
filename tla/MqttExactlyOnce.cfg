SPECIFICATION Spec
CONSTANTS
    Roles = {TRUE}
    QosLevels = {2}
    MaxInflight = 2
    MaxMid = 3
    MaxMsgs = 2
    MaxFaults = 1
    BreaksInExchange = TRUE
    CleanStarts = {FALSE}
    RoutesWhileClosing = FALSE
INVARIANTS
    ExactlyOnce
CHECK_DEADLOCK FALSE
