SPECIFICATION Spec
CONSTANTS
    Issuers = {TRUE, FALSE}
    QueueSize = 2
    CloseDelimited = TRUE
    LateReplies = FALSE
    MaxReqs = 4
    MaxBrowsers = 2
    MaxFaults = 2
INVARIANT AnswersTheAsker
CHECK_DEADLOCK FALSE
