SPECIFICATION FairSpec
CONSTANTS
    Issuers = {TRUE, FALSE}
    QueueSize = 2
    CloseDelimited = FALSE
    LateReplies = FALSE
    MaxReqs = 4
    MaxBrowsers = 2
    MaxFaults = 2
INVARIANTS TypeOK AnswersTheAsker AnsweredOnce TaskIsTimed
PROPERTY EveryoneIsAnswered
CHECK_DEADLOCK FALSE
