SPECIFICATION FairSpec
CONSTANTS
    Gobjs = {g1, g2, g3}
    NoGobj = NoGobj
    Ceiling = 3
    MaxPosts = 4
    PostsInDestroy = FALSE
INVARIANTS
    TypeOK
    NoDeadDestination
    NoDanglingSource
    AllAccounted
    OrderKept
PROPERTIES
    NextCycle
    NoneWaitsForEver
CHECK_DEADLOCK FALSE
