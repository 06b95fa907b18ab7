SPECIFICATION FairSpec
CONSTANTS
    Fence = 3
    DeadMan = 8
    Timeout = 1
    Interval = 1
    Delay = 1
    Catchup = 1
    ZeroOut = 3
    MaxRestarts = 1
    RestartWait = 2
    Budget = 8
    SockJoin = 1
    EngineGrace = 2
    KillWait = 2
    Flush = 4
    AbortJoin = 1
    FinalSleep = 1
    Slices <- MCSlices
    Feeds = {TRUE, FALSE}
INVARIANTS NothingBeforeT0 HoldsKept DrainWithinBudget
PROPERTIES  WorkerLeaves
CHECK_DEADLOCK FALSE
