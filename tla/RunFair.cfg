SPECIFICATION FairSpec
CONSTANTS
    w1 = w1
    None = None
    Workers = {w1}
    MaxSlots = 2
    InitialWorkers = 2
    Rates = {12}
    InitialRate = 12
    MaxClaims = 1
    StrictRelease = FALSE
    Bounded = TRUE
    Backpressure = TRUE
    ReplyLoss = FALSE
    Ops = {"crash", "stop", "pause"}
PROPERTIES DrainTerminates TerminalFleetReaped RunsEnd PauseReachesWorkers
CHECK_DEADLOCK FALSE
