SPECIFICATION Spec
CONSTANTS
    w1 = w1
    None = None
    Workers = {w1}
    MaxSlots = 2
    InitialWorkers = 1
    Rates = {12, 6}
    InitialRate = 12
    MaxClaims = 2
    StrictRelease = TRUE
    Bounded = FALSE
    Backpressure = FALSE
    ReplyLoss = TRUE
    Ops = {"force", "stop", "scale", "rescale", "restart", "vanish", "auth"}
SYMMETRY Symmetry
INVARIANTS UniformShares StopEndsStopped 
PROPERTIES TerminalAbsorbing LeaseProtocol
CHECK_DEADLOCK FALSE
