SPECIFICATION Spec
CONSTANTS
    w1 = w1
    w2 = w2
    None = None
    Workers = {w1, w2}
    MaxSlots = 2
    InitialWorkers = 2
    Rates = {12}
    InitialRate = 12
    MaxClaims = 1
    StrictRelease = FALSE
    Bounded = FALSE
    Backpressure = FALSE
    ReplyLoss = FALSE
    Ops = {}
SYMMETRY Symmetry
INVARIANTS NeverStranded
CHECK_DEADLOCK FALSE
