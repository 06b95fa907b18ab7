SPECIFICATION Spec
CONSTANTS
    w1 = w1
    w2 = w2
    None = None
    Workers = {w1, w2}
    MaxSlots = 2
    InitialWorkers = 2
    Rates = {12}
    InitialRate = 12
    MaxClaims = 2
    StrictRelease = FALSE
    Bounded = FALSE
    Backpressure = FALSE
    ReplyLoss = FALSE
    Ops = {"crash"}
SYMMETRY Symmetry
INVARIANTS FencedHolder CompletionQuiescent
PROPERTIES  SupersededIsInert
CHECK_DEADLOCK FALSE
