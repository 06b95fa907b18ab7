SPECIFICATION Spec
CONSTANTS
    Conns = {c1, c2}
    Senders = {s1}
    Share = 1
    Rates = {1, 2}
    Catchup = 1
    QueueMax = 1
    MaxAttempts = 2
    RunModes <- SomeModes
    Dataset <- Lines
    MaxLines = 2
    MaxTicks = 2
    WireMax = 2
    MaxRetargets = 1
    Slots = {r1, r2}
    MaxSend = 2
    MaxTime = 3
    MaxSamples = 2
    MaxChanges = 1
    Bucket = 2
    RollAfter = 1
    PruneAfter = 2
    MaxFleet = 2
    Resolution = 2
    Window <- Past
    Multiple = 2
    FallbackGap = 1
    ConnectRetry = 1
    Jobs <- SomeJobs
    MaxClock = 3
    MaxStarts = 3
    MaxStream = 3
    MaxScales = 1
SYMMETRY Unordered
INVARIANTS Conserved CleanFlushComplete CatchUpBounded NothingCountedTwice StreamsWhole
PROPERTIES TotalsKept
CHECK_DEADLOCK FALSE
