SPECIFICATION Spec
CONSTANTS
    Specs <- AllSpecs
    Table <- MCTable
    Overrides <- MCOverrides
    DefaultCap = 20
    InprocessMax = 2
    OverNum = 23
    OverDen = 20
    BandNum = 3
    BandDen = 20
    MaxWorkers = 4
    Rates = {13, 24}
    MaxChanges = 2
    Ops <- AllOps
    c1 = c1
    c2 = c2
    Clients = {c1, c2}
    N = 2
    Fleet <- OneOfEach
    Volumes = {3}
    Cap = 5
    MaxCrashes = 1
    MaxFaults = 1
SYMMETRY Submitters
INVARIANTS  CountsPartitioned NothingLeftBehind 
 
CHECK_DEADLOCK FALSE
