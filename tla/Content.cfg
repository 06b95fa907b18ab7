SPECIFICATION Spec
CONSTANTS
    Syncs = {s1, s2}
    Builds = {b1}
    Roots <- TwoRoots
    Trees <- SomeTrees
    MaxCommits = 2
    MaxSpecs = 1
    MayFail = TRUE
    Launches <- Two
    Packs <- FourPacks
    NameOf <- PackNames
    IdOf <- Ids
    Contents <- AllContents
    Requests <- SomeRequests
    Answers <- SomeAnswers
    MaxRedirects = 1
    MaxBytes = 2
    MaxSeries = 3
    MaxMetrics = 2
    MaxPoints = 4
    MaxEdits = 1
SYMMETRY Threads
INVARIANTS PinnedVerdict  MergeSound DeliveredWhole
CHECK_DEADLOCK FALSE
