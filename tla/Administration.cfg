SPECIFICATION Spec
CONSTANTS
    Names = {"ann", "bob"}
    Roles = {"admin", "viewer"}
    TokenNames = {"ci"}
    Requests = {"q1", "q2"}
    AdminName = "env"
    ProxyNames = {"bob"}
    ProxyRole = "viewer"
    Dialect = "postgresql"
    Serial = TRUE
    MaxId = 3
    MaxCookies = 1
    NoName = "none"
    a = a
    b = b
    k1 = k1
    k2 = k2
    t1 = t1
    t2 = t2
    s1 = s1
    p1 = p1
    Nothing = Nothing
    Instances = {a, b}
    Writers = {a}
    KeyOf <- Keys
    Targets = {t1, t2}
    Specs = {s1}
    Packs = {p1}
    Values = {1}
    FirstCopy <- EarlierCopy
    Indexed <- PacksElsewhere
    Overlap = FALSE
    BootFailures = TRUE
    MaxEdits = 2
    MaxRestarts = 1
    TTL = 20
    Refresh = 4
    DeadMan = 2
    Interval = 1
    Drain = 1
    MaxTime = 50
INVARIANTS TokenOutlivesWorker SetupOnce 
  
CHECK_DEADLOCK FALSE
