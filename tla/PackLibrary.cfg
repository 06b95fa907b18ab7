SPECIFICATION Spec
CONSTANTS
    c1 = c1
    c2 = c2
    Clients = {c1, c2}
    Names = {"web", "web!", "api", "db"}
    SlugOf <- MCSlugOf
    Builtins = {"db"}
    Archives <- MCArchives
    Writable = TRUE
    Ops = {"upload", "create", "save", "rename", "publish", "delete", "register", "metric", "spec"}
    MaxId = 4
    MaxCopies = 2
    MaxRequests = 3
    MaxCrashes = 1
SYMMETRY Symmetry
INVARIANTS OwnContent 
CHECK_DEADLOCK FALSE
