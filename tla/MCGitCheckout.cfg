SPECIFICATION Spec
CONSTANTS
    lib = lib
    parts = parts
    t1 = t1
    t2 = t2
    t3 = t3
    t4 = t4
    ours = ours
    theirs = theirs
    health = health
    Repo <- Repos
    Importer <- Importers
    RepoOf <- RepoIs
    Process = {ours, theirs}
    Home <- HomeIs
    Cleaner = {health}
    MaxRetries = 1
    MaxVersion = 2
    MaxInterrupts = 1
    Setting <- Settings
    None = None
INVARIANTS
    OneAtEachCopy
    FailuresLeaveNothing
    FoundIsWhole
    ConfigIsOnesOwn
PROPERTIES
    CopiesStay
    ImportsEnd
CHECK_DEADLOCK FALSE
