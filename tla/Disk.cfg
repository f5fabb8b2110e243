\* Deadlock is not an error: the bounds stop what the program goes on doing.
CHECK_DEADLOCK FALSE
SPECIFICATION PartsSpec
CONSTANTS
    Parts = {"library", "mirror", "upgrade", "files", "cache"}
    TokenCap = 2
    CardCap = 2
    BareFirst = TRUE
    Overlap = FALSE
    Procs = {"p1", "p2"}
    Events = {"e1", "e2", "e3"}
    Files = {1, 2, 3, 4, 5}
    MaxCrashes = 2
    \* Two processes, two events on two days, the database lost once.
    Flushers = {"p1", "p2"}
    MaxEvents = 2
    MaxMinute = 1
    DayLength = 1
    BatchRows = 2
    MaxBatches = 2
    Tearing = FALSE
    MaxStops = 1
    MaxLosses = 1
    \* Two processes, a column to add, every queue of three jobs.
    Openers = {"o1", "o2"}
    Columns = {"c1"}
    OldJobs = {1, 2, 3}
    Chains = FALSE
    MaxQueued = 1
    MaxDeaths = 1
    Designs = {"observed", "projection"}
    Ids = {"k1", "k2", "k3"}
    RecordOf <- Records
    Scores = {1, 8}
    Unfit = {}
    Widths = {"w1"}
    Floor = 0
    Rounding = 1
    MaxRows = 3
    MaxRowid = 4
    MaxFailures = 1
    Limit = 2
    MaxWrites = 3
    Beside = FALSE
INVARIANTS FoundRight MirrorHonest QueueSurvives CopiesExact EventsSurvive
