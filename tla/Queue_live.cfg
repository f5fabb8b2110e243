\* Deadlock is not an error: with MaxId rows inserted and pruned the bound stops
\* every request, which the program does not have, and a drain that is over has
\* returned.
CHECK_DEADLOCK FALSE
CONSTANTS
    Parts = {"queue", "drain"}
    gateway = gateway
    cron = cron
    t1 = t1
    t2 = t2
    extract = extract
    digest = digest
    embed = embed
    NoWork = none
    Procs = {gateway}
    Threads = {t1, t2}
    Workers = {t1, t2}
    SlowThreads = {}
    ProcOf <- OneProcess
    Works = {extract, embed}
    EmbedWorks = {embed}
    DepWorks = {}
    Filters <- AnyTask
    MaxId = 2
    LeaseCap = 2
    DeferCap = 2
    ReclaimLimit = 1
    MaxTerminal = 1
    MaxCrashes = 1
    MaxBudget = 4
    MaxShare = 1
SPECIFICATION FairPartsSpec
PROPERTIES AllServed
