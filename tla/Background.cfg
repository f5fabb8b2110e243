\* Deadlock is not an error: the bounds stop what the program goes on doing.
CHECK_DEADLOCK FALSE
SPECIFICATION PartsSpec
CONSTANTS
    Parts = {"sweeps", "extract", "back", "federate"}
    Keys = {1, 2, 3, 4}
    Budget = 2
    Sweepers = {s1}
    CommitFirst = FALSE
    MaxAborts = 2
    Turns = {1, 2, 3}
    Versions = {1, 2}
    Heard <- Hearing
    Extractors = {1}
    MinFacts = 2
    RowLimit = 9
    MaxFaults = 2
    MaxForgets = 0
    BackKeys = {1, 2, 3}
    Order <- Walked
    Aliased = {1}
    AtRisk = {2}
    Batch = 2
    OldBuild = TRUE
    QuietWhileDown = TRUE
    MaxTexts = 2
    MaxCrashes = 2
    Rows = {1, 2}
    MaxVersion = 3
    RowBudget = 1
    Runners = {"s1"}
    MaxDeaths = 1
    Embeds = TRUE
INVARIANTS QuietMeansDone DigestHonest
PROPERTIES Visited CarriedBack PointersHonest AllReached
