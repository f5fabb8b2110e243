\* Deadlock is not an error: the bounds stop what the program goes on doing.
CHECK_DEADLOCK FALSE
SPECIFICATION PartsSpec
CONSTANTS
    Parts = {"scheduler", "mirror"}
    N = 3
    Day = 3
    Fires <- ReaperAndTwoDaily
    Procs = {p1}
    Reaches = {1, 2, 3}
    Pace = 3
    Lifetime = 6
    Restarts = TRUE
    MaxLag = 3
    MaxCrashes = 1
INVARIANTS MarkHonest
PROPERTIES FiresRight ServesEveryEntry EventuallyMirrored
