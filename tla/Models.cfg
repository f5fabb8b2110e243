\* Deadlock is not an error: the bounds stop what the program goes on doing.
CHECK_DEADLOCK FALSE
SPECIFICATION PartsSpec
CONSTANTS
    Parts = {"host", "vectors"}
    Sessions = {s1}
    Beliefs = {b1}
    Queries = {q1}
    Cap = 2
    HintCap = 2
    Ranked = 2
    Overlap = FALSE
    MaxRequests = 3
    MaxVersions = 2
    MaxFaults = 1
    Summaries = {"s1"}
    Lost = {}
    Restated = {b1}
    Order <- ThenSummaries
    Workers = {"w1"}
    Models = {"m1", "m2"}
    Budget = 2
    MaxTurns = 2
    MaxOutages = 1
    MaxSwitches = 1
    MaxReasserts = 0
INVARIANTS AppliedWell CurrentIsTrue
PROPERTIES EventuallyServed
