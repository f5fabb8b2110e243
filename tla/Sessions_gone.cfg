SPECIFICATION Spec
CONSTANTS
    MaxTurns = 1
    MaxCrashes = 0
    MaxFailures = 0
    MaxRewinds = 1
    MaxStarts = 0
    StartsAlone = FALSE
PROPERTIES AbandonedNotPromoted
