SPECIFICATION FairSpec
CONSTANTS
    MaxTurns = 1
    MaxCrashes = 1
    MaxFailures = 1
    MaxRewinds = 1
    MaxStarts = 1
    StartsAlone = TRUE
INVARIANTS NoTurnLost
PROPERTIES TurnsExtracted SessionSettles
