SPECIFICATION PartsSpec
CONSTANTS
    Parts = {"ask"}
    MaxUnlearned = 1
    nothing = nothing
    Slots = {home, city}
    Values = {acme, paris}
    Turns = {t1}
    Agents = {q}
    Flagged = {home}
    SlotA = home
    SlotB = city
    Ground = acme
    Concluded = paris
    MaxEvents = 4
    LiveRebuild = FALSE
    Pruning = TRUE
INVARIANTS UnlearnedStays
