SPECIFICATION PartsSpec
CONSTANTS
    Parts = {"told"}
    MaxUnlearned = 1
    nothing = nothing
    Slots = {home, city}
    Values = {acme, paris}
    Turns = {t1}
    Agents = {}
    Flagged = {}
    SlotA = home
    SlotB = city
    Ground = acme
    Concluded = paris
    MaxEvents = 6
    LiveRebuild = FALSE
    Pruning = TRUE
INVARIANTS ReplayAgrees
