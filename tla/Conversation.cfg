\* Deadlock is not an error: the bounds stop what the program goes on doing.
CHECK_DEADLOCK FALSE
SPECIFICATION PartsSpec
CONSTANTS
    Parts = {"upkeep", "fold", "read", "speak", "retract"}
    ProtectFirst = 1
    ProtectLast = 1
    Budget = 5
    Trigger = 6
    MaxTurns = 9
    MaxFaults = 1
    MaxRestarts = 1
    MaxSessions = 2
    Results = {"big", "other"}
    Size <- LongAndPinned
    Pinned = {"other"}
    Statements = {"fact"}
    NoFact = "none"
    TrimAt = 8
    Threshold = 11
    Low = 7
    Overhead = 2
    Pointable = 2
    MinChars = 4
    Ends = 2
    MinReclaim = 3
    HeadKept = 1
    TailKept = 2
    DigestCap = 2
    Reports = TRUE
    CaptureLast = 12
    MaxMessages = 9
    MaxMishaps = 1
    BodyLines <- LinesOfUser
    UserBodies <- BodiesOfUser
    OtherBodies <- BodiesOfOthers
    Hosts <- ThreeHosts
    CutsInside = TRUE
    Beliefs <- Believed
    Rank <- Ranked
    Kind <- Kinds
    Newer <- Supersedes
    NoBelief = "none"
    Turns <- AllTurns
    Log <- TurnLog
    SessionOf <- SessionsOf
    NoSession = "none"
    Folded = {"td"}
    Summarised = {"s1"}
    Sealed = {"ta", "tb"}
    Theirs = {"new", "crit"}
    Passages <- Pieces
    Scan <- PieceScan
    RecordOf <- RecordsOf
    Queries <- Asked
    Limit = 1
    BroadLimit = 3
    SessionCap = 1
    FetchMax = 8
    Room = 7
    TailRoom = 2
    MaxDirectives = 1
    MaxExpanded = 1
    WindowTurns = 3
    MaxChanges = 1
    Facts = {1, 2}
    Episodes = {3}
    OwnerOf <- Owners
    Captured = 1
    Batch = 2
    Retries = 2
    Live = TRUE
    MaxWrites = 1
    MaxDeaths = 1
INVARIANTS NothingVanishes DisclosedWasReadable TurnsToldOnce RoomShared ReadFaithfully TakesBackUnsaid
PROPERTIES TrimShowsAll OncePerCrossing FoldsNeatly
