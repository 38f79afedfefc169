SPECIFICATION TimedSpec
CONSTANTS
    n1 = n1
    n2 = n2
    Nodes = {n1}
    ANNOUNCE_TTL = 3
    PUBLIC_TTL = 3
    FUTURE = 1
    CAP = 6
    Settings <- PromptOrSlow
    MaxInFlight = 2
    MaxSaves = 1
    MaxLosses = 1
    MaxCrashes = 1
CHECK_DEADLOCK FALSE
INVARIANTS
    ListedIsRecent
    StaysListed
PROPERTY StoppedFades
