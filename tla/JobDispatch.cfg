SPECIFICATION FairDispatch
CONSTANTS
    j1 = j1
    j2 = j2
    p1 = p1
    p2 = p2
    nobody = nobody
    Jobs = {j1, j2}
    Attempt <- Ids
    Cancellable = {j1}
    Fragile = {j1}
    MaxConcurrent = 1
    HasMaxRuntime = TRUE
    LogCap = 1
    WireCap = 1
    MaxLines = 2
    MaxCrashes = 1
    Peers = {p1, p2}
    NoPeer = nobody
    NameOf <- Names
    Requests <- Asked
    Answers <- Said
CHECK_DEADLOCK FALSE
INVARIANTS
    SlotLimit
    SlotsAccounted
    ContainersAccounted
    ReportIsTrue
    LinesDrained
    ChosenIsBest
    OverlapOnlyWhenLost
    HistoryIsTrue
PROPERTIES
    ImplementsPromise
    SlotReleased
    CommandEnds
