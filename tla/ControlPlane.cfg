SPECIFICATION StoreSpec
CONSTANTS
    n1 = n1
    n2 = n2
    Senders = {n1, n2}
    PairedWith <- AllPaired
    Overlaps = {FALSE, TRUE}
    MaxRequests = 2
    MaxHandlers = 2
    MaxFailures = 1
    MaxFalls = 2
CHECK_DEADLOCK FALSE
SYMMETRY Alike
INVARIANTS
    SyncIsWhole
    FileIsMemory
    AnsweredIsSaved
