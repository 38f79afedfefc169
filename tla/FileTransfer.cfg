SPECIFICATION FairSpec
CONSTANTS
    u1 = u1
    u2 = u2
    u3 = u3
    d1 = d1
    p1 = p1
    unsafe = unsafe
    Uploads = {u1, u2, u3}
    Downloads = {d1}
    Paths = {p1, unsafe}
    UnsafePaths = {unsafe}
    Plans <- AllPlans
CHECK_DEADLOCK FALSE
INVARIANTS
    AckedIsIntact
    DestIsWhole
    SameFileNeverRejected
    DownloadIsTrue
PROPERTY UploadIsAnswered
