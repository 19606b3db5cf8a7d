SPECIFICATION CleanerSpec
CONSTANTS
    n1 = n1
    n2 = n2
    a = a
    Node = {n1, n2}
    File = {a}
    Peers <- OtherNodes
    Uploads <- OneUpload
    PostWorker = {w}
    GetWorker = {d}
    Reader = {}
    RetryCount = 2
    MaxFaults = 0
    MaxCrashes = 1
    NoInfo = NoInfo
INVARIANTS
    FetchedStays
CHECK_DEADLOCK FALSE
