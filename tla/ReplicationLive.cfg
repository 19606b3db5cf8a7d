SPECIFICATION FairSpec
CONSTANTS
    n1 = n1
    n2 = n2
    n3 = n3
    a = a
    b = b
    Node = {n1, n2}
    File = {a}
    Peers <- OtherNodes
    Uploads <- OneUpload
    PostWorker = {w}
    GetWorker = {d}
    Reader = {r}
    RetryCount = 2
    MaxFaults = 1
    MaxCrashes = 0
    NoInfo = NoInfo
INVARIANTS
    ListedPeerHasFile
PROPERTIES
    EventuallyReplicated
CHECK_DEADLOCK FALSE
