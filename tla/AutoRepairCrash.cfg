SPECIFICATION RepairSpec
CONSTANTS
    n1 = n1
    n2 = n2
    a = a
    b = b
    Node = {n1, n2}
    File = {a}
    Peers <- OtherNodes
    Uploads <- OneUpload
    PostWorker = {w}
    GetWorker = {d}
    Reader = {}
    RetryCount = 1
    MaxFaults = 0
    MaxCrashes = 1
    AutoRepairs = {n1,n2}
    Forces = {FALSE, TRUE}
    NoInfo = NoInfo
    None = None
INVARIANTS
    RepairTypeOK
    CountAccounted
    OneRoundRepairs
CHECK_DEADLOCK FALSE
