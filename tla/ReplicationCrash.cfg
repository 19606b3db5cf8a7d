SPECIFICATION Spec
CONSTANTS
    n1 = n1
    n2 = n2
    n3 = n3
    a = a
    b = b
    Node = {n1, n2}
    File = {a}
    Peers <- AllNodes
    Uploads <- OneUpload
    PostWorker = {w}
    GetWorker = {d}
    Reader = {}
    RetryCount = 2
    MaxFaults = 1
    MaxCrashes = 1
    NoInfo = NoInfo
INVARIANTS
    TypeOK
    IndexedIsStored
    SourceHoldsFile
    RecordedDownloadGoesOn
PROPERTIES
    Refinement
    RetriesDwindle
CHECK_DEADLOCK FALSE
