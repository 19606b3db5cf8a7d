SPECIFICATION NodeSpec
CONSTANTS
    a = a
    b = b
    ka = ka
    kb = kb
    File = {a, b}
    Name = {x}
    Unique = {ka, kb}
    Sums = {ka, kb}
    Uploader = {u1}
    Deleter = {}
    RenameFile = FALSE
    CustomNames = FALSE
    HasPeers = TRUE
    Checks = TRUE
    LogSize = 1
    MaxUploads = 3
    MaxNumber = 2
    None = None
    TusId = {i1}
    TusName = {None}
    SumName <- SumOf
    Request = {r1, r2}
    UploadSize = 1
INVARIANTS
    NodeTypeOK
    UploadedIsStored
    IdLeadsToContent
    WorkerHasHandler
PROPERTIES
    AnsweredGetsIndexed
    EveryRequestReturns
CHECK_DEADLOCK FALSE
